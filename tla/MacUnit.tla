------------------------------ MODULE MacUnit ------------------------------
(***************************************************************************)
(* The unit of a runner as a launchd job in a macOS guest                  *)
(* (agent/runtimes/macos_appliance.py): what each call has launchd do and  *)
(* what it does to the tree of the runner, step by step, and what launchd  *)
(* and the guest do by themselves.  A step may fail, or the agent die.     *)
(***************************************************************************)
EXTENDS Naturals, Sequences

CONSTANTS
  MaxJobCalls,  \* bound: calls
  MaxJobCuts    \* bound: calls that end before they are through

VARIABLES
  plist,    \* the definition of the job is there
  enabled,  \* launchd may load it
  loaded,   \* launchd has loaded it
  process,  \* "none", "serving", or "finishing": sent a SIGTERM
  software, \* in the tree: "none", "part" or "whole"
  template, \* the file that says what the software was copied from
  keeps,    \* what a rebuild keeps
  jobCall, todo, jobCalls, jobCuts

macVars == <<plist, enabled, loaded, process, software, template, keeps,
             jobCall, todo, jobCalls, jobCuts>>

launchd == <<plist, enabled, loaded, process>>
disk == <<software, template, keeps>>

JOB_CALLS == {"create", "start", "cancel_drain", "stop", "drain", "rebuild", "remove"}

MacTypeOK ==
  /\ {plist, enabled, loaded, template, keeps} \subseteq BOOLEAN
  /\ process \in {"none", "serving", "finishing"}
  /\ software \in {"none", "part", "whole"}
  /\ jobCall \in [verb : JOB_CALLS \cup {"none"}, answered : BOOLEAN]
  /\ todo \in Seq(STRING)
  /\ jobCalls \in 0 .. MaxJobCalls /\ jobCuts \in 0 .. MaxJobCuts

MacInit ==
  /\ plist = FALSE /\ enabled = TRUE /\ loaded = FALSE /\ process = "none"
  /\ software = "none" /\ template = FALSE /\ keeps = FALSE
  /\ jobCall = [verb |-> "none", answered |-> FALSE] /\ todo = <<>>
  /\ jobCalls = 0 /\ jobCuts = 0

MacBudget == UNCHANGED <<jobCalls, jobCuts>>

-----------------------------------------------------------------------------
(* The calls.                                                              *)

\* Mutant: a drain leaves launchd free to load the job with the guest.
SignalsOnly == <<"policy", "signal">>

Drains == <<"policy", "disable", "signal">>

TodoOf(verb) ==
  CASE verb = "create" -> <<"storage", "copy", "template", "plist", "enable", "load", "kick">>
    [] verb = "start" -> <<"enable", "load", "kick">>
    [] verb = "cancel_drain" -> <<"enable", "load", "kick">>
    [] verb = "stop" -> <<"disable", "bootout">>
    [] verb = "drain" -> Drains
    [] verb \in {"rebuild", "remove"} -> <<"disable", "bootout", "rm_plist", "rmtree">>

\* A drain is taken back once the process has exited, and no unit is created
\* over a tree a removal left half of: README, "Other disagreements".
MayBegin(verb) ==
  /\ verb \in {"start", "cancel_drain", "create"} => process # "finishing"
  /\ verb = "create" => ~(template /\ software # "whole")

BeginJobCall(verb) ==
  /\ todo = <<>> /\ MayBegin(verb)
  /\ jobCalls < MaxJobCalls /\ jobCalls' = jobCalls + 1
  /\ jobCall' = [verb |-> verb, answered |-> FALSE] /\ todo' = TodoOf(verb)
  /\ UNCHANGED <<jobCuts, launchd, disk>>

JobCallCut ==
  /\ todo # <<>> /\ jobCuts < MaxJobCuts /\ jobCuts' = jobCuts + 1
  /\ todo' = <<>>
  /\ UNCHANGED <<jobCalls, jobCall, launchd, disk>>

\* The step is done; one that is not possible ends the call unanswered.
Does(step, possible) ==
  /\ todo # <<>> /\ Head(todo) = step
  /\ todo' = IF possible THEN Tail(todo) ELSE <<>>
  /\ jobCall' = [jobCall EXCEPT !.answered = possible /\ Tail(todo) = <<>>]
  /\ MacBudget

MakeStorage ==
  /\ Does("storage", TRUE) /\ keeps' = TRUE
  /\ software' = IF software = "none" THEN "part" ELSE software
  /\ UNCHANGED <<launchd, template>>

CopySoftware ==
  /\ Does("copy", TRUE) /\ software' = IF template THEN software ELSE "whole"
  /\ UNCHANGED <<launchd, template, keeps>>

NoteTemplate ==
  /\ Does("template", TRUE) /\ template' = TRUE
  /\ UNCHANGED <<launchd, software, keeps>>

WritePlist ==
  /\ Does("plist", TRUE) /\ plist' = TRUE
  /\ UNCHANGED <<enabled, loaded, process, disk>>

Enable ==
  /\ Does("enable", TRUE) /\ enabled' = TRUE
  /\ UNCHANGED <<plist, loaded, process, disk>>

\* A job that is loaded runs at once.
Load ==
  /\ Does("load", loaded \/ (plist /\ enabled))
  /\ loaded' = (loaded \/ (plist /\ enabled))
  /\ process' = IF ~loaded /\ loaded' THEN "serving" ELSE process
  /\ UNCHANGED <<plist, enabled, disk>>

Kick ==
  /\ Does("kick", loaded)
  /\ process' = IF loaded /\ process = "none" THEN "serving" ELSE process
  /\ UNCHANGED <<plist, enabled, loaded, disk>>

Disable ==
  /\ Does("disable", TRUE) /\ enabled' = FALSE
  /\ UNCHANGED <<plist, loaded, process, disk>>

Bootout ==
  /\ Does("bootout", TRUE) /\ loaded' = FALSE /\ process' = "none"
  /\ UNCHANGED <<plist, enabled, disk>>

\* A drain is refused where the job's definition cannot be read.
CheckPolicy ==
  /\ Does("policy", plist) /\ UNCHANGED <<launchd, disk>>

Signal ==
  /\ Does("signal", TRUE)
  /\ process' = IF process = "serving" THEN "finishing" ELSE process
  /\ UNCHANGED <<plist, enabled, loaded, disk>>

RemovePlist ==
  /\ Does("rm_plist", TRUE) /\ plist' = FALSE
  /\ UNCHANGED <<enabled, loaded, process, disk>>

RemoveAll ==
  /\ Does("rmtree", TRUE)
  /\ software' = "none" /\ template' = FALSE
  /\ keeps' = (keeps /\ jobCall.verb = "rebuild")
  /\ UNCHANGED launchd

RemovePart ==
  /\ Does("rmtree", FALSE) /\ software # "none"
  /\ software' = "part" /\ template' \in {template, FALSE}
  /\ keeps' \in {keeps, keeps /\ jobCall.verb = "rebuild"}
  /\ UNCHANGED launchd

JobStep ==
  \/ \E verb \in JOB_CALLS : BeginJobCall(verb)
  \/ JobCallCut \/ MakeStorage \/ CopySoftware \/ NoteTemplate \/ WritePlist
  \/ Enable \/ Load \/ Kick \/ Disable \/ Bootout \/ CheckPolicy \/ Signal
  \/ RemovePlist \/ RemoveAll \/ RemovePart

-----------------------------------------------------------------------------
(* launchd and the guest.                                                  *)

\* A process that exits cleanly, as one that was told to does, stays down ...
ExitsCleanly ==
  /\ process # "none" /\ process' = "none"
  /\ UNCHANGED <<plist, enabled, loaded, disk, jobCall, todo>> /\ MacBudget

\* ... and what is enabled is loaded and run with the guest.  The agent is on
\* the host of the guest: its call ends at the step that finds the guest gone.
GuestReboots ==
  /\ (process # "none" \/ loaded)
  /\ loaded' = (plist /\ enabled)
  /\ process' = IF loaded' THEN "serving" ELSE "none"
  /\ todo' = <<>>
  /\ UNCHANGED <<plist, enabled, disk, jobCall>> /\ MacBudget

MacNext == JobStep \/ ExitsCleanly \/ GuestReboots
MacSpec == MacInit /\ [][MacNext]_macVars

-----------------------------------------------------------------------------

MacContract == INSTANCE UnitContract WITH
  unit <- IF process # "none" THEN "up" ELSE IF plist THEN "down" ELSE "absent",
  back <- plist /\ enabled,
  asked <- process = "finishing",
  tree <- IF software = "whole" /\ ~template THEN "part" ELSE software,
  cache <- keeps,
  call <- jobCall.verb, answered <- jobCall.answered

\* A launchd job keeps the promises of a unit, whatever fails on the way: one
\* drained or stopped does not come back, not even with its guest; what is
\* answered is so; a rebuild keeps the caches and a removal leaves nothing.
LaunchdJobIsAUnit == MacContract!ContractSpec
=============================================================================
