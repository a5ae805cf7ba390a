------------------------------ MODULE MacPool ------------------------------
(***************************************************************************)
(* A runner that has a macOS guest of its own (agent/runtimes/             *)
(* macos_pool.py): a virtual machine in a container of the Linux host, its *)
(* disk, the runner's launchd job in the guest, and the record the agent   *)
(* keeps of it.  The guest is only reached while it is powered on, so that *)
(* calls boot it, and a boot starts every job launchd may load: the record *)
(* says whether the runner's is known to be disabled.  A step may fail, or *)
(* the agent, the guest or the host go down between any two.               *)
(***************************************************************************)
EXTENDS Naturals, Sequences

CONSTANTS
  MaxPoolCalls,  \* bound: calls
  MaxPoolCuts    \* bound: calls that end before they are through

VARIABLES
  power,     \* of the virtual machine: "absent", "off" or "on"
  instance,    \* instance.json: what the agent knows of the guest
  overlay,   \* the disk of the guest is there
  job,       \* in the guest: the launchd job of the runner, and its process
  guestTree,    \* on the guest's disk: software and what a rebuild keeps
  poolCall,  \* the call under way or the last one, and whether it is answered
  poolSteps,     \* what it has left to do
  upkeep,    \* "none", or the power at which upkeep under way found the guest
  poolCalls, poolCuts

poolVars == <<power, instance, overlay, job, guestTree, poolCall, poolSteps, upkeep,
              poolCalls, poolCuts>>

theGuest == <<job, guestTree>>
theHost == <<power, overlay>>

UNIT_VERBS == {"create", "start", "cancel_drain", "stop", "drain", "rebuild", "remove"}
UPKEEP == {"clear_cache", "deregister"}

NoRecord == [known |-> FALSE, initialized |-> FALSE, native |-> FALSE,
             retained |-> FALSE, disabled |-> FALSE]
NoGuestJob == [plist |-> FALSE, enabled |-> TRUE, loaded |-> FALSE, process |-> "none"]
NothingStored == [software |-> "none", template |-> FALSE, keeps |-> FALSE]

PoolTypeOK ==
  /\ power \in {"absent", "off", "on"}
  /\ instance \in [{"known", "initialized", "native", "retained", "disabled"} -> BOOLEAN]
  /\ overlay \in BOOLEAN
  /\ job \in [plist : BOOLEAN, enabled : BOOLEAN, loaded : BOOLEAN,
              process : {"none", "serving", "finishing"}]
  /\ guestTree \in [software : {"none", "part", "whole"}, template : BOOLEAN, keeps : BOOLEAN]
  /\ poolCall \in [verb : UNIT_VERBS \cup {"none"}, answered : BOOLEAN]
  /\ poolSteps \in Seq(STRING) /\ upkeep \in {"none", "absent", "off", "on"}
  /\ poolCalls \in 0 .. MaxPoolCalls /\ poolCuts \in 0 .. MaxPoolCuts

PoolInit ==
  /\ power = "absent" /\ instance = NoRecord /\ overlay = FALSE
  /\ job = NoGuestJob /\ guestTree = NothingStored
  /\ poolCall = [verb |-> "none", answered |-> FALSE] /\ poolSteps = <<>> /\ upkeep = "none"
  /\ poolCalls = 0 /\ poolCuts = 0

-----------------------------------------------------------------------------
(* The calls, as the steps they take.                                      *)

\* A guest that is powered off is not asked, and not woken, to stop.
OnlyIfOn(todo) == IF power = "off" THEN <<"nothing">> ELSE todo

\* Mutant: the record says that the job may start after it was started.
StartsFirst == <<"boot", "enable", "load", "kick", "may_start">>

\* "A crash must never leave a false disabled proof."
Starts == <<"boot", "may_start", "enable", "load", "kick">>

PrepareSteps == <<"allocate", "overlay", "container">>

\* What a first creation does with the guest, and what a later one does.
FreshCreation ==
  <<"boot", "disable_record", "not_loaded", "storage", "copy", "template", "plist",
    "disable", "native", "may_start", "enable", "load", "kick", "initialized">>
ResumedCreation == <<"boot", "verify", "may_start", "enable", "load", "kick", "initialized">>
LaterCreation ==
  <<"boot", "unless_serving", "may_start", "storage", "copy", "template", "plist",
    "enable", "load", "kick", "initialized">>

CreateSteps ==
  PrepareSteps \o (IF instance.initialized THEN LaterCreation
                   ELSE IF instance.native THEN ResumedCreation ELSE FreshCreation)

StopSteps == <<"boot", "disable", "bootout", "disable_record", "shutdown">>
DrainSteps == <<"boot", "policy", "disable", "signal", "disable_record">>

\* A listener that runs is not taken down by a removal.
FinishSteps == <<"not_serving", "disable", "bootout", "disable_record">>

RebuildSteps ==
  (IF power = "on" THEN FinishSteps ELSE <<>>)
  \o (IF instance.retained
      THEN IF power = "on" THEN <<"shutdown">> ELSE <<>>
      ELSE <<"upkeep_boot", "disable", "bootout", "rm_plist", "rmtree", "forget", "shutdown",
             "retain">>)
  \o <<"rm">>

RemoveSteps ==
  (IF power = "on" THEN FinishSteps \o <<"shutdown">> ELSE <<>>) \o <<"rm", "rm_all">>

UpkeepSteps == <<"upkeep_boot", "work", "shutdown_if_it_was_off">>

TodoFor(verb) ==
  CASE verb = "create" -> CreateSteps
    [] verb \in {"start", "cancel_drain"} -> Starts
    [] verb = "stop" -> OnlyIfOn(StopSteps)
    [] verb = "drain" -> OnlyIfOn(DrainSteps)
    [] verb = "rebuild" -> IF instance.known THEN RebuildSteps ELSE <<"nothing">>
    [] verb = "remove" -> IF instance.known THEN RemoveSteps ELSE <<"nothing">>
    [] verb \in UPKEEP -> UpkeepSteps

\* A drain is taken back once the process has exited, a unit that a drain was
\* cut off from is started rather than created, and none is created over a tree
\* a removal left half of; a first creation cut off before the job is disabled
\* is completed or removed: README, "Other disagreements".
MayCall(verb) ==
  /\ verb \in {"start", "cancel_drain", "create"} => job.process # "finishing"
  /\ verb = "create" => /\ ~(job.process = "serving" /\ ~job.enabled)
                        /\ ~(guestTree.template /\ guestTree.software # "whole")
  /\ ~instance.native /\ instance.disabled /\ job.plist /\ job.enabled
     => verb \in {"create", "remove"}
  /\ verb \notin {"create", "rebuild", "remove"} => instance.known
  /\ verb = "clear_cache" => job.process = "none"

BeginPoolCall(verb) ==
  /\ poolSteps = <<>> /\ MayCall(verb)
  /\ poolCalls < MaxPoolCalls /\ poolCalls' = poolCalls + 1
  /\ poolSteps' = TodoFor(verb)
  /\ upkeep' = IF verb \in UPKEEP THEN power ELSE "none"
  /\ poolCall' = IF verb \in UPKEEP THEN poolCall ELSE [verb |-> verb, answered |-> FALSE]
  /\ UNCHANGED <<poolCuts, instance, theHost, theGuest>>

\* The agent dies, or a command it waits for fails.
PoolCallCut ==
  /\ poolSteps # <<>> /\ poolCuts < MaxPoolCuts /\ poolCuts' = poolCuts + 1
  /\ poolSteps' = <<>>
  /\ UNCHANGED <<poolCalls, poolCall, upkeep, instance, theHost, theGuest>>

\* The step is done; one that is not possible ends the call unanswered.
StepDone(step, possible) ==
  /\ poolSteps # <<>> /\ Head(poolSteps) = step
  /\ poolSteps' = IF possible THEN Tail(poolSteps) ELSE <<>>
  /\ poolCall' = IF upkeep = "none"
                 THEN [poolCall EXCEPT !.answered = possible /\ Tail(poolSteps) = <<>>]
                 ELSE poolCall
  /\ UNCHANGED <<upkeep, poolCalls, poolCuts>>

\* A step on the record, and one in the guest, which must be on.
OnRecord(step) == StepDone(step, TRUE) /\ UNCHANGED <<theHost, theGuest>>

InGuest(step, possible) ==
  /\ StepDone(step, power = "on" /\ possible)
  /\ UNCHANGED <<theHost, instance>>

-----------------------------------------------------------------------------
(* The record, the disk and the machine.                                   *)

Allocate ==
  /\ StepDone("allocate", instance.retained => power = "absent")
  /\ instance' = IF ~instance.known THEN [NoRecord EXCEPT !.known = TRUE, !.disabled = TRUE]
               ELSE IF power = "absent" THEN [instance EXCEPT !.retained = FALSE] ELSE instance
  /\ UNCHANGED <<theHost, theGuest>>

\* "existing appliance lost its owned disk; refusing to replace data"
MayMakeDisk == power = "absent" /\ ~instance.initialized /\ ~instance.native

MakeOverlay ==
  /\ StepDone("overlay", overlay \/ MayMakeDisk)
  /\ overlay' = (overlay \/ MayMakeDisk)
  /\ UNCHANGED <<power, instance, theGuest>>

MakeContainer ==
  /\ StepDone("container", TRUE)
  /\ power' = IF power = "absent" THEN "off" ELSE power
  /\ UNCHANGED <<overlay, instance, theGuest>>

\* What launchd may load runs with the guest.
Booted == [job EXCEPT !.loaded = job.plist /\ job.enabled,
                      !.process = IF job.plist /\ job.enabled THEN "serving" ELSE "none"]

PowerUp(step, possible) ==
  /\ StepDone(step, possible)
  /\ IF possible THEN power' = "on" /\ job' = IF power = "off" THEN Booted ELSE job
                 ELSE UNCHANGED <<power, job>>
  /\ UNCHANGED <<overlay, instance, guestTree>>

Boot == PowerUp("boot", power # "absent")

\* Mutant: upkeep boots any guest.
AnyUpkeep == power # "absent"

\* A guest is not booted for upkeep when its listener might start, and one
\* that is on is left alone while it runs.
MayUpkeep ==
  \/ power = "off" /\ instance.disabled
  \/ power = "on" /\ (instance.initialized \/ instance.native => job.process = "none")

BootForUpkeep == PowerUp("upkeep_boot", MayUpkeep)

Shutdown(step, due) ==
  LET possible == power = "off" \/ ~due
                  \/ (power = "on" /\ (instance.initialized \/ instance.native => job.process = "none"))
  IN /\ StepDone(step, possible)
     /\ IF possible /\ due /\ power = "on"
        THEN power' = "off" /\ job' = [job EXCEPT !.loaded = FALSE, !.process = "none"]
        ELSE UNCHANGED <<power, job>>
     /\ UNCHANGED <<overlay, instance, guestTree>>

RemoveContainer ==
  /\ StepDone("rm", power # "on") /\ power' = IF power = "on" THEN "on" ELSE "absent"
  /\ UNCHANGED <<overlay, instance, theGuest>>

\* The record goes with the directory, in the end: README.
RemoveDirectory ==
  /\ StepDone("rm_all", TRUE)
  /\ overlay' = FALSE /\ job' = NoGuestJob /\ guestTree' = NothingStored /\ instance' = NoRecord
  /\ UNCHANGED power

RemoveSomeOfIt ==
  /\ StepDone("rm_all", FALSE)
  /\ overlay' = FALSE /\ job' = NoGuestJob /\ guestTree' = NothingStored
  /\ UNCHANGED <<power, instance>>

DisableRecord == OnRecord("disable_record") /\ instance' = [instance EXCEPT !.disabled = TRUE]
MayStart == OnRecord("may_start") /\ instance' = [instance EXCEPT !.disabled = FALSE]
Initialized == OnRecord("initialized") /\ instance' = [instance EXCEPT !.initialized = TRUE]
Forget ==
  /\ OnRecord("forget")
  /\ instance' = [instance EXCEPT !.initialized = FALSE, !.native = FALSE, !.disabled = TRUE]
Retain == OnRecord("retain") /\ instance' = [instance EXCEPT !.retained = TRUE]

RecordStep ==
  \/ Allocate \/ MakeOverlay \/ MakeContainer \/ Boot \/ BootForUpkeep
  \/ Shutdown("shutdown", TRUE) \/ Shutdown("shutdown_if_it_was_off", upkeep = "off")
  \/ RemoveContainer \/ RemoveDirectory \/ RemoveSomeOfIt
  \/ DisableRecord \/ MayStart \/ Initialized \/ Forget \/ Retain

-----------------------------------------------------------------------------
(* In the guest.                                                           *)

Check(step, possible) == InGuest(step, possible) /\ UNCHANGED theGuest

\* "A retry must not rewrite a busy unit": it is answered as created.
UnlessServing ==
  /\ power = "on" /\ poolSteps # <<>> /\ Head(poolSteps) = "unless_serving"
  /\ IF job.process = "none"
     THEN poolSteps' = Tail(poolSteps) /\ UNCHANGED poolCall
     ELSE poolSteps' = <<>> /\ poolCall' = [poolCall EXCEPT !.answered = TRUE]
  /\ UNCHANGED <<upkeep, poolCalls, poolCuts, instance, theHost, theGuest>>

Launchd(step, possible, after) ==
  /\ InGuest(step, possible)
  /\ job' = IF power = "on" /\ possible THEN after ELSE job
  /\ UNCHANGED guestTree

Stores(step, after) ==
  /\ InGuest(step, TRUE) /\ guestTree' = IF power = "on" THEN after ELSE guestTree
  /\ UNCHANGED job

MayLoad == job.loaded \/ (job.plist /\ job.enabled)

InstallNative ==
  /\ StepDone("native", power = "on")
  /\ instance' = IF power = "on" THEN [instance EXCEPT !.native = TRUE] ELSE instance
  /\ UNCHANGED <<theHost, theGuest>>

RemoveGuestTree ==
  \/ /\ Stores("rmtree", [NothingStored EXCEPT !.keeps = guestTree.keeps])
  \/ /\ InGuest("rmtree", FALSE) /\ power = "on" /\ guestTree.software # "none"
     /\ guestTree' \in {[guestTree EXCEPT !.software = "part", !.template = t] :
                     t \in {guestTree.template, FALSE}}
     /\ UNCHANGED job

GuestStep ==
  \/ Check("not_loaded", ~job.loaded) \/ Check("not_serving", job.process = "none")
  \/ Check("policy", job.plist) \/ Check("verify", guestTree.software = "whole")
  \/ Check("work", TRUE) \/ UnlessServing \/ InstallNative
  \/ Stores("storage", [guestTree EXCEPT !.keeps = TRUE,
                          !.software = IF @ = "none" THEN "part" ELSE @])
  \/ Stores("copy", [guestTree EXCEPT !.software = IF guestTree.template THEN @ ELSE "whole"])
  \/ Stores("template", [guestTree EXCEPT !.template = TRUE])
  \/ Launchd("plist", TRUE, [job EXCEPT !.plist = TRUE])
  \/ Launchd("enable", TRUE, [job EXCEPT !.enabled = TRUE])
  \/ Launchd("load", MayLoad, [job EXCEPT !.loaded = TRUE,
                                 !.process = IF job.loaded THEN @ ELSE "serving"])
  \/ Launchd("kick", job.loaded, [job EXCEPT !.process = IF @ = "none" THEN "serving" ELSE @])
  \/ Launchd("disable", TRUE, [job EXCEPT !.enabled = FALSE])
  \/ Launchd("bootout", TRUE, [job EXCEPT !.loaded = FALSE, !.process = "none"])
  \/ Launchd("signal", TRUE, [job EXCEPT !.process = IF @ = "serving" THEN "finishing" ELSE @])
  \/ Launchd("rm_plist", TRUE, [job EXCEPT !.plist = FALSE])
  \/ RemoveGuestTree

\* What an answer needs nothing done for.
Nothing == OnRecord("nothing") /\ UNCHANGED instance

PoolStep ==
  \/ \E verb \in UNIT_VERBS \cup UPKEEP : BeginPoolCall(verb)
  \/ PoolCallCut \/ RecordStep \/ GuestStep \/ Nothing

-----------------------------------------------------------------------------
(* The guest and its host.                                                 *)

OfItself == UNCHANGED <<instance, overlay, guestTree, poolCall, upkeep, poolCalls, poolCuts>>

\* A process that exits cleanly, as one that was told to does, stays down.
GuestJobExits ==
  /\ job.process # "none" /\ job' = [job EXCEPT !.process = "none"]
  /\ UNCHANGED <<power, poolSteps>> /\ OfItself

\* The command that is under way in a guest that reboots fails.
GuestRestarts ==
  /\ power = "on" /\ job' = Booted /\ poolSteps' = <<>> /\ UNCHANGED power /\ OfItself

\* With its host, and the agent on it, or alone: the container is not restarted,
\* and what is left of a call fails (but for one case: README, "Other
\* disagreements").
GuestGoesDown ==
  /\ power = "on" /\ power' = "off" /\ poolSteps' = <<>>
  /\ job' = [job EXCEPT !.loaded = FALSE, !.process = "none"]
  /\ OfItself

PoolNext == PoolStep \/ GuestJobExits \/ GuestRestarts \/ GuestGoesDown
PoolSpec == PoolInit /\ [][PoolNext]_poolVars

-----------------------------------------------------------------------------

\* No listener runs in a guest the agent has booted, or found, for upkeep: it
\* might take a job whose files are being cleared, or in whose middle the
\* guest is powered off.  "Never stop a job merely to perform a supposedly
\* stopped cache clear."  One that never was created is not looked at.
UpkeepIsQuiet ==
  /\ poolSteps # <<>> /\ Head(poolSteps) = "work"
  /\ instance.initialized \/ instance.native
  => job.process = "none"

PoolContract == INSTANCE UnitContract WITH
  unit <- IF job.process # "none" THEN "up"
          ELSE IF job.plist /\ power # "absent" THEN "down" ELSE "absent",
  back <- power = "on" /\ job.plist /\ job.enabled,
  asked <- job.process = "finishing",
  tree <- IF guestTree.software = "whole" /\ ~guestTree.template THEN "part" ELSE guestTree.software,
  cache <- guestTree.keeps,
  call <- poolCall.verb, answered <- poolCall.answered

\* A guest that may be off, and has to be booted to be asked anything, keeps
\* the promises of a unit, whatever fails on the way: the boot a removal or an
\* upkeep needs does not bring a runner back that was drained or stopped.
PoolGuestIsAUnit == PoolContract!ContractSpec
=============================================================================
