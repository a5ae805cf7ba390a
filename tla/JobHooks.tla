------------------------------ MODULE JobHooks ------------------------------
(***************************************************************************)
(* What a GitHub runner does around each of its jobs: the hook that runs   *)
(* before the first step and the one that runs after the last, in a Linux  *)
(* unit (images/linux/unit/runner: job_started.py, runner_guard.py,        *)
(* cleanup.py) and in a Windows service (agent/hooks/windows:              *)
(* runner_disk.py and the same runner_guard.py).                           *)
(*                                                                         *)
(* The first hook asks whose code the job runs and ends the job if that is *)
(* somebody else's; puts back what an earlier job took from the unit       *)
(* (Linux); and makes room for the job, or refuses it.  A fault of the     *)
(* hook is never held against the job.  A Linux hook runs for so long at   *)
(* most, and what it started to clean with may outlive it; a Windows one   *)
(* cleans by itself and runs for as long as it takes.                      *)
(*                                                                         *)
(* The forge's own Listener and Worker are external: the Listener starts a *)
(* Worker for a job, which empties _temp, writes the event and runs hooks  *)
(* and steps.  A job that its forge cancels in its hook is left out.       *)
(***************************************************************************)
EXTENDS Naturals, Sequences

CONSTANTS
  Repos,         \* the repositories whose jobs the runner takes
  MaxHookFaults  \* bound: events, records, figures and processes that fail

VARIABLES
  hookKind,   \* the platform: "linux" or "windows"
  hookAt,     \* where the job of the runner is
  serving,        \* the job, and how its hook fared
  answer,     \* history: what the hook said to it
  workspaces, \* the repositories with a workspace on disk
  temp,       \* what is in _temp
  containers,       \* containers outlive their job in the engine of the unit
  shared,     \* what a job may take from the jobs that follow
  free, lastFree, \* how much of the disk is free, and was when last measured
  sweeps,     \* the cleaning a hook waits for, and one that outlived its hook
  byHand,     \* history: the guard was run by something else, and what came of it
  hookFaults

hookVars == <<hookKind, hookAt, serving, answer, workspaces, temp, containers, shared,
              free, lastFree, sweeps, byHand, hookFaults>>
theUnit == <<hookKind, workspaces, temp, containers, shared, free, sweeps>>

ASSUME HooksAssumption == Repos # {} /\ MaxHookFaults \in Nat

\* Free space: 0 is too little for a job, 1 little enough to clean up for.
Space == 0 .. 2
HOOK == {"origin", "ending", "tree", "php", "measure", "cleaning", "remeasure"}
JOB_STEPS == {"ready", "steps", "last steps"}

NoSweep == [on |-> FALSE, doomed |-> {}]
Sweeps == [on : BOOLEAN, doomed : SUBSET Repos]

\* A payload: whether it has a pull request, what it says of its head
\* repository and of who owns that and the repository it is for.
Payloads == [pull : BOOLEAN, head : {"unsaid", "deleted", "repository"},
             owner : {"org", "trusted", "other", "unsaid"}, base : {"org", "unsaid"}]
NoPull == [pull |-> FALSE, head |-> "unsaid", owner |-> "unsaid", base |-> "unsaid"]
Pull(head, owner, base) == [pull |-> TRUE, head |-> head, owner |-> owner, base |-> base]

\* outside: history, whether its code is from outside; its event is kept only
\* for as long as the guard may read it.
\* upon: it came while the cleaning of an earlier hook was still going on.
\* clears: all that its own cleaning set out to remove is removed.
Jobs == [repo : Repos, event : Payloads, readable : BOOLEAN, outside : BOOLEAN,
         upon : BOOLEAN, clears : BOOLEAN, fault : BOOLEAN]

NoJob == [repo |-> CHOOSE r \in Repos : TRUE, event |-> NoPull, readable |-> TRUE,
          outside |-> FALSE, upon |-> FALSE, clears |-> TRUE, fault |-> FALSE]

HooksTypeOK ==
  /\ hookKind \in {"linux", "windows"}
  /\ hookAt \in {"none", "starting", "completing", "gone"} \cup HOOK \cup JOB_STEPS
  /\ serving \in Jobs
  /\ answer \in {"none", "outside", "full"}
  /\ workspaces \subseteq Repos /\ temp \subseteq {"event", "commands", "rest"}
  /\ containers \in BOOLEAN
  /\ shared \in [{"tree", "php"} -> {"whole", "taken", "replaced"}]
  /\ free \in Space /\ lastFree \in Space
  /\ sweeps \in [{"hook", "outlived"} -> Sweeps]
  /\ byHand \in {"never", "spared", "wronged"}
  /\ hookFaults \in 0 .. MaxHookFaults

HooksInit ==
  /\ hookKind \in {"linux", "windows"} /\ hookAt = "none"
  /\ serving = NoJob
  /\ answer = "none"
  /\ workspaces = {} /\ temp = {} /\ containers = FALSE
  /\ shared = [what \in {"tree", "php"} |-> "whole"]
  /\ free = 2 /\ lastFree = 2
  /\ sweeps = [which \in {"hook", "outlived"} |-> NoSweep]
  /\ byHand = "never" /\ hookFaults = 0

HookFault == hookFaults < MaxHookFaults /\ hookFaults' = hookFaults + 1

-----------------------------------------------------------------------------
(* Whose code it is.                                                       *)

\* Where the code of a pull request comes from.
Origin(event) ==
  IF ~event.pull THEN "none"
  ELSE IF event.head = "deleted" THEN "deleted"
  ELSE IF event.head = "unsaid" \/ event.owner = "unsaid" THEN "unknown"
  ELSE "head"

\* Mutant: an owner is compared with a base owner that nobody named.
DecideUnnamed(event) ==
  IF Origin(event) \in {"none", "unknown"} THEN "allowed"
  ELSE IF Origin(event) = "head" /\ event.owner \in {event.base, "trusted"} THEN "allowed"
  ELSE "refused"

\* "Closed only on a positive answer."
DecideOrigin(event) ==
  CASE Origin(event) = "none" -> "allowed"
    [] Origin(event) = "unknown" -> "unread"
    [] Origin(event) = "deleted" -> "refused"
    [] Origin(event) = "head" ->
         IF event.owner = event.base \/ event.owner = "trusted" THEN "allowed"
         ELSE IF event.base = "unsaid" THEN "unread" ELSE "refused"

\* A process above the hook: what runs in it, whether it is what started the
\* one below it (and not a later one with the same number), and whether it is
\* the Worker of this job.
Process(name) == [name |-> name, older |-> TRUE, own |-> TRUE]

\* How the runner starts the hook, seen from the guard upwards; and how a step
\* that tries the hook by hand does, or a process that outlived its job and
\* whose parent's number has gone to another's Worker.
OwnChain(kind) ==
  IF kind = "linux"
  THEN <<Process("timeout"), Process("hook"), Process("worker"), Process("listener")>>
  ELSE <<Process("python"), Process("node"), Process("worker"), Process("listener")>>
ByHand(kind) ==
  IF kind = "linux"
  THEN {<<Process("timeout"), Process("hook"), Process("shell"), Process("worker")>>,
        <<Process("shell"), Process("worker"), Process("listener")>>}
  ELSE {<<Process("python"), Process("node"), Process("shell"), Process("worker")>>,
        <<Process("python"), Process("node"),
          [name |-> "worker", older |-> FALSE, own |-> FALSE]>>,
        <<Process("listener")>>}

\* Linux hands the child of a dead process to the first one, which ends the walk.
LinuxAncestors(chain) == chain

\* Mutant: whatever has the number of the parent is the parent.
AnyAncestors(chain) == chain

\* "A parent created after its child is not one, and ends the walk."
WindowsAncestors(chain) ==
  LET real == {n \in 0 .. Len(chain) : \A i \in 1 .. n : chain[i].older}
  IN SubSeq(chain, 1, CHOOSE n \in real : \A m \in real : m <= n)

Ancestors(kind, chain) ==
  IF kind = "linux" THEN LinuxAncestors(chain) ELSE WindowsAncestors(chain)

HELPERS == {"python", "timeout"}

\* Mutant: the nearest Worker above, whoever started the hook.
NearestWorker(kind, chain) == {i \in 1 .. Len(chain) : chain[i].name = "worker"}

\* At most three helpers, then the hook, and directly above it the Worker.
FindWorker(kind, chain) ==
  {i \in 1 .. Len(chain) :
     /\ chain[i].name = "worker" /\ i > 1
     /\ chain[i - 1].name = IF kind = "linux" THEN "hook" ELSE "node"
     /\ i - 2 <= 3
     /\ \A j \in 1 .. i - 2 : chain[j].name \in HELPERS}

\* The Worker of the job is killed, or the one that was taken for it.
Kills(p) ==
  /\ hookAt' = IF p.own THEN "gone" ELSE hookAt
  /\ byHand' = IF p.own /\ p.name = "worker" THEN byHand ELSE "wronged"

\* What comes after the question of origin.
AfterOrigin == IF hookKind = "linux" THEN "tree" ELSE "measure"

-----------------------------------------------------------------------------
(* The hook before a job.                                                  *)

\* The rule of the guard, as its documentation has it: the head repository is
\* known and of somebody else than the owner of the base and those trusted, or
\* it is gone.
Outside(event) ==
  /\ event.pull
  /\ \/ event.head = "deleted"
     \/ /\ event.head = "repository" /\ event.base # "unsaid"
        /\ event.owner \notin {"unsaid", event.base, "trusted"}

\* The Listener starts a Worker for a job, which prepares _temp and the
\* directory of its workspace.  On Windows the workspace may not be found
\* under the work directory, and then none is cleared.
JobArrives(repo, event, readable, placed) ==
  /\ hookAt = "none" /\ hookAt' = "origin"
  /\ placed \/ hookKind = "windows"
  /\ serving' = [repo |-> repo, event |-> event, readable |-> readable,
                 outside |-> Outside(event), upon |-> sweeps["outlived"].on,
                 clears |-> placed, fault |-> FALSE]
  /\ workspaces' = workspaces \cup {repo}
  /\ temp' = {"event", "commands"}
  /\ UNCHANGED <<hookKind, answer, containers, shared, free, lastFree, sweeps,
                 byHand, hookFaults>>

CheckOrigin ==
  /\ hookAt = "origin" /\ serving.readable
  /\ IF DecideOrigin(serving.event) = "refused"
     THEN hookAt' = "ending" /\ answer' = "outside"
     ELSE hookAt' = AfterOrigin /\ answer' = answer
  /\ serving' = [serving EXCEPT !.event = NoPull]
  /\ UNCHANGED <<theUnit, lastFree, byHand, hookFaults>>

\* The event cannot be read, the guard fails or cannot be loaded: the job runs.
OriginUnknown ==
  /\ hookAt = "origin" /\ hookAt' = AfterOrigin
  /\ \/ ~serving.readable /\ UNCHANGED hookFaults
        /\ serving' = [serving EXCEPT !.event = NoPull]
     \/ HookFault /\ serving' = [serving EXCEPT !.event = NoPull, !.fault = TRUE]
  /\ UNCHANGED <<theUnit, answer, lastFree, byHand>>

\* The Worker is killed, once what was said had time to reach the forge.
EndTheJob ==
  /\ hookAt = "ending"
  /\ \E i \in FindWorker(hookKind, Ancestors(hookKind, OwnChain(hookKind))) :
       Kills(OwnChain(hookKind)[i])
  /\ UNCHANGED <<theUnit, serving, answer, lastFree, hookFaults>>

\* It is not found or cannot be killed: the hook fails all the same, and of
\* the steps only those run that always do.
JobNotEnded ==
  /\ hookAt = "ending" /\ HookFault
  /\ hookAt' = "last steps" /\ serving' = [serving EXCEPT !.fault = TRUE]
  /\ UNCHANGED <<theUnit, answer, lastFree, byHand>>

\* What is missing is put back; what stands in its place is left alone.
PutBack(what, next) ==
  /\ hookAt = what /\ hookAt' = next
  /\ \/ /\ shared' = [shared EXCEPT ![what] = IF @ = "taken" THEN "whole" ELSE @]
        /\ UNCHANGED <<serving, hookFaults>>
     \/ HookFault /\ serving' = [serving EXCEPT !.fault = TRUE] /\ shared' = shared
  /\ UNCHANGED <<hookKind, answer, workspaces, temp, containers, free,
                 lastFree, sweeps, byHand>>

RestoreTree == PutBack("tree", "php")
RestorePhp == PutBack("php", "measure")

-----------------------------------------------------------------------------
(* Room for a job.                                                         *)

SetsAside(which, doomed) ==
  sweeps' = [sweeps EXCEPT ![which] = [on |-> TRUE, doomed |-> doomed]]

\* Mutant: the cleaning does not know which workspace is the job's.
EveryWorkspace(repo) == workspaces

\* Every workspace but the job's.
EarlierThan(repo) == workspaces \ {repo}

\* What the cleaning before a job may remove: nothing of a Linux unit whose
\* engine still runs containers, nothing of a Windows one that cannot tell
\* which workspace is the job's.
MayClear == IF hookKind = "linux" THEN ~containers ELSE serving.clears

\* Below the floor the job is refused, and of its steps only those run that
\* always do.
AdmitJob(figure) ==
  /\ lastFree' = figure
  /\ IF figure = 0 THEN hookAt' = "last steps" /\ answer' = "full"
     ELSE hookAt' = "ready" /\ answer' = answer

\* A disk that cannot be measured lets the job run.
Measure ==
  /\ hookAt = "measure"
  /\ \/ /\ free < 2 /\ lastFree' = free /\ hookAt' = "cleaning" /\ answer' = answer
        /\ serving' = [serving EXCEPT !.clears = MayClear]
        /\ SetsAside("hook", IF MayClear THEN EarlierThan(serving.repo) ELSE {})
        /\ UNCHANGED hookFaults
     \/ free = 2 /\ AdmitJob(free) /\ UNCHANGED <<serving, sweeps, hookFaults>>
     \/ /\ HookFault /\ hookAt' = "ready" /\ serving' = [serving EXCEPT !.fault = TRUE]
        /\ UNCHANGED <<answer, lastFree, sweeps>>
  /\ UNCHANGED <<hookKind, workspaces, temp, containers, shared, free, byHand>>

Listed(which, repo) == sweeps[which].on /\ repo \in sweeps[which].doomed

\* One workspace goes, with the room it took.
Removes(which, repo) ==
  /\ Listed(which, repo)
  /\ workspaces' = workspaces \ {repo}
  /\ sweeps' = [w \in DOMAIN sweeps |-> [sweeps[w] EXCEPT !.doomed = @ \ {repo}]]
  /\ free' \in {free, IF free < 2 THEN free + 1 ELSE free}
  /\ UNCHANGED <<hookKind, hookAt, serving, answer, temp, containers, shared,
                 lastFree, byHand, hookFaults>>

\* One stays: on Linux there is a link or a mount in it, or something younger
\* than the cleaning; on Windows it is in use.
PassesOver(which, repo) ==
  /\ Listed(which, repo)
  /\ sweeps' = [sweeps EXCEPT ![which].doomed = @ \ {repo}]
  /\ serving' = IF which = "hook" THEN [serving EXCEPT !.clears = FALSE] ELSE serving
  /\ UNCHANGED <<hookKind, hookAt, answer, workspaces, temp, containers,
                 shared, free, lastFree, byHand, hookFaults>>

\* The engine drops what it does not use, and the cleaning is over; or it
\* fails, or is stopped after its five minutes, wherever it is.
SweepEnds(which) ==
  /\ sweeps[which].on
  /\ sweeps' = [sweeps EXCEPT ![which] = NoSweep]
  /\ \/ /\ sweeps[which].doomed = {} /\ UNCHANGED hookFaults
        /\ free' \in {free, IF free < 2 /\ hookKind = "linux" THEN free + 1 ELSE free}
     \/ HookFault /\ free' = free

HookSweepEnds ==
  /\ hookAt = "cleaning" /\ SweepEnds("hook") /\ hookAt' = "remeasure"
  /\ serving' = [serving EXCEPT !.fault = @ \/ hookFaults' # hookFaults]
  /\ UNCHANGED <<hookKind, answer, workspaces, temp, containers, shared,
                 lastFree, byHand>>

OutlivedSweepEnds ==
  /\ SweepEnds("outlived")
  /\ UNCHANGED <<hookKind, hookAt, serving, answer, workspaces, temp,
                 containers, shared, lastFree, byHand>>

\* What is measured after the cleaning decides, or what was before it.
Remeasure ==
  /\ hookAt = "remeasure"
  /\ \/ AdmitJob(free) /\ UNCHANGED <<serving, hookFaults>>
     \/ AdmitJob(lastFree) /\ HookFault /\ serving' = [serving EXCEPT !.fault = TRUE]
  /\ UNCHANGED <<theUnit, byHand>>

\* The hook crashes or, on Linux, has run for ten minutes: the job runs.  A
\* Linux hook cleans with a process of its own, which is not in the group that
\* is stopped with the hook, and is over before another hook has run as long.
HookEndsEarly ==
  /\ hookAt \in HOOK \ {"ending"} /\ HookFault
  /\ hookAt' = "ready" /\ serving' = [serving EXCEPT !.fault = TRUE]
  /\ sweeps' = IF hookAt = "cleaning" /\ hookKind = "linux"
               THEN [hook |-> NoSweep, outlived |-> sweeps["hook"]]
               ELSE [sweeps EXCEPT !["hook"] = NoSweep]
  /\ hookAt = "cleaning" => ~sweeps["outlived"].on
  /\ UNCHANGED <<hookKind, answer, workspaces, temp, containers, shared, free,
                 lastFree, byHand>>

-----------------------------------------------------------------------------
(* The job, and the hook after it.                                         *)

\* A step writes: into the workspace of the job, which it makes again if it is
\* gone, into the disk, the engine, _temp, or into what the jobs share.
Work ==
  /\ hookAt \in JOB_STEPS /\ hookAt' = IF hookAt = "ready" THEN "steps" ELSE hookAt
  /\ workspaces' = IF hookAt = "last steps" THEN workspaces
                   ELSE workspaces \cup {serving.repo}
  /\ \/ UNCHANGED <<free, containers, temp, shared>>
     \/ free > 0 /\ free' = free - 1 /\ UNCHANGED <<containers, temp, shared>>
     \/ hookKind = "linux" /\ containers' = TRUE /\ UNCHANGED <<free, temp, shared>>
     \/ temp' = temp \cup {"rest"} /\ UNCHANGED <<free, containers, shared>>
     \/ \E what \in {"tree", "php"}, state \in {"taken", "replaced"} :
          /\ hookKind = "linux" /\ shared' = [shared EXCEPT ![what] = state]
          /\ UNCHANGED <<free, containers, temp>>
  /\ UNCHANGED <<hookKind, serving, answer, lastFree, sweeps, byHand,
                 hookFaults>>

\* A step, or what outlived its job, runs the hook without the runner: the
\* guard refuses what it is given, and looks for a Worker.
RunByHand(chain) ==
  /\ hookAt \in {"none", "steps"}
  /\ LET above == Ancestors(hookKind, chain)
         found == FindWorker(hookKind, above)
     IN IF found = {} THEN hookAt' = hookAt /\ byHand' = "spared"
        ELSE \E i \in found : Kills(above[i])
  /\ UNCHANGED <<theUnit, serving, answer, lastFree, hookFaults>>

ContainersEnd ==
  /\ containers /\ containers' = FALSE
  /\ UNCHANGED <<hookKind, hookAt, serving, answer, workspaces, temp, shared,
                 free, lastFree, sweeps, byHand, hookFaults>>

\* After the last step a Linux unit clears what earlier jobs left, with its own
\* cleaner, which ends with the hook.  It may be told to leave _temp, and
\* leaves what is young or holds links.
StepsEnd ==
  /\ hookAt \in {"steps", "last steps"} /\ hookKind = "linux"
  /\ hookAt' = "completing"
  /\ SetsAside("hook", IF containers THEN {} ELSE EarlierThan(serving.repo))
  /\ temp' \in IF containers THEN {temp} ELSE SUBSET temp
  /\ UNCHANGED <<hookKind, serving, answer, workspaces, containers, shared,
                 free, lastFree, byHand, hookFaults>>

\* Windows clears _temp, but for what the runner still reads.
ClearTemp ==
  /\ hookAt \in {"steps", "last steps"} /\ hookKind = "windows"
  /\ hookAt' = "completing"
  /\ temp' \in {stays \in SUBSET temp : "commands" \in temp => "commands" \in stays}
  /\ UNCHANGED <<hookKind, serving, answer, workspaces, containers, shared,
                 free, lastFree, sweeps, byHand, hookFaults>>

JobIsForgotten ==
  serving' = NoJob /\ answer' = "none" /\ lastFree' = 2 /\ byHand' = "never"

Completed ==
  /\ hookAt = "completing" /\ hookAt' = "none" /\ JobIsForgotten
  /\ IF hookKind = "linux" THEN SweepEnds("hook") ELSE UNCHANGED <<sweeps, free,
                                                                   hookFaults>>
  /\ UNCHANGED <<hookKind, workspaces, temp, containers, shared>>

\* The Listener takes the end of a Worker that was killed.
JobIsOver ==
  /\ hookAt = "gone" /\ hookAt' = "none" /\ JobIsForgotten
  /\ UNCHANGED <<theUnit, hookFaults>>

\* A unit that starts clears everything before its listener is there, unless
\* its engine started containers of its own.
LinuxUnitStarts ==
  /\ hookAt = "none" /\ hookKind = "linux" /\ hookAt' = "starting"
  /\ containers' \in {FALSE, containers}
  /\ sweeps' = [hook |-> [on |-> TRUE, doomed |-> IF containers' THEN {} ELSE workspaces],
                outlived |-> NoSweep]
  /\ temp' \in IF containers' THEN {temp} ELSE SUBSET temp
  /\ UNCHANGED <<hookKind, serving, answer, workspaces, shared, free, lastFree,
                 byHand, hookFaults>>

ListenerStarts ==
  /\ hookAt = "starting" /\ SweepEnds("hook") /\ hookAt' = "none"
  /\ UNCHANGED <<hookKind, serving, answer, workspaces, temp, containers,
                 shared, lastFree, byHand>>

SampleEvents ==
  {NoPull, Pull("unsaid", "unsaid", "org"), Pull("deleted", "unsaid", "org"),
   Pull("repository", "unsaid", "org"), Pull("repository", "other", "unsaid")}
  \cup {Pull("repository", owner, "org") : owner \in {"org", "trusted", "other"}}

HooksNext ==
  \/ \E repo \in Repos, event \in SampleEvents, placed \in BOOLEAN :
       JobArrives(repo, event, TRUE, placed)
  \/ \E repo \in Repos : JobArrives(repo, Pull("repository", "other", "org"), FALSE, TRUE)
  \/ CheckOrigin \/ OriginUnknown \/ EndTheJob \/ JobNotEnded
  \/ RestoreTree \/ RestorePhp \/ Measure
  \/ \E repo \in Repos, which \in {"hook", "outlived"} :
       Removes(which, repo) \/ PassesOver(which, repo)
  \/ HookSweepEnds \/ OutlivedSweepEnds \/ Remeasure \/ HookEndsEarly
  \/ Work \/ ContainersEnd \/ StepsEnd \/ ClearTemp \/ Completed \/ JobIsOver
  \/ \E chain \in ByHand(hookKind) : RunByHand(chain)
  \/ LinuxUnitStarts \/ ListenerStarts

HooksSpec == HooksInit /\ [][HooksNext]_hookVars

-----------------------------------------------------------------------------

\* What a job is given is there for as long as it is needed: its event and the
\* files of its commands until its last step; its workspace until the hook after
\* it is done, unless it came upon the cleaning of an earlier hook.
JobKeepsItsFiles ==
  /\ hookAt \in HOOK \cup JOB_STEPS => {"event", "commands"} \subseteq temp
  /\ hookAt = "completing" /\ hookKind = "windows" => "commands" \in temp
  /\ hookAt \in HOOK \cup JOB_STEPS \cup {"completing"} /\ ~serving.upon =>
       serving.repo \in workspaces

\* No cleaning has the workspace of the job on its list but that of a hook
\* before the last one, which a Linux unit may have outlive it.
OnlyItsOwnHookCleans ==
  hookAt \in HOOK \cup JOB_STEPS \cup {"completing"} =>
    /\ serving.repo \notin sweeps["hook"].doomed
    /\ serving.repo \in sweeps["outlived"].doomed => serving.upon /\ hookKind = "linux"

\* A job is ended if and only if its code comes from outside; no other process
\* is ever killed.  One that goes on with such code is one whose event could
\* not be read, or whose hook had a fault.
EndedForAReason ==
  /\ byHand # "wronged"
  /\ hookAt = "gone" => answer = "outside"
  /\ answer = "outside" => serving.outside
  /\ hookAt \in {"tree", "php", "measure", "cleaning", "remeasure", "ready", "steps"}
       /\ serving.outside => serving.fault \/ ~serving.readable

\* A job is refused for want of room only after all was removed that may be.
FullAfterCleaning ==
  answer = "full" /\ hookAt = "last steps" /\ ~serving.fault /\ serving.clears
    => workspaces \subseteq {serving.repo}

\* The first step finds what earlier jobs took put back.
TakenIsPutBack ==
  hookAt = "ready" /\ hookKind = "linux" /\ ~serving.fault
    => \A what \in {"tree", "php"} : shared[what] # "taken"

\* The hooks serve the job they run for: they leave it its files, put back what
\* others took, end it for no reason but the origin of its code and refuse it
\* for want of room only when cleaning did not help (job_started.py,
\* runner_disk.py, runner_guard.py, cleanup.py).
HooksServeTheJob ==
  /\ HooksTypeOK /\ JobKeepsItsFiles /\ OnlyItsOwnHookCleans /\ EndedForAReason
  /\ FullAfterCleaning /\ TakenIsPutBack
=============================================================================
