---------------------------- MODULE GuardReports ----------------------------
(***************************************************************************)
(* What the controller believes of the hooks of a GitHub runner            *)
(* (agent/origin_guard.py, agent/runtimes, agent/heartbeat.py,             *)
(* control/inventory.py, api_v2.py, control/federation_provision.py).      *)
(*                                                                         *)
(* A runner gets its hooks when it is made; the guard in them leaves a     *)
(* record in a directory that outlives the runner.  On every pass the      *)
(* agent reads the hooks and the record, one after the other, and dates    *)
(* its report; every beat carries the last report; the row keeps the last  *)
(* that came.  The dashboard counts a runner as proven, and a lease admits *)
(* it, by that report and its age.                                         *)
(*                                                                         *)
(* Time is counted in passes (five minutes), and kept as ages: Tick makes  *)
(* everything one pass older, and a pass may last longer than one.  A beat *)
(* takes no time next to it, and a beat that is lost is none.  One clock   *)
(* dates and judges.  Whether a runner is lent is decided when its row is  *)
(* made.                                                                   *)
(***************************************************************************)
EXTENDS Naturals

CONSTANTS
  GuardStale,      \* the age at which a report says nothing any more, in passes
  ProofFresh,      \* the age up to which it admits a runner to a lease
  MaxHookChanges   \* bound: hooks made, changed or lost, agents deployed

ASSUME GuardsAssumption ==
  GuardStale \in Nat /\ ProofFresh \in Nat /\ MaxHookChanges \in Nat

VARIABLES
  guardKind,  \* "linux", "native" (Windows, macOS) or "pool" (macOS guests)
  lent,       \* whether the runner serves a tenant of another platform
  guarded,    \* the unit: whether it runs, its hooks and those of its image
  lastRun,    \* what the last run of the guard left
  ownCopy,    \* the hooks the agent was deployed with
  guardPass,    \* the pass under way, and what it has read
  guards,     \* the last report of the agent
  keptReport,       \* the report in the row
  hookChanges

guardVars == <<guardKind, lent, guarded, lastRun, ownCopy, guardPass, guards,
               keptReport, hookChanges>>

\* The hooks from before the check, with its first version, with its second.
Made == {"before", "first", "second"}
Texts == Made \cup {"changed", "missing"}
GuardVersion(text) == CASE text = "first" -> 1 [] text = "second" -> 2 [] OTHER -> 0

TooOld == GuardStale + 1
ReportAges == 0 .. TooOld
Later(age) == IF age < TooOld THEN age + 1 ELSE age

\* Whether a run of the guard read its event.
RunRecords == [version : 1 .. 2, result : {"read", "unread"}]
           \cup {[version |-> 0, result |-> "none"]}
NoRun == [version |-> 0, result |-> "none"]

\* A report: the version the hooks carry, the last run, whether they are those
\* of a lent runner, and how long ago it is dated.  History: whether each thing
\* it says was true at some time of its pass, and how long ago that ended.
Reports == [version : 0 .. 2, last : {"none", "read", "unread"},
            lent : BOOLEAN, age : ReportAges, true : BOOLEAN, ended : ReportAges]
Silent == [version |-> 0, last |-> "none", lent |-> FALSE, age |-> TooOld,
           true |-> TRUE, ended |-> TooOld]

\* A pass: how far it is, what it read; history: the versions whose hooks were
\* whole, and those a record proved, at some time of it.
GuardPasses == [step : 0 .. 2, text : Texts, same : BOOLEAN, run : RunRecords,
             whole : SUBSET (1 .. 2), ran : SUBSET (1 .. 2)]
NoGuardPass == [step |-> 0, text |-> "missing", same |-> FALSE,
              run |-> NoRun, whole |-> {}, ran |-> {}]

GuardsTypeOK ==
  /\ guardKind \in {"linux", "native", "pool"} /\ lent \in BOOLEAN
  /\ guarded \in [up : BOOLEAN, text : Texts, image : Made]
  /\ lastRun \in RunRecords /\ ownCopy \in {"first", "second"}
  /\ guardPass \in GuardPasses
  /\ guards \in Reports /\ keptReport \in Reports
  /\ hookChanges \in 0 .. MaxHookChanges

HookChange == hookChanges < MaxHookChanges /\ hookChanges' = hookChanges + 1

\* A pass lives through what a unit and a record are.
LivedThrough(pass, u, rec) ==
  IF pass.step = 0 THEN pass
  ELSE [pass EXCEPT !.whole = @ \cup ({GuardVersion(u.text)} \ {0}),
                    !.ran = IF rec.result = "read" THEN @ \cup {rec.version} ELSE @]

\* A unit made by an image or an agent of any time.
GuardsInit ==
  /\ guardKind \in {"linux", "native", "pool"}
  /\ lent \in BOOLEAN /\ (lent => guardKind # "pool")
  /\ ownCopy \in {"first", "second"} /\ lastRun = NoRun
  /\ \E made \in Made : guarded = [up |-> FALSE, text |-> made, image |-> made]
  /\ guardPass = NoGuardPass
  /\ guards = Silent /\ keptReport = Silent
  /\ hookChanges = 0

-----------------------------------------------------------------------------
(* The unit.                                                               *)

GuardedBecomes(u, rec) ==
  /\ guarded' = u /\ lastRun' = rec /\ guardPass' = LivedThrough(guardPass, u, rec)
  /\ UNCHANGED <<guardKind, lent, guards, keptReport>>

\* A create, or a recreate: the hooks are those of the image, or of the agent.
\* The logs stay, or are gone with the data of the runner.
InstallHooks(made) ==
  /\ HookChange
  /\ guardKind # "linux" => made = ownCopy
  /\ \E rec \in {lastRun, NoRun} :
       GuardedBecomes([up |-> TRUE, text |-> made, image |-> made], rec)
  /\ UNCHANGED ownCopy

\* A job, or a hand, changes a file of the hooks, or removes it.
HooksChange(text) ==
  /\ HookChange /\ text \in {"changed", "missing"}
  /\ GuardedBecomes([guarded EXCEPT !.text = text], lastRun)
  /\ UNCHANGED ownCopy

StartsOrStops ==
  /\ GuardedBecomes([guarded EXCEPT !.up = ~@], lastRun)
  /\ UNCHANGED <<ownCopy, hookChanges>>

\* The guard runs before a job, and leaves its answer; or cannot write it.
LeaveRecord(result) ==
  /\ guarded.up /\ GuardVersion(guarded.text) > 0
  /\ GuardedBecomes(guarded, [version |-> GuardVersion(guarded.text),
                              result |-> result])
  /\ UNCHANGED <<ownCopy, hookChanges>>

\* An agent is deployed again, or starts again: it has forgotten its reports.
AgentDeployed(text) ==
  /\ HookChange
  /\ ownCopy' = text
  /\ guardPass' = NoGuardPass /\ guards' = Silent
  /\ UNCHANGED <<guardKind, lent, guarded, lastRun, keptReport>>

-----------------------------------------------------------------------------
(* The agent.                                                              *)

\* The report is dated when everything is read.
Dated(carries, last, asOwn) ==
  [version |-> carries, last |-> last, lent |-> asOwn /\ carries > 0,
   age |-> 0, ended |-> 0,
   true |-> /\ carries # 0 => carries \in guardPass.whole
            /\ carries # 0 /\ last = "read" => carries \in guardPass.ran
            /\ asOwn /\ carries > 0 => lent]

\* Hooks that were changed carry no version.
Carried(version, same) == IF same THEN version ELSE 0

\* Mutant: a record left by another version of the check counts.
AnyRecord(version, same, rec, asOwn) ==
  Dated(Carried(version, same), rec.result, asOwn)

\* A record left by another version of the check proves nothing about this one.
Report(version, same, rec, asOwn) ==
  Dated(Carried(version, same),
        IF rec.version = version THEN rec.result ELSE "none", asOwn)

Readable == guardKind \in {"linux", "pool"} => guarded.up

\* A pass begins with the label of the image of a Linux unit that runs ...
InspectUnit ==
  /\ guardKind = "linux" /\ guardPass.step = 0 /\ Readable
  /\ guardPass' = LivedThrough([NoGuardPass EXCEPT !.step = 1, !.text = guarded.image],
                             guarded, lastRun)

\* ... goes on with its files, each of which must be that of the image, and
\* gives up where one is missing ...
ImageGuardFiles ==
  /\ guardKind = "linux" /\ guardPass.step = 1
  /\ guardPass' = IF guarded.text = "missing" THEN NoGuardPass
                ELSE [guardPass EXCEPT !.step = 2,
                                     !.same = guarded.text = guardPass.text]

\* ... or, elsewhere, with the record.
ReadRecord ==
  /\ guardKind # "linux" /\ guardPass.step = 0 /\ Readable
  /\ guardPass' = LivedThrough([NoGuardPass EXCEPT !.step = 2, !.run = lastRun],
                             guarded, lastRun)

ReadMore ==
  /\ InspectUnit \/ ImageGuardFiles \/ ReadRecord
  /\ UNCHANGED <<guardKind, lent, guarded, lastRun, ownCopy, guards,
                 keptReport, hookChanges>>

\* The record of a Linux unit is read last, in the unit, and so is its lent
\* hook, which must be the agent's: that of an image need not be.
LinuxReport(asOwn) ==
  Report(GuardVersion(guardPass.text), guardPass.same,
         IF guarded.up THEN lastRun ELSE NoRun, lent /\ asOwn /\ guarded.up)

\* Everywhere else every file must be the agent's own.
MeasureTree ==
  Report(IF guarded.text = "missing" THEN 0 ELSE GuardVersion(ownCopy),
         guarded.text = ownCopy, guardPass.run, lent)

MeasureGuard ==
  /\ guardPass.step = 2
  /\ IF guardKind = "linux" THEN \E asOwn \in BOOLEAN : guards' = LinuxReport(asOwn)
     ELSE guards' = MeasureTree
  /\ guardPass' = NoGuardPass
  /\ UNCHANGED <<guardKind, lent, guarded, lastRun, ownCopy, keptReport,
                 hookChanges>>

\* A runner that cannot be read now has no new report.
GuardUnread ==
  /\ guardPass.step # 0 /\ guardPass' = NoGuardPass
  /\ UNCHANGED <<guardKind, lent, guarded, lastRun, ownCopy, guards,
                 keptReport, hookChanges>>

-----------------------------------------------------------------------------
(* The controller.                                                         *)

\* Mutant: a report is dated when it arrives.
MergeDated ==
  /\ guards # Silent /\ keptReport' = [guards EXCEPT !.age = 0]
  /\ UNCHANGED <<guardKind, lent, guarded, lastRun, ownCopy, guardPass, guards,
                 hookChanges>>

\* A beat carries the last report, if there is one, and the row keeps what came
\* last, with the time it has.
MergeGuard ==
  /\ guards # Silent /\ keptReport' = guards
  /\ UNCHANGED <<guardKind, lent, guarded, lastRun, ownCopy, guardPass, guards,
                 hookChanges>>

OlderReport(report) ==
  IF Later(report.age) = TooOld THEN Silent
  ELSE [report EXCEPT !.age = Later(@), !.ended = Later(@)]

\* The agent says its last report for as long as it has none newer; one too old
\* to count is as good as none.
GuardTick ==
  /\ guards' = OlderReport(guards) /\ keptReport' = OlderReport(keptReport)
  /\ UNCHANGED <<guardKind, lent, guarded, lastRun, ownCopy, guardPass,
                 hookChanges>>

\* How the dashboard counts the runner.
GuardState ==
  CASE keptReport.age > GuardStale -> "unknown"
    [] keptReport.age <= GuardStale /\ keptReport.version < 1 -> "missing"
    [] keptReport.age <= GuardStale /\ keptReport.version >= 1 ->
         IF keptReport.last = "none" THEN "unproven"
         ELSE IF keptReport.last = "read" THEN "proven" ELSE "unread"

\* Whether a lease takes the runner.
Admitted == keptReport.lent /\ keptReport.version >= 1 /\ keptReport.age <= ProofFresh

GuardsNext ==
  \/ \E made \in Made : InstallHooks(made)
  \/ \E text \in {"changed", "missing"} : HooksChange(text)
  \/ StartsOrStops
  \/ \E result \in {"read", "unread"} : LeaveRecord(result)
  \/ \E text \in {"first", "second"} : AgentDeployed(text)
  \/ ReadMore \/ MeasureGuard \/ GuardUnread
  \/ MergeGuard \/ GuardTick

GuardsSpec == GuardsInit /\ [][GuardsNext]_guardVars

-----------------------------------------------------------------------------

\* A runner that counts as proven had whole hooks of the version reported, and
\* a record of that version whose event was read, in a pass that ended no longer
\* ago than a report counts - not hooks that were changed, and not a record from
\* before they were made (origin_guard.py report, api_v2.py _guard_state).
ProvenIsTrue ==
  GuardState = "proven" => keptReport.true /\ keptReport.ended <= GuardStale

\* A runner that a lease takes is lent and had whole hooks in a pass that ended
\* no longer ago than a proof is fresh (federation_provision.py allocate).
LentIsTrue == Admitted => lent /\ keptReport.true /\ keptReport.ended <= ProofFresh

GuardReportsAreTrue == GuardsTypeOK /\ ProvenIsTrue /\ LentIsTrue
=============================================================================
