---------------------------- MODULE CacheReadings ----------------------------
(***************************************************************************)
(* What the storage and the cache of a runner are said to hold, and the    *)
(* clears that asks for (agent/heartbeat.py, agent/runtimes,               *)
(* control/inventory.py, control/reconciler.py, cards.py).                 *)
(*                                                                         *)
(* The agent walks the storage of a unit, then its cache, and dates what   *)
(* it found at the end of each walk.  Every beat carries the last findings *)
(* again until the next pass; the row keeps what came last.  On Windows    *)
(* and macOS a cache over its limit is cleared, at the word of a reading   *)
(* young enough, while its runner is idle.  A clear drops the reading it   *)
(* outdates; the next beat may bring it back.                              *)
(*                                                                         *)
(* One clock dates and judges.  The volumes a unit shares, the sampled     *)
(* usage of a beat and the turns of a fleet are left out; so is a crash in *)
(* a clear (RunnerLifecycle has it).                                       *)
(*                                                                         *)
(* What the same passes say of the hooks of the unit is GuardReports,      *)
(* which shares no state with this module; the last definition below       *)
(* speaks of both.                                                         *)
(***************************************************************************)
EXTENDS Naturals, FiniteSets, GuardReports

CONSTANTS
  BudgetFresh,   \* the age up to which a reading asks for a clear, in moments
  StorageFresh,  \* the age up to which a card shows it
  LastMoment     \* bound: the last moment of the clock

ASSUME ReadingsAssumption ==
  BudgetFresh \in Nat /\ StorageFresh \in Nat /\ LastMoment \in Nat \ {0}

VARIABLES
  meterKind,  \* "linux", "native" (Windows, a Mac) or "pool" (macOS guests)
  holds,      \* the unit: whether it is on, how full its cache is, the cap of that
  walk,       \* the pass under way, and when the last one ended
  depths,     \* what the agent found last
  meters,     \* what the row keeps
  shownCap,   \* the cap of the cache in the row
  clearing,   \* the clear that is asked for, or under way
  claims,     \* the readings that asked for a clear: their idempotency keys
  cleared,    \* history: how many clears a reading brought about
  moment

meterVars == <<meterKind, holds, walk, depths, meters, shownCap, clearing,
               claims, cleared, moment>>

Names == {"storage", "cache"}
Sizes == {"within", "over"}
Caps == {"none", "cap"}
Moments == 0 .. LastMoment

\* A finding and its date; history: the cap of the unit then, and the moment
\* the walk ended.
Findings == [size : Sizes, at : Moments \ {0}, cap : Caps, ended : Moments]
NoFinding == [size |-> "within", at |-> 0, cap |-> "none", ended |-> 0]
Found(finding) == finding.at # 0

MetersTypeOK ==
  /\ meterKind \in {"linux", "native", "pool"}
  /\ holds \in [on : BOOLEAN, cache : Sizes, cap : Caps]
  /\ walk \in [step : {"rest"} \cup Names, saw : SUBSET Sizes,
               storage : Findings \cup {NoFinding}, last : Moments]
  /\ depths \in [Names -> Findings \cup {NoFinding}]
  /\ meters \in [Names -> Findings \cup {NoFinding}]
  /\ shownCap \in Caps
  /\ clearing \in [open : BOOLEAN, by : Moments]
  /\ claims \subseteq Moments /\ cleared \in [Moments -> 0 .. 2]
  /\ moment \in Moments

NotClearing == [open |-> FALSE, by |-> 0]

MetersInit ==
  /\ meterKind \in {"linux", "native", "pool"}
  /\ holds = [on |-> TRUE, cache |-> "within", cap |-> "none"]
  /\ walk = [step |-> "rest", saw |-> {}, storage |-> NoFinding, last |-> 0]
  /\ depths = [name \in Names |-> NoFinding]
  /\ meters = [name \in Names |-> NoFinding]
  /\ shownCap = "none"
  /\ clearing = NotClearing /\ claims = {} /\ cleared = [date \in Moments |-> 0]
  /\ moment = 1

-----------------------------------------------------------------------------
(* The unit.                                                               *)

\* A walk may count the cache as it is at any time of the walk.
CacheBecomes(u) ==
  /\ holds' = u
  /\ walk' = IF walk.step = "cache" THEN [walk EXCEPT !.saw = @ \cup {u.cache}]
             ELSE walk

\* Jobs fill the cache, or tidy it.
Fills(size) ==
  /\ holds.on /\ holds.cache # size /\ CacheBecomes([holds EXCEPT !.cache = size])
  /\ UNCHANGED <<meterKind, depths, meters, shownCap, clearing, claims,
                 cleared, moment>>

Switches ==
  /\ CacheBecomes([holds EXCEPT !.on = ~@])
  /\ UNCHANGED <<meterKind, depths, meters, shownCap, clearing, claims,
                 cleared, moment>>

\* The unit is made again, with the cap of its row now, and keeps its cache.
Recreate(cap) ==
  /\ holds.cap # cap /\ CacheBecomes([holds EXCEPT !.cap = cap])
  /\ UNCHANGED <<meterKind, depths, meters, shownCap, clearing, claims,
                 cleared, moment>>

-----------------------------------------------------------------------------
(* The agent.                                                              *)

\* What cannot be asked of a unit that is off.
Answers(name) ==
  CASE meterKind = "linux" -> name = "cache" => holds.on
    [] meterKind = "native" -> TRUE
    [] meterKind = "pool" -> holds.on

\* A probe says what it counted, at its end, or nothing; how much the storage
\* holds decides nothing here.
Probe(name, counts) ==
  {NoFinding} \cup
  {[size |-> size, at |-> moment, ended |-> moment,
    cap |-> IF name = "cache" THEN holds.cap ELSE "none"] :
     size \in {seen \in counts : Answers(name)}}

\* A pass counts the storage, then the cache; two of them do not end at once.
BeginDepth ==
  /\ walk.step = "rest"
  /\ walk' = [walk EXCEPT !.step = "storage"]
  /\ UNCHANGED <<meterKind, holds, depths, meters, shownCap, clearing, claims,
                 cleared, moment>>

StorageProbed ==
  /\ walk.step = "storage"
  /\ \E found \in Probe("storage", {"within"}) :
       walk' = [walk EXCEPT !.step = "cache", !.saw = {holds.cache},
                            !.storage = found]
  /\ UNCHANGED <<meterKind, holds, depths, meters, shownCap, clearing, claims,
                 cleared, moment>>

\* What a pass found replaces all that the last one found.
MeasureDepth ==
  /\ walk.step = "cache" /\ walk.last < moment
  /\ \E found \in Probe("cache", walk.saw) :
       depths' = [storage |-> walk.storage, cache |-> found]
  /\ walk' = [step |-> "rest", saw |-> {}, storage |-> NoFinding, last |-> moment]
  /\ UNCHANGED <<meterKind, holds, meters, shownCap, clearing, claims, cleared,
                 moment>>

\* An agent that starts again has found nothing yet.
AgentStarts ==
  /\ walk' = [walk EXCEPT !.step = "rest", !.saw = {}, !.storage = NoFinding]
  /\ depths' = [name \in Names |-> NoFinding]
  /\ UNCHANGED <<meterKind, holds, meters, shownCap, clearing, claims, cleared,
                 moment>>

-----------------------------------------------------------------------------
(* The controller.                                                         *)

Kept(dated) ==
  /\ depths # [name \in Names |-> NoFinding]
  /\ meters' = [name \in Names |->
                  IF Found(depths[name]) THEN [depths[name] EXCEPT !.at = dated[name]]
                  ELSE meters[name]]
  /\ UNCHANGED <<meterKind, holds, walk, depths, clearing, claims, cleared,
                 moment>>

\* Mutant: a finding is dated when it arrives.
MergeArrived ==
  /\ Kept([name \in Names |-> moment])
  /\ shownCap' = IF Found(depths["cache"]) THEN depths["cache"].cap ELSE shownCap

\* Mutant: a boundary that a beat states as none is kept.
MergeCapped ==
  /\ Kept([name \in Names |-> depths[name].at])
  /\ shownCap' = IF Found(depths["cache"]) /\ depths["cache"].cap # "none"
                 THEN depths["cache"].cap ELSE shownCap

\* A beat says again what was found last.  A figure it has replaces the one
\* kept, with its date; one it lacks is kept.  A boundary goes with its figure,
\* and none is one.
MergeTelemetry ==
  /\ Kept([name \in Names |-> depths[name].at])
  /\ shownCap' = IF Found(depths["cache"]) THEN depths["cache"].cap ELSE shownCap

OverBudget ==
  /\ meterKind # "linux" /\ clearing = NotClearing
  /\ Found(meters["cache"]) /\ meters["cache"].size = "over"
  /\ moment - meters["cache"].at <= BudgetFresh

AskForClear ==
  /\ clearing' = [open |-> TRUE, by |-> meters["cache"].at]
  /\ claims' = claims \cup {meters["cache"].at}
  /\ UNCHANGED <<meterKind, holds, walk, depths, meters, shownCap, cleared,
                 moment>>

\* Mutant: every pass asks under a key of its own.
QueueEveryPass == OverBudget /\ AskForClear

\* A pass over a runner it takes to be idle asks for a clear, once for each
\* reading: its date is the key.
QueueCacheBudget == OverBudget /\ meters["cache"].at \notin claims /\ AskForClear

\* Someone asks for a clear, whatever the readings.
ClearByHand ==
  /\ clearing = NotClearing /\ clearing' = [open |-> TRUE, by |-> 0]
  /\ UNCHANGED <<meterKind, holds, walk, depths, meters, shownCap, claims,
                 cleared, moment>>

\* The agent clears what it can: there may be a scope it cannot.
ClearScopes ==
  /\ clearing.open /\ holds.cache = "over"
  /\ CacheBecomes([holds EXCEPT !.cache = "within"])
  /\ UNCHANGED <<meterKind, depths, meters, shownCap, clearing, claims,
                 cleared, moment>>

\* The clear succeeded: the reading it outdates goes.
ClearSucceeds ==
  /\ clearing.open /\ clearing' = NotClearing
  /\ cleared' = [cleared EXCEPT ![clearing.by] = IF clearing.by = 0 THEN 0 ELSE @ + 1]
  /\ meters' = [meters EXCEPT !["cache"] = NoFinding]
  /\ UNCHANGED <<meterKind, holds, walk, depths, shownCap, claims, moment>>

\* The runner has become busy, or the agent cannot.
ClearFails ==
  /\ clearing.open /\ clearing' = NotClearing
  /\ UNCHANGED <<meterKind, holds, walk, depths, meters, shownCap, claims,
                 cleared, moment>>

MeterTick ==
  /\ moment < LastMoment /\ moment' = moment + 1
  /\ UNCHANGED <<meterKind, holds, walk, depths, meters, shownCap, clearing,
                 claims, cleared>>

\* What a card shows of a part: its figure, while it is recent.
Shown(name) == Found(meters[name]) /\ moment - meters[name].at <= StorageFresh

MetersNext ==
  \/ \E size \in Sizes : Fills(size)
  \/ Switches \/ \E cap \in Caps : Recreate(cap)
  \/ BeginDepth \/ StorageProbed \/ MeasureDepth \/ AgentStarts
  \/ MergeTelemetry \/ QueueCacheBudget \/ ClearByHand
  \/ ClearScopes \/ ClearSucceeds \/ ClearFails
  \/ MeterTick

MetersSpec == MetersInit /\ [][MetersNext]_meterVars

-----------------------------------------------------------------------------

\* One reading brings about one clear at most, though the beats after it say
\* the same again, even what invalidate_cache dropped (reconciler.py
\* _queue_cache_budget, heartbeat.py _depth).
OneClearPerReading == \A date \in Moments : cleared[date] <= 1

\* A card shows no figure of a walk that ended longer ago than it says
\* (inventory.py _merge_telemetry, cards.py _measured).
ShownIsRecent ==
  \A name \in Names :
    Shown(name) => moment - meters[name].ended <= StorageFresh

\* A figure of the cache is shown against the boundary of the same walk, never
\* against one the unit lost in the meantime.
BoundaryOfTheReading == Found(meters["cache"]) => shownCap = meters["cache"].cap

CacheReadingsAreTrue ==
  MetersTypeOK /\ OneClearPerReading /\ ShownIsRecent /\ BoundaryOfTheReading

\* What a row keeps of a deep pass is as true and as old as it says, whatever is
\* done to the unit in the pass and after it, and asks for one clear at most
\* (origin_guard.py, heartbeat.py, inventory.py, api_v2.py, cards.py,
\* federation_provision.py, reconciler.py).
ReadingsAreTrue == GuardReportsAreTrue /\ CacheReadingsAreTrue
=============================================================================
