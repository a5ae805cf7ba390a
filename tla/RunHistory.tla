----------------------------- MODULE RunHistory -----------------------------
(***************************************************************************)
(* The run history of one GitHub runner (dashboard/native_history.py,      *)
(* history.pending_results and apply_result, the collector and the         *)
(* enricher of dashboard/app.py, dashboard/job_notify.py).                 *)
(*                                                                         *)
(* The runner takes jobs of one workflow run in turn.  The hook on its     *)
(* worker and the forge each report a start and an end of every job to the *)
(* ledger, each by a clock and an id of its own, and the worker does not   *)
(* know results.  The collector projects the ledger, entry by entry, into  *)
(* one row per job; the enricher asks the forge for the results of the     *)
(* rows that have none; the scan says every job once when it starts and    *)
(* once when it has a result.                                              *)
(*                                                                         *)
(* Events are numbered in the order they happen: an odd one starts a job,  *)
(* the even one after it ends it.  A tick is half a minute, the skew the   *)
(* projection allows for.                                                  *)
(***************************************************************************)
EXTENDS Integers, Sequences, SequencesExt, FiniteSetsExt

CONSTANTS
  LastHappening,     \* bound: the number of the last event that happens
  Leads,             \* by how many ticks the forge dates a start earlier
  Lags,              \* and an end later than the worker
  MaxBacklog,        \* bound: entries not yet projected
  MaxHistoryFaults   \* bound: questions without an answer, deliveries lost, runs forgotten

ASSUME HistoryAssumption ==
  LastHappening \in Nat /\ Leads \in 0 .. 1 /\ Lags \in 0 .. 1 /\ MaxHistoryFaults \in Nat

VARIABLES
  happenings,   \* the number of the last event that happened
  toPost,       \* the worker's events, to be posted in their order
  deliveries,   \* the signed events on their way, in any order
  entered,      \* the ledger: the events in the order they were entered
  cursor,       \* how many entries are projected
  collector,    \* what the collector is at
  noticed,      \* whether the database changed since the collector last woke
  runRows,      \* the history, oldest row first
  told,         \* what the forge answered to the enricher, about which row
  forgotten,    \* whether the forge no longer knows the run
  said,         \* the messages queued
  historyFaults

historyVars == <<happenings, toPost, deliveries, entered, cursor, collector, noticed,
                 runRows, told, forgotten, said, historyFaults>>

Starts(n) == n % 2 = 1
RunOf(n) == (n + 1) \div 2
Runs == 1 .. RunOf(LastHappening)

Reporters == {"worker", "forge"}
Stamped(e) == 3 * e.n - (IF e.by = "worker" THEN 0 ELSE IF Starts(e.n) THEN Leads ELSE 0 - Lags)

\* What the forge concluded of a job, here its number; 0 is no result.
UnknownResult == -1
NotTold == [row |-> 0, result |-> 0, at |-> 0]

\* A row: the ids it is known by, who wrote it last and the stamp of that, its start, its end
\* (0: it is open), its result, and, as history, the jobs whose events it holds.
HistoryTypeOK ==
  /\ happenings \in 0 .. LastHappening /\ cursor \in 0 .. Len(entered)
  /\ toPost \in Seq(1 .. LastHappening) /\ deliveries \subseteq 1 .. LastHappening
  /\ entered \in Seq([by : Reporters, n : 1 .. LastHappening])
  /\ collector \in {"reads", "works", "waits"} /\ noticed \in BOOLEAN /\ forgotten \in BOOLEAN
  /\ runRows \in Seq([ids : SUBSET [by : Reporters, run : Runs], source : Reporters, at : Int,
                   start : Int, end : Int, result : {UnknownResult, 0} \cup Runs, of : SUBSET Runs])
  /\ told \in [row : Nat, result : {UnknownResult, 0} \cup Runs, at : Int]
  /\ said \subseteq [row : Nat, result : {UnknownResult} \cup Runs]
  /\ historyFaults \in 0 .. MaxHistoryFaults

HistoryInit ==
  /\ happenings = 0 /\ toPost = <<>> /\ deliveries = {} /\ entered = <<>> /\ cursor = 0
  /\ collector = "reads" /\ noticed = FALSE /\ runRows = <<>>
  /\ told = NotTold /\ forgotten = FALSE
  /\ said = {} /\ historyFaults = 0

-----------------------------------------------------------------------------
(* Jobs and how they come to the ledger.                                   *)

Happen ==
  /\ happenings < LastHappening
  /\ happenings' = happenings + 1
  /\ toPost' = Append(toPost, happenings + 1)
  /\ deliveries' = deliveries \cup {happenings + 1}
  /\ UNCHANGED <<entered, cursor, collector, noticed, runRows, told, forgotten, said, historyFaults>>

Enter(e) ==
  /\ Len(entered) - cursor < MaxBacklog
  /\ entered' = Append(entered, e)
  /\ noticed' = TRUE
  /\ UNCHANGED <<happenings, cursor, collector, runRows, told, forgotten, said, historyFaults>>

Posted ==
  /\ toPost # <<>>
  /\ toPost' = Tail(toPost)
  /\ Enter([by |-> "worker", n |-> Head(toPost)])
  /\ UNCHANGED deliveries

Delivered(n) ==
  /\ n \in deliveries
  /\ deliveries' = deliveries \ {n}
  /\ Enter([by |-> "forge", n |-> n])
  /\ UNCHANGED toPost

HistoryFault(what) ==
  /\ historyFaults < MaxHistoryFaults
  /\ historyFaults' = historyFaults + 1
  /\ what

DeliveryLost(n) ==
  HistoryFault(/\ n \in deliveries
               /\ deliveries' = deliveries \ {n}
               /\ UNCHANGED <<happenings, toPost, entered, cursor, collector, noticed, runRows,
                              told, forgotten, said>>)

-----------------------------------------------------------------------------
(* The projection.                                                         *)

IdOf(e) == [by |-> e.by, run |-> RunOf(e.n)]

\* Mutant: a late start never belongs to a run that has ended.
EligibleWhileOpen(row, e) ==
  (\A id \in row.ids : id.by # e.by) /\ ~(Starts(e.n) /\ row.end # 0)

\* The event may be of the run in the row: it is not known by another id of the same kind, and
\* the event does not start a job after the row's has ended.
Eligible(row, e) ==
  /\ \A id \in row.ids : id.by # e.by
  /\ ~(Starts(e.n) /\ row.end # 0 /\ Stamped(e) > row.at)

\* Mutant: whatever came after the start of a row is within it.
FitAnyLater(row, e) == IF row.start <= Stamped(e) THEN 1 ELSE 3

\* Mutant: no skew between the clocks is allowed for.
FitExact(row, e) ==
  IF row.start <= Stamped(e) /\ (row.end = 0 \/ Stamped(e) <= row.end) THEN 1 ELSE 3

\* How well the time of an event fits a row: 0 it is the row's own, 1 within it, 2 within the
\* skew, 3 not at all.
Fit(row, e) ==
  LET endpoint == IF Starts(e.n) THEN row.start ELSE row.end
      open == row.end = 0
  IN  IF endpoint = Stamped(e) /\ ~(~Starts(e.n) /\ open) THEN 0
      ELSE IF row.start <= Stamped(e) /\ (open \/ Stamped(e) <= row.end) THEN 1
      ELSE IF \/ Starts(e.n) /\ row.start - Stamped(e) \in 0 .. 1
              \/ ~Starts(e.n) /\ ~open /\ Stamped(e) - row.end \in 0 .. 1
           THEN 2 ELSE 3

\* The row of an event: the newest known by its id, else the one that fits best, and none (0)
\* if several fit as well.
FindRun(e) ==
  LET known == {i \in 1 .. Len(runRows) : IdOf(e) \in runRows[i].ids}
      fits(g) == {i \in 1 .. Len(runRows) : Eligible(runRows[i], e) /\ Fit(runRows[i], e) = g}
      groups == {g \in 0 .. 2 : fits(g) # {}}
  IN  IF known # {} THEN Max(known)
      ELSE IF groups = {} THEN 0
      ELSE IF \E i \in fits(Min(groups)) : fits(Min(groups)) = {i}
           THEN CHOOSE i \in fits(Min(groups)) : TRUE
      ELSE 0

ResultOf(e) == IF e.by = "forge" THEN RunOf(e.n) ELSE 0

Ended(row, e) ==
  IF Starts(e.n) THEN row
  ELSE [row EXCEPT !.end = Stamped(e), !.result = ResultOf(e)]

NewRow(e) ==
  Ended([ids |-> {IdOf(e)}, source |-> e.by, at |-> Stamped(e), start |-> Stamped(e),
         end |-> 0, result |-> 0, of |-> {RunOf(e.n)}], e)

\* An old event of the worker, and one after the forge ended the run, leave no more than an id;
\* so does a start of a run that has ended, which the forge signs all the same.
Written(row, e) ==
  LET known == [row EXCEPT !.ids = @ \cup {IdOf(e)}, !.of = @ \cup {RunOf(e.n)}]
  IN  IF \/ e.by = "worker" /\ Stamped(e) < row.at
         \/ e.by = "worker" /\ row.source = "forge" /\ row.end # 0
      THEN known
      ELSE IF Starts(e.n) /\ row.end # 0
      THEN IF e.by = "forge" THEN [known EXCEPT !.source = "forge"] ELSE known
      ELSE Ended([known EXCEPT !.source = e.by, !.at = Stamped(e)], e)

\* One entry, with the cursor, in one transaction.
Project ==
  /\ collector = "reads" /\ cursor < Len(entered)
  /\ LET e == entered[cursor + 1]
         i == FindRun(e)
     IN  runRows' = IF i = 0 THEN Append(runRows, NewRow(e))
                 ELSE [runRows EXCEPT ![i] = Written(@, e)]
  /\ cursor' = cursor + 1
  /\ UNCHANGED <<happenings, toPost, deliveries, entered, collector, noticed, told, forgotten,
                 said, historyFaults>>

\* Everything is projected: the collector goes on with the rest of its pass.
CaughtUp ==
  /\ collector = "reads" /\ cursor = Len(entered)
  /\ collector' = "works"
  /\ UNCHANGED <<happenings, toPost, deliveries, entered, cursor, noticed, runRows, told, forgotten,
                 said, historyFaults>>

\* Mutant: the database is watched from when the collector waits.
WaitUnwatched ==
  /\ collector = "works"
  /\ collector' = "waits" /\ noticed' = FALSE
  /\ UNCHANGED <<happenings, toPost, deliveries, entered, cursor, runRows, told, forgotten, said,
                 historyFaults>>

\* It waits for the database to change, and for a change since it last woke it does not wait.
WaitForChange ==
  /\ collector = "works"
  /\ collector' = "waits"
  /\ UNCHANGED <<happenings, toPost, deliveries, entered, cursor, noticed, runRows, told, forgotten,
                 said, historyFaults>>

Woken ==
  /\ collector = "waits" /\ noticed
  /\ collector' = "reads" /\ noticed' = FALSE
  /\ UNCHANGED <<happenings, toPost, deliveries, entered, cursor, runRows, told, forgotten, said,
                 historyFaults>>

-----------------------------------------------------------------------------
(* The enricher.  Its answer to one question is written some time later.   *)

\* Started a quarter of an hour ago: no start is on its way for as long, an end may be.
OpenForLong(i) ==
  LET onTheWay == Range(toPost) \cup deliveries
                  \cup {entered[j].n : j \in cursor + 1 .. Len(entered)}
  IN  \A k \in runRows[i].of : 2 * k - 1 \notin onTheWay

\* Closed without a result, or still open though it started long ago.
PendingResults ==
  {i \in 1 .. Len(runRows) : runRows[i].result = 0 /\ (runRows[i].end = 0 => OpenForLong(i))}

\* Of the runner's jobs that the forge knows, the one that started closest.
Closest(start) ==
  LET begun == {k \in Runs : 2 * k - 1 <= happenings}
      off(k) == LET d == Stamped([by |-> "forge", n |-> 2 * k - 1]) - start
                IN  IF d < 0 THEN 0 - d ELSE d
  IN  CHOOSE k \in begun : \A other \in begun : off(k) <= off(other)

\* The forge answers with the end of that job, or that it goes on, in which case nothing comes
\* of it; a run it no longer knows becomes Unknown once it is a day old.
AskForResult(i) ==
  LET k == Closest(runRows[i].start)
  IN  /\ i \in PendingResults /\ told = NotTold
      /\ forgotten \/ 2 * k <= happenings
      /\ told' = IF forgotten THEN [row |-> i, result |-> UnknownResult, at |-> runRows[i].start]
                   ELSE [row |-> i, result |-> k, at |-> Stamped([by |-> "forge", n |-> 2 * k])]
      /\ UNCHANGED <<happenings, toPost, deliveries, entered, cursor, collector, noticed, runRows,
                     forgotten, said, historyFaults>>

ApplyResult ==
  LET a == told
      closed == IF runRows[a.row].end # 0 THEN runRows[a.row] ELSE [runRows[a.row] EXCEPT !.end = a.at]
  IN  /\ a # NotTold
      /\ runRows' = [runRows EXCEPT ![a.row] =
                    IF closed.result # 0 THEN closed ELSE [closed EXCEPT !.result = a.result]]
      /\ told' = NotTold
      /\ UNCHANGED <<happenings, toPost, deliveries, entered, cursor, collector, noticed,
                     forgotten, said, historyFaults>>

\* The repository, or the run, is deleted at the forge.
Forget ==
  HistoryFault(/\ happenings = LastHappening /\ ~forgotten
               /\ forgotten' = TRUE
               /\ UNCHANGED <<happenings, toPost, deliveries, entered, cursor, collector, noticed,
                              runRows, told, said>>)

-----------------------------------------------------------------------------
(* The scan: a job's end is said once, when its result is known.             *)

Say(i) ==
  /\ runRows[i].result # 0 /\ ~\E m \in said : m.row = i
  /\ said' = said \cup {[row |-> i, result |-> runRows[i].result]}
  /\ UNCHANGED <<happenings, toPost, deliveries, entered, cursor, collector, noticed, runRows, told,
                 forgotten, historyFaults>>

Collector == Project \/ CaughtUp \/ WaitForChange \/ Woken
Enricher == ApplyResult \/ \E i \in PendingResults : AskForResult(i)
Scan == \E i \in 1 .. Len(runRows) : Say(i)

HistoryNext ==
  \/ Happen \/ Posted \/ \E n \in deliveries : Delivered(n) \/ DeliveryLost(n)
  \/ Collector \/ Enricher \/ Forget \/ Scan

HistorySpec == HistoryInit /\ [][HistoryNext]_historyVars

-----------------------------------------------------------------------------
(* Properties.                                                             *)

\* Whichever source is late or silent, somebody reports in order: a job starts in the ledger
\* before it ends there, and ends there before the next one starts.
ReportedInTurn ==
  \A i \in 1 .. cursor : \A n \in 1 .. entered[i].n - 1 :
    \E j \in 1 .. i : entered[j].n = n

\* The signed start of the job was lost.
StartLost(k) ==
  /\ 2 * k - 1 <= happenings /\ 2 * k - 1 \notin deliveries
  /\ \A i \in 1 .. Len(entered) : entered[i] # [by |-> "forge", n |-> 2 * k - 1]

OneRow ==
  \A k \in Runs : \A i, j \in 1 .. Len(runRows) :
    k \in runRows[i].of /\ k \in runRows[j].of /\ i # j => forgotten /\ StartLost(k)
Unmixed == \A i \in 1 .. Len(runRows) : \E k \in Runs : runRows[i].of = {k}
TrueResults ==
  \A i \in 1 .. Len(runRows) : \A k \in runRows[i].of : runRows[i].result \in {0, UnknownResult, k}
TrueWords == \A m \in said : \A k \in runRows[m.row].of : m.result \in {UnknownResult, k}

\* While somebody reports the jobs in their order, and whichever way the two sources are mixed,
\* late or silent: a row has one job, and neither the row nor the message that says how it ended
\* gives the job another's result; and a job has one row, unless the forge, whose word of its
\* start was lost, has forgotten it.
JobsHaveTheirRows == ReportedInTurn => OneRow /\ Unmixed /\ TrueResults /\ TrueWords

\* In the end every job that ended has a row with a result and has been said, though its
\* completion was lost or took away again what the forge had answered, and though the database
\* changed while the collector was about to wait for that.
RunsAreSettled ==
  <>[](\A k \in Runs : 2 * k <= happenings =>
         \E i \in 1 .. Len(runRows) : k \in runRows[i].of /\ runRows[i].result # 0
                                   /\ \E m \in said : m.row = i)
=============================================================================
