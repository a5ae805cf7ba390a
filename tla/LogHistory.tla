----------------------------- MODULE LogHistory -----------------------------
(***************************************************************************)
(* The run history of a runner whose worker sends no job events            *)
(* (dashboard/history.py, the collector and the enricher of                *)
(* dashboard/app.py): it is read from the runner's log, window after       *)
(* window, and the forge is asked for the rest.                            *)
(*                                                                         *)
(* A GitHub runner logs the start and the end of a job; one that is killed *)
(* in its job does not log the end.  A Forgejo runner logs starts only,    *)
(* with the number of the task, and the forge says how and when it ended.  *)
(*                                                                         *)
(* The runner's jobs all have one name, which is the hard case.  Events    *)
(* are numbered in the order they happen: an odd one starts a job, the     *)
(* even one after it ends it; the number is also its time.                 *)
(***************************************************************************)
EXTENDS Integers

CONSTANTS
  LastLogged,     \* bound: the number of the last event that happens
  MaxLogFaults    \* bound: kills, lines lost, restarts of the dashboard, tasks forgotten

ASSUME LogAssumption == LastLogged \in Nat /\ MaxLogFaults \in Nat

VARIABLES
  logForge,  \* the forge of the runner
  present,   \* the number of the last event that happened
  unsaid,    \* the ends of jobs that were killed
  oldest,    \* the first line a window can still reach
  readUpTo,  \* the last event when the log was last read
  window,    \* lines of a window not yet entered
  history,   \* the rows
  asking,    \* the row the enricher is at, and where it is in it
  blurred,   \* history: whether lines were lost before they were entered, with a run open
  pruned,    \* whether the forge has forgotten the tasks
  logFaults

runnerVars == <<logForge, present, unsaid, oldest, blurred>>
logVars == <<runnerVars, readUpTo, window, history, asking, pruned, logFaults>>

Begins(n) == n % 2 = 1
Job(n) == (n + 1) \div 2
AllJobs == 1 .. Job(LastLogged)

\* Results: 0 none, a job's own by its number, -1 Unknown.
NotKnown == 0 - 1
NotAsking == [start |-> 0, pc |-> "none", job |-> 0]
LogResults == {NotKnown, 0} \cup AllJobs

\* A row: its start, its end (0: it is open), its result, the job the forge said it is, and
\* whether the forge need not be asked again.
LogTypeOK ==
  /\ logForge \in {"github", "forgejo"} /\ present \in 0 .. LastLogged
  /\ unsaid \subseteq 1 .. LastLogged /\ oldest \in 1 .. LastLogged + 1
  /\ readUpTo \in 0 .. LastLogged /\ window \subseteq 1 .. LastLogged
  /\ history \subseteq [start : 1 .. LastLogged, end : 0 .. LastLogged, result : LogResults,
                        named : AllJobs \cup {0}, checked : BOOLEAN]
  /\ asking \in [start : 0 .. LastLogged, pc : {"none", "found", "gone"}, job : AllJobs \cup {0}]
  /\ pruned \in BOOLEAN /\ blurred \in BOOLEAN /\ logFaults \in 0 .. MaxLogFaults

LogInit ==
  /\ logForge \in {"github", "forgejo"}
  /\ present = 0 /\ unsaid = {} /\ oldest = 1 /\ readUpTo = 0 /\ window = {}
  /\ history = {} /\ asking = NotAsking /\ blurred = FALSE
  /\ pruned = FALSE /\ logFaults = 0

LogFault(what) ==
  /\ logFaults < MaxLogFaults
  /\ logFaults' = logFaults + 1
  /\ what

-----------------------------------------------------------------------------
(* The runner and its log.                                                 *)

RunnerGoesOn ==
  /\ present < LastLogged
  /\ present' = present + 1
  /\ UNCHANGED <<logForge, unsaid, oldest, blurred, readUpTo, window, history, asking, pruned,
                 logFaults>>

Killed ==
  LogFault(/\ present < LastLogged /\ ~Begins(present + 1)
           /\ present' = present + 1
           /\ unsaid' = unsaid \cup {present + 1}
           /\ UNCHANGED <<logForge, oldest, readUpTo, window, history, asking, pruned, blurred>>)

\* What has happened so far is older than the longest window, a day, or went with its unit.
LinesLost ==
  LogFault(/\ oldest <= present
           /\ oldest' = present + 1
           /\ blurred' = (blurred \/ (readUpTo < present
                           /\ (window # {} \/ \E r \in history : r.end = 0)))
           /\ UNCHANGED <<logForge, present, unsaid, readUpTo, window, history, asking, pruned>>)

Lines == {n \in oldest .. present : Begins(n) \/ (logForge = "github" /\ n \notin unsaid)}

-----------------------------------------------------------------------------
(* The collector.  A window reaches back at least to the last reading.    *)

ReadLog ==
  /\ window = {} /\ readUpTo < present
  /\ \E from \in 1 .. readUpTo + 1 : window' = {n \in Lines : n >= from}
  /\ readUpTo' = present
  /\ UNCHANGED <<runnerVars, history, asking, pruned, logFaults>>

OpenRun(n) ==
  IF \E r \in history : r.start = n THEN history
  ELSE history \cup {[start |-> n, end |-> 0, result |-> 0, named |-> 0, checked |-> FALSE]}

\* An end whose start was never seen.
Partial(n) == [start |-> n, end |-> n, result |-> Job(n), named |-> 0, checked |-> FALSE]

\* Mutant: the latest open run is looked for first.
CloseAnyOpen(n) ==
  LET open == {r \in history : r.end = 0 /\ r.start <= n}
      latest == CHOOSE r \in open : \A other \in open : other.start <= r.start
  IN  IF open # {} THEN (history \ {latest}) \cup {[latest EXCEPT !.end = n, !.result = Job(n)]}
      ELSE IF \E r \in history : r.end = n THEN history
      ELSE history \cup {Partial(n)}

\* The end was entered before, or it is that of the latest open run, or its start was never seen.
CloseRun(n) ==
  LET open == {r \in history : r.end = 0 /\ r.start <= n}
      latest == CHOOSE r \in open : \A other \in open : other.start <= r.start
  IN  IF \E r \in history : r.end = n THEN history
      ELSE IF open # {}
      THEN (history \ {latest}) \cup {[latest EXCEPT !.end = n, !.result = Job(n)]}
      ELSE history \cup {Partial(n)}

\* Line by line, the oldest first.
EnterLine ==
  \E n \in window :
    /\ \A other \in window : n <= other
    /\ history' = IF Begins(n) THEN OpenRun(n) ELSE CloseRun(n)
    /\ window' = window \ {n}
    /\ UNCHANGED <<runnerVars, readUpTo, asking, pruned, logFaults>>

\* The dashboard restarts: it reads a day's log again.
DashboardRestarts ==
  LogFault(/\ readUpTo # 0
           /\ window' = {} /\ readUpTo' = 0 /\ asking' = NotAsking
           /\ blurred' = (blurred \/ \E n \in window : n < oldest)
           /\ UNCHANGED <<logForge, present, unsaid, oldest, history, pruned>>)

-----------------------------------------------------------------------------
(* The enricher.                                                           *)

Unchecked == {r \in history : ~r.checked /\ (r.end # 0 \/ logForge = "forgejo")}

\* A GitHub job is looked for by its runner and its name, among those of these hours: the first
\* found is taken, and a row for which none is found is given up at once.
FindJob(r) ==
  /\ logForge = "github" /\ r \in Unchecked /\ asking = NotAsking
  /\ \E k \in 0 .. Job(present) :
       /\ asking' = [start |-> r.start, pc |-> IF k = 0 THEN "gone" ELSE "found", job |-> k]
  /\ UNCHANGED <<runnerVars, readUpTo, window, history, pruned, logFaults>>

\* A Forgejo task is found by its number, and while it goes on nothing is done; when the forge
\* does not know it the run is given up a day after it started.
FindTask(r) ==
  /\ logForge = "forgejo" /\ r \in Unchecked /\ asking = NotAsking
  /\ pruned \/ r.start < present
  /\ asking' = [start |-> r.start, pc |-> IF pruned THEN "gone" ELSE "found",
                job |-> IF pruned THEN 0 ELSE Job(r.start)]
  /\ UNCHANGED <<runnerVars, readUpTo, window, pruned, history, logFaults>>

Asked == CHOOSE r \in history : r.start = asking.start
Rewritten(r) == (history \ {Asked}) \cup {r}

\* The run is closed first.
ApplyClose ==
  /\ logForge = "forgejo" /\ asking # NotAsking /\ Asked.end = 0
  /\ history' = Rewritten(IF asking.pc = "found"
                          THEN [Asked EXCEPT !.end = asking.start + 1, !.result = asking.job]
                          ELSE [Asked EXCEPT !.end = asking.start, !.result = NotKnown])
  /\ UNCHANGED <<runnerVars, readUpTo, window, asking, pruned, logFaults>>

\* Mutant: the run is enriched before it is closed, if it is.
EnrichFirst ==
  /\ asking # NotAsking
  /\ history' = Rewritten([Asked EXCEPT !.checked = TRUE, !.named = asking.job])
  /\ asking' = NotAsking
  /\ UNCHANGED <<runnerVars, readUpTo, window, pruned, logFaults>>

ApplyEnrichment ==
  /\ asking # NotAsking /\ (logForge = "forgejo" => Asked.end # 0)
  /\ history' = Rewritten([Asked EXCEPT !.checked = TRUE, !.named = asking.job])
  /\ asking' = NotAsking
  /\ UNCHANGED <<runnerVars, readUpTo, window, pruned, logFaults>>

TasksPruned ==
  LogFault(/\ logForge = "forgejo" /\ ~pruned
           /\ pruned' = TRUE
           /\ UNCHANGED <<runnerVars, readUpTo, window, history, asking>>)

LogNext ==
  \/ RunnerGoesOn \/ Killed \/ LinesLost \/ ReadLog \/ EnterLine \/ DashboardRestarts
  \/ \E r \in history : FindJob(r) \/ FindTask(r)
  \/ ApplyClose \/ ApplyEnrichment \/ TasksPruned

LogSpec == LogInit /\ [][LogNext]_logVars

-----------------------------------------------------------------------------
(* Properties.                                                             *)

RowIsOfItsJob(r) ==
  /\ r.end \in {0, r.start, 2 * Job(r.start)}
  /\ r.result \in {0, NotKnown, Job(r.start)}

\* However often the windows overlap and lines are entered again, and with jobs that were killed
\* and all of one name: a job has one row, with an end and a result of its own (unless lines
\* were lost before they were entered, with a run open: its end is then taken from the next).
\* And a Forgejo run that is not asked about any more has ended.
LogRunsAreRight ==
  /\ ~blurred =>
       /\ \A r \in history : RowIsOfItsJob(r)
       /\ \A r, q \in history : Job(r.start) = Job(q.start) => r = q
  /\ logForge = "forgejo" => \A r \in history : r.checked => r.end # 0 /\ r.result # 0
=============================================================================
