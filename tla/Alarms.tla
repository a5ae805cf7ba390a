------------------------------- MODULE Alarms -------------------------------
(***************************************************************************)
(* Alarms (alarms.py, alarm_notify.py): a thread reads the runners of a    *)
(* forge every minute, another its queue of jobs, both keep one book of    *)
(* what is watched and has been raised, an admin acknowledges, and a third *)
(* thread sends what was raised and resolved.  The book is in the database *)
(* and outlives the process; what the threads have in hand does not.       *)
(***************************************************************************)
EXTENDS Naturals, Sequences, FiniteSets, SequencesExt

CONSTANTS
  AlarmRunners,    \* what the forge lists, by name
  Expected,        \* those of the platform: offline when they are not listed
  Jobs,            \* of the forge, for runners of its own
  Takers,          \* the runners that carry the labels of these jobs
  AlarmAfter,      \* offline_minutes, queue_minutes
  SweepAge,        \* jobs younger than this are not asked for
  MAX_ATTEMPTS,
  MaxForgeChanges, \* bound: changes at the forge and by its operators
  MaxAlarmFaults   \* bound: crashes, limits of the forge, failed sends

ASSUME AlarmAssumption ==
  /\ Expected \subseteq AlarmRunners /\ Takers \subseteq AlarmRunners
  /\ AlarmAfter \in Nat \ {0} /\ SweepAge \in 0 .. AlarmAfter
  /\ MAX_ATTEMPTS \in Nat \ {0}

VARIABLES
  forge,     \* whether it can be read, its runners, its jobs and how long ago they came
  planned,   \* the runners the platform has offline on purpose
  book,      \* alarm_watch: what is watched, for how long, raised, acknowledged
  lock,      \* _WRITE: the thread that has the book
  online,    \* Monitor.online: Unknown, or the runners last seen online
  minute,    \* the thread that reads the runners
  sweep,     \* the thread that reads the queue
  notices,   \* alarm_outbox: what is still to be sent, in order
  standing,  \* history: how often what is raised now was recorded as raised
  forgeChanges, alarmFaults

theForge == <<forge, planned, forgeChanges>>
theBook == <<book, lock, standing>>
alarmVars == <<theForge, theBook, notices, online, minute, sweep, alarmFaults>>

AlarmKeys == AlarmRunners \cup Jobs \cup {"monitor", "queue monitor"}
NoRow == [kind |-> "none", age |-> 0, raised |-> FALSE, acked |-> FALSE]
Unknown == {"unknown"}
NoReading == [r \in AlarmRunners |-> "unread"]
IdleThread == [at |-> "rest", rows |-> [k \in AlarmKeys |-> NoRow]]
IdleMinute == [thread |-> IdleThread, planned |-> {}, reading |-> NoReading]
IdleSweep == [thread |-> IdleThread, jobs |-> {}, swept |-> FALSE, blind |-> FALSE, online |-> {}]

Rows == [kind : {"none", "runner_offline", "runner_planned", "job_queued", "monitor"},
         age : 0 .. AlarmAfter, raised : BOOLEAN, acked : BOOLEAN]
Notices == [key : AlarmKeys, event : {"raised", "resolved"}]
Threads == [at : STRING, rows : [AlarmKeys -> Rows]]

AlarmTypeOK ==
  /\ forge \in [readable : BOOLEAN,
                runners : [AlarmRunners -> {"gone", "offline", "online"}],
                jobs : [Jobs -> {"to come", "queued", "left"}],
                came : [Jobs -> 0 .. AlarmAfter]]
  /\ planned \subseteq AlarmRunners
  /\ book \in [AlarmKeys -> Rows] /\ lock \in {"free", "minute", "sweep"}
  /\ online = Unknown \/ online \subseteq AlarmRunners
  /\ minute.thread \in Threads /\ sweep.thread \in Threads
  /\ \A n \in 1 .. Len(notices) :
       notices[n] \in [notice : Notices, state : {"pending", "skipped"}, held : BOOLEAN,
                       waits : BOOLEAN, attempts : 0 .. MAX_ATTEMPTS - 1]
  /\ standing \in [AlarmKeys -> Nat]
  /\ forgeChanges \in 0 .. MaxForgeChanges /\ alarmFaults \in 0 .. MaxAlarmFaults

AlarmsInit ==
  /\ forge = [readable |-> TRUE, runners |-> [r \in AlarmRunners |-> "online"],
              jobs |-> [j \in Jobs |-> "to come"], came |-> [j \in Jobs |-> 0]]
  /\ planned = {}
  /\ book = [k \in AlarmKeys |-> NoRow] /\ lock = "free" /\ online = Unknown
  /\ minute = IdleMinute /\ sweep = IdleSweep
  /\ notices = <<>> /\ standing = [k \in AlarmKeys |-> 0]
  /\ forgeChanges = 0 /\ alarmFaults = 0

AlarmFault == alarmFaults < MaxAlarmFaults /\ alarmFaults' = alarmFaults + 1

-----------------------------------------------------------------------------
(* A condition starts, lasts and ends.                                     *)

\* Mutant: the clock of a row starts again with every reading.
WatchedAnew(row, kind, age) ==
  [kind |-> kind, age |-> age, acked |-> row.acked, raised |-> row.raised \/ age >= AlarmAfter]

\* _watch: a row that is there keeps its clock and its kind.
Watched(row, kind, age) ==
  IF row = NoRow THEN [NoRow EXCEPT !.kind = kind, !.age = age, !.raised = age >= AlarmAfter]
  ELSE [row EXCEPT !.raised = @ \/ row.age >= AlarmAfter]

\* _turn: what is offline on purpose and stays offline starts again, once it
\* was said; what was not said yet is said as what it is now.
Turned(row, kind) ==
  CASE row = NoRow \/ row.kind = kind -> row
    [] row # NoRow /\ row.kind # kind /\ ~row.raised -> [row EXCEPT !.kind = kind]
    [] row # NoRow /\ row.kind # kind /\ row.raised ->
         IF kind = "runner_offline" THEN [NoRow EXCEPT !.kind = kind] ELSE row

\* A runner of the platform that is not listed is offline.
Seen(reading, r) ==
  IF reading[r] = "gone" /\ r \in Expected THEN "offline" ELSE reading[r]

\* observe_runners, for one reading of the forge.
WithRunners(rows, reading, onPurpose) ==
  [k \in AlarmKeys |->
     CASE k = "monitor" -> IF reading = NoReading THEN Watched(rows[k], "monitor", 0) ELSE NoRow
       [] k \in AlarmRunners ->
            LET kind == IF k \in onPurpose THEN "runner_planned" ELSE "runner_offline"
            IN  CASE Seen(reading, k) = "unread" -> rows[k]
                  [] Seen(reading, k) = "offline" -> Watched(Turned(rows[k], kind), kind, 0)
                  [] OTHER -> NoRow
       [] OTHER -> rows[k]]

CanRun(seen) == Takers \cap seen # {}

\* recheck_queue: what waits, against the runners online now.
WithOnline(rows, seen) ==
  [k \in AlarmKeys |->
     IF k \in Jobs /\ rows[k] # NoRow
     THEN IF CanRun(seen) THEN NoRow ELSE Watched(rows[k], "job_queued", 0)
     ELSE rows[k]]

\* observe_queue_reader: whether the queue could be read.
WithReader(rows, read) ==
  [rows EXCEPT !["queue monitor"] = IF read THEN NoRow ELSE Watched(@, "monitor", 0)]

\* observe_queue: the jobs found, each as old as the forge says.
WithQueue(rows, jobs, swept, seen) ==
  [k \in AlarmKeys |->
     IF k \notin Jobs THEN rows[k]
     ELSE IF k \in jobs
          THEN IF CanRun(seen) THEN NoRow ELSE Watched(rows[k], "job_queued", forge.came[k])
          ELSE IF swept THEN NoRow ELSE rows[k]]

-----------------------------------------------------------------------------
(* The book: one transaction of one thread at a time.                      *)

\* Mutant: a thread does not wait for the other.
AnyTime == TRUE

BookIsFree == lock = "free"

RaisedIn(before, after) == {k \in AlarmKeys : after[k].raised /\ ~before[k].raised}
ResolvedIn(before, after) == {k \in AlarmKeys : before[k].raised /\ after[k] = NoRow}

Noticed(before, after) ==
  {[key |-> k, event |-> "raised"] : k \in RaisedIn(before, after)}
  \cup {[key |-> k, event |-> "resolved"] : k \in ResolvedIn(before, after)}

\* alarm_notify.enqueue, for each of the events a transaction recorded.
Enqueued(news) ==
  notices \o [n \in 1 .. Cardinality(news) |->
                [notice |-> SetToSeq(news)[n], state |-> "pending", held |-> FALSE,
                 waits |-> FALSE, attempts |-> 0]]

\* What the thread read of the book is written back and committed, and what it
\* recorded is told (_flush).  A crash between the two loses that: README,
\* "Other disagreements".
Commit(before, after) ==
  /\ book' = [k \in AlarmKeys |-> IF after[k] # before[k] THEN after[k] ELSE book[k]]
  /\ standing' = [k \in AlarmKeys |->
                    (IF book'[k].raised THEN standing[k] ELSE 0)
                    + (IF k \in RaisedIn(before, after) THEN 1 ELSE 0)]
  /\ lock' = "free"
  /\ notices' = Enqueued(Noticed(before, after))

OpenBook(name, thread, place) ==
  /\ thread.at = place /\ BookIsFree /\ lock' = name
  /\ UNCHANGED <<book, standing>>

BookOpened(thread, place) == [thread EXCEPT !.at = place, !.rows = book]

BookClosed(thread, place) == [thread EXCEPT !.at = place, !.rows = IdleThread.rows]

-----------------------------------------------------------------------------
(* Every minute: Monitor.tick.                                             *)

MinuteAt(place) == minute.thread.at = place
MinuteTo(place) == minute' = [minute EXCEPT !.thread.at = place]

\* What the platform means is read first, the forge next.
MinuteBegins ==
  /\ MinuteAt("rest")
  /\ minute' = [minute EXCEPT !.thread.at = "read", !.planned = planned]
  /\ UNCHANGED <<theForge, theBook, notices, online, sweep, alarmFaults>>

ReadRunners ==
  /\ MinuteAt("read")
  /\ minute' = [minute EXCEPT !.thread.at = "runners",
                              !.reading = IF forge.readable THEN forge.runners ELSE NoReading]
  /\ UNCHANGED <<theForge, theBook, notices, online, sweep, alarmFaults>>

OpenForRunners ==
  /\ OpenBook("minute", minute.thread, "runners")
  /\ minute' = [minute EXCEPT !.thread = BookOpened(minute.thread, "observe")]
  /\ UNCHANGED <<theForge, notices, online, sweep, alarmFaults>>

ObserveRunners ==
  LET after == WithRunners(minute.thread.rows, minute.reading, minute.planned)
  IN  /\ MinuteAt("observe")
      /\ Commit(minute.thread.rows, after)
      /\ minute' = [minute EXCEPT !.thread = BookClosed(minute.thread, "publish")]
      /\ UNCHANGED <<theForge, online, sweep, alarmFaults>>

\* A forge that cannot be read leaves nobody known to be online.
PublishOnline ==
  /\ MinuteAt("publish")
  /\ IF minute.reading = NoReading
     THEN online' = Unknown /\ minute' = IdleMinute
     ELSE /\ online' = {r \in AlarmRunners : minute.reading[r] = "online"}
          /\ MinuteTo("jobs")
  /\ UNCHANGED <<theForge, theBook, notices, sweep, alarmFaults>>

OpenForJobs ==
  /\ OpenBook("minute", minute.thread, "jobs")
  /\ minute' = [minute EXCEPT !.thread = BookOpened(minute.thread, "recheck")]
  /\ UNCHANGED <<theForge, notices, online, sweep, alarmFaults>>

RecheckQueue ==
  LET after == WithOnline(minute.thread.rows, online)
  IN  /\ MinuteAt("recheck")
      /\ Commit(minute.thread.rows, after)
      /\ minute' = IdleMinute
      /\ UNCHANGED <<theForge, online, sweep, alarmFaults>>

MinuteStep ==
  \/ MinuteBegins \/ ReadRunners \/ OpenForRunners \/ ObserveRunners \/ PublishOnline
  \/ OpenForJobs \/ RecheckQueue

-----------------------------------------------------------------------------
(* Every few minutes: Monitor.sweep_queue.                                 *)

SweepAt(place) == sweep.thread.at = place

OldJobs == {j \in Jobs : forge.jobs[j] = "queued" /\ forge.came[j] >= SweepAge}

\* Nothing is swept while nobody is known to be online.  A limit of the forge,
\* or a run whose jobs cannot be read, and what was read stands; a limit leaves
\* the state of the reader as it was, too.
BeginSweep ==
  /\ SweepAt("rest") /\ online # Unknown
  /\ \/ sweep' = [sweep EXCEPT !.thread.at = "reader", !.swept = forge.readable,
                               !.blind = ~forge.readable,
                               !.jobs = IF forge.readable THEN OldJobs ELSE {}]
        /\ UNCHANGED alarmFaults
     \/ /\ AlarmFault /\ forge.readable
        /\ \E jobs \in SUBSET OldJobs, place \in {"reader", "look"} :
             sweep' = [sweep EXCEPT !.thread.at = place, !.jobs = jobs]
  /\ UNCHANGED <<theForge, theBook, notices, online, minute>>

OpenForReader ==
  /\ OpenBook("sweep", sweep.thread, "reader")
  /\ sweep' = [sweep EXCEPT !.thread = BookOpened(sweep.thread, "observe reader")]
  /\ UNCHANGED <<theForge, notices, online, minute, alarmFaults>>

ObserveReader ==
  LET after == WithReader(sweep.thread.rows, ~sweep.blind)
  IN  /\ SweepAt("observe reader")
      /\ Commit(sweep.thread.rows, after)
      /\ sweep' = [sweep EXCEPT !.thread = BookClosed(sweep.thread, "look")]
      /\ UNCHANGED <<theForge, online, minute, alarmFaults>>

\* "self.online.get(...) or []": nobody known to be online is nobody online.
LookWhoIsOnline ==
  /\ SweepAt("look")
  /\ sweep' = [sweep EXCEPT !.thread.at = "queue",
                            !.online = IF online = Unknown THEN {} ELSE online]
  /\ UNCHANGED <<theForge, theBook, notices, online, minute, alarmFaults>>

OpenForQueue ==
  /\ OpenBook("sweep", sweep.thread, "queue")
  /\ sweep' = [sweep EXCEPT !.thread = BookOpened(sweep.thread, "observe queue")]
  /\ UNCHANGED <<theForge, notices, online, minute, alarmFaults>>

ObserveQueue ==
  LET after == WithQueue(sweep.thread.rows, sweep.jobs, sweep.swept, sweep.online)
  IN  /\ SweepAt("observe queue")
      /\ Commit(sweep.thread.rows, after)
      /\ sweep' = IdleSweep
      /\ UNCHANGED <<theForge, online, minute, alarmFaults>>

SweepStep ==
  \/ BeginSweep \/ OpenForReader \/ ObserveReader \/ LookWhoIsOnline
  \/ OpenForQueue \/ ObserveQueue

-----------------------------------------------------------------------------
(* Sending: alarm_notify.deliver_due.                                      *)

InHand(row) == row.held
ToKeep(row) == row.held \/ row.state = "pending"

BeginDelivery ==
  /\ SelectSeq(notices, InHand) = <<>>
  /\ \E n \in 1 .. Len(notices) : ~notices[n].waits
  /\ notices' = [n \in 1 .. Len(notices) |-> [notices[n] EXCEPT !.held = ~notices[n].waits]]
  /\ UNCHANGED <<theForge, theBook, online, minute, sweep, alarmFaults>>

\* One attempt more, or the last.
FailedOnce(n) ==
  IF notices[n].attempts + 1 < MAX_ATTEMPTS
  THEN [notices EXCEPT ![n].attempts = @ + 1, ![n].waits = TRUE, ![n].held = FALSE]
  ELSE RemoveAt(notices, n)

\* The row is written as it was read, acknowledged meanwhile or not.
SendNext ==
  \E n \in 1 .. Len(notices) :
    /\ notices[n].held /\ \A m \in 1 .. n - 1 : ~notices[m].held
    /\ \/ notices' = RemoveAt(notices, n) /\ UNCHANGED alarmFaults
       \/ AlarmFault /\ notices' = SelectSeq(FailedOnce(n), ToKeep)
       \/ \* "Rate limited: this batch and every one after it wait."
          /\ AlarmFault
          /\ notices' = SelectSeq([m \in 1 .. Len(notices) |->
                [notices[m] EXCEPT !.waits = @ \/ notices[m].held, !.held = FALSE]], ToKeep)
    /\ UNCHANGED <<theForge, theBook, online, minute, sweep>>

-----------------------------------------------------------------------------
(* Time, the forge, its operators and an admin.                            *)

Longer(age) == IF age < AlarmAfter THEN age + 1 ELSE age

Aged(rows) == [k \in AlarmKeys |-> IF rows[k] = NoRow THEN NoRow
                                   ELSE [rows[k] EXCEPT !.age = Longer(@)]]

MinutePasses ==
  /\ book' = Aged(book)
  /\ minute' = [minute EXCEPT !.thread.rows = Aged(@)]
  /\ sweep' = [sweep EXCEPT !.thread.rows = Aged(@)]
  /\ forge' = [forge EXCEPT !.came = [j \in Jobs |-> IF forge.jobs[j] = "to come" THEN 0
                                                     ELSE Longer(@[j])]]
  /\ notices' = [n \in 1 .. Len(notices) |-> [notices[n] EXCEPT !.waits = FALSE]]
  /\ UNCHANGED <<planned, forgeChanges, lock, standing, online, alarmFaults>>

ForgeChanges ==
  /\ forgeChanges < MaxForgeChanges /\ forgeChanges' = forgeChanges + 1
  /\ \/ \E r \in AlarmRunners, state \in {"gone", "offline", "online"} :
          forge' = [forge EXCEPT !.runners[r] = state] /\ UNCHANGED planned
     \/ \E j \in Jobs :
          /\ forge.jobs[j] # "left"
          /\ forge' = [forge EXCEPT !.jobs[j] = IF @ = "queued" THEN "left" ELSE "queued"]
          /\ UNCHANGED planned
     \/ forge' = [forge EXCEPT !.readable = ~@] /\ UNCHANGED planned
     \/ \E r \in Expected :
          /\ planned' = IF r \in planned THEN planned \ {r} ELSE planned \cup {r}
          /\ UNCHANGED forge
  /\ UNCHANGED <<theBook, notices, online, minute, sweep, alarmFaults>>

\* What of it is still to be sent is not: README, "Other disagreements".
AcknowledgeAlarm ==
  \E k \in AlarmKeys :
    /\ book[k] # NoRow /\ ~book[k].acked /\ BookIsFree
    /\ forgeChanges < MaxForgeChanges /\ forgeChanges' = forgeChanges + 1
    /\ book' = [book EXCEPT ![k].acked = TRUE]
    /\ notices' = SelectSeq([n \in 1 .. Len(notices) |->
                    IF notices[n].notice.key = k THEN [notices[n] EXCEPT !.state = "skipped"]
                    ELSE notices[n]], ToKeep)
    /\ UNCHANGED <<forge, planned, lock, standing, online, minute, sweep, alarmFaults>>

\* The dashboard restarts: a transaction that is open is rolled back.
Restart ==
  /\ AlarmFault
  /\ minute' = IdleMinute /\ sweep' = IdleSweep /\ online' = Unknown
  /\ lock' = "free"
  /\ notices' = SelectSeq([n \in 1 .. Len(notices) |-> [notices[n] EXCEPT !.held = FALSE]], ToKeep)
  /\ UNCHANGED <<theForge, book, standing>>

AlarmsNext ==
  \/ MinuteStep \/ SweepStep \/ BeginDelivery \/ SendNext
  \/ MinutePasses \/ ForgeChanges \/ AcknowledgeAlarm \/ Restart

\* The three threads never stop, time goes on, and a thread that sleeps for a
\* minute between two passes leaves the book to the other.
AlarmsFairness ==
  /\ WF_alarmVars(MinuteStep) /\ WF_alarmVars(SweepStep)
  /\ SF_alarmVars(OpenForRunners \/ OpenForJobs)
  /\ SF_alarmVars(OpenForReader \/ OpenForQueue)
  /\ WF_alarmVars(BeginDelivery) /\ WF_alarmVars(SendNext) /\ WF_alarmVars(MinutePasses)

AlarmsSpec == AlarmsInit /\ [][AlarmsNext]_alarmVars /\ AlarmsFairness

-----------------------------------------------------------------------------

\* "Two raises of one alarm would be two audit rows and two notifications"
\* (alarms.py, _WRITE): whichever thread finds that a condition has lasted, and
\* whatever the other is doing, it is recorded as raised once until it ends.
RaisedOnce == \A k \in AlarmKeys : standing[k] = IF book[k].raised THEN 1 ELSE 0

OfflineNow(r) == Seen(forge.runners, r) = "offline"
Waits(j) == /\ forge.jobs[j] = "queued"
            /\ \A r \in Takers : forge.runners[r] # "online"

\* What the forge shows is what the book says, a forge that cannot be read is
\* said, and no notice waits to be sent.
Settled ==
  /\ notices = <<>>
  /\ book["monitor"].raised = ~forge.readable
  /\ forge.readable =>
       /\ \A r \in AlarmRunners : IF OfflineNow(r) THEN book[r].raised ELSE book[r] = NoRow
       /\ \A j \in Jobs : IF Waits(j) THEN book[j].raised ELSE book[j] = NoRow
       /\ book["queue monitor"] = NoRow

\* "Raised once the condition has lasted its threshold, resolved when it ends"
\* (alarms.py), through restarts, limits of the forge and times it cannot be
\* read: once the forge no longer changes (it changes MaxForgeChanges times),
\* the book comes to say what it shows, and stays so.
AlarmsSettle == <>[]Settled
=============================================================================
