----------------------------- MODULE JobSources -----------------------------
(***************************************************************************)
(* How an agent learns of the jobs of one of its runners                   *)
(* (agent/job_events.py, agent/job_event_stream.py).                       *)
(*                                                                         *)
(* The runner's hooks leave one file per event in its spool.  A source, a  *)
(* thread of the agent, watches that directory, copies every file into a   *)
(* durable outbox and only then deletes it.  The measuring thread of the   *)
(* heartbeat starts sources for the units it saw running and stops those   *)
(* of the others; a verb that works on the runner's storage pauses them.   *)
(* The last event recorded is the runner's job, until the unit is seen     *)
(* stopped; while its source is not known to have read everything the job  *)
(* is unknown.                                                             *)
(*                                                                         *)
(* Events are numbered in the order they happened: an odd one starts a     *)
(* job, the even one after it finishes that job.                           *)
(***************************************************************************)
EXTENDS Naturals, FiniteSets, FiniteSetsExt

CONSTANTS
  Sources,        \* bound: source threads that may be about at once
  Nobody,         \* no source
  Maintainers,    \* verbs at work on the runner's storage
  LastEvent,      \* bound: how many events the runner produces
  OutboxLimit,    \* how many events may wait for delivery
  MaxSourceFaults \* bound: restarts of the agent and errors of a source

ASSUME SourcesAssumption ==
  /\ IsFiniteSet(Maintainers) /\ Nobody \notin Sources
  /\ LastEvent \in Nat /\ OutboxLimit \in Nat /\ MaxSourceFaults \in Nat

VARIABLES
  unit,       \* whether the runner's unit runs
  produced,   \* the number of the last event produced
  spool,      \* events whose file is in the runner's spool
  outbox,     \* events recorded and not delivered
  delivered,  \* events delivered
  current,    \* the recorded job, an event, or 0
  since,      \* history: events recorded since the job was last forgotten
  source,     \* the threads
  registered, \* the source in use, or none
  paused,     \* how many verbs have paused the runner's source
  unknown,    \* the runner is among the failed sources
  reader,     \* the measuring thread, with what it saw and what it stops
  verb,       \* the verbs at work on the storage
  sourceFaults

sourceVars == <<unit, produced, spool, outbox, delivered, current, since,
                source, registered, paused, unknown, reader, verb, sourceFaults>>

Events == 1 .. LastEvent
recorded == outbox \cup delivered

\* A thread: where it is, whether it was told to stop, the events its scan
\* still has to see, the one in its hands, and whether its watch has fired.
Idle == [pc |-> "none", stop |-> FALSE, due |-> {}, event |-> 0, fired |-> FALSE]
Alive(s) == source[s].pc \notin {"none", "dead"}

SourcesTypeOK ==
  /\ unit \in {"running", "stopped"} /\ produced \in 0 .. LastEvent
  /\ spool \subseteq Events /\ outbox \subseteq Events /\ delivered \subseteq Events
  /\ current \in 0 .. LastEvent /\ since \subseteq Events
  /\ source \in [Sources -> [pc : {"none", "setup", "scan", "record", "ack",
                                   "wait", "backoff", "dead"},
                             stop : BOOLEAN, due : SUBSET Events,
                             event : 0 .. LastEvent, fired : BOOLEAN]]
  /\ registered \in Sources \cup {Nobody}
  /\ paused \in 0 .. Cardinality(Maintainers) /\ unknown \in BOOLEAN
  /\ reader \in [pc : {"idle", "saw", "joins"}, saw : {"running", "stopped"},
                 joins : Sources \cup {Nobody}]
  /\ verb \in [Maintainers -> [pc : {"idle", "joins", "works", "over"},
                               joins : Sources \cup {Nobody}]]
  /\ sourceFaults \in 0 .. MaxSourceFaults

NotReading == [pc |-> "idle", saw |-> "stopped", joins |-> Nobody]

SourcesInit ==
  /\ unit = "running" /\ produced = 0 /\ spool = {}
  /\ outbox = {} /\ delivered = {} /\ current = 0 /\ since = {}
  /\ source = [s \in Sources |-> Idle] /\ registered = Nobody
  /\ paused = 0 /\ unknown = FALSE
  /\ reader = NotReading
  /\ verb = [m \in Maintainers |-> [pc |-> "idle", joins |-> Nobody]]
  /\ sourceFaults = 0

SourceFault ==
  sourceFaults < MaxSourceFaults /\ sourceFaults' = sourceFaults + 1

-----------------------------------------------------------------------------
(* The runner.                                                             *)

\* Every watch on the directory fires, for a file that comes or goes.
Fired == [s \in Sources |->
            [source[s] EXCEPT !.fired = @ \/ source[s].pc \in {"scan", "record", "ack", "wait"}]]

\* The runner's hook writes an event, whole, into the spool.
Produce ==
  /\ unit = "running" /\ produced < LastEvent
  /\ produced' = produced + 1
  /\ spool' = spool \cup {produced'}
  /\ source' = Fired
  /\ UNCHANGED <<unit, outbox, delivered, current, since, registered, paused,
                 unknown, reader, verb, sourceFaults>>

UnitStops ==
  /\ unit = "running"
  /\ SourceFault
  /\ unit' = "stopped"
  /\ UNCHANGED <<produced, spool, outbox, delivered, current, since, source,
                 registered, paused, unknown, reader, verb>>

UnitStarts ==
  /\ unit = "stopped"
  /\ unit' = "running"
  /\ UNCHANGED <<produced, spool, outbox, delivered, current, since, source,
                 registered, paused, unknown, reader, verb, sourceFaults>>

-----------------------------------------------------------------------------
(* A source.                                                               *)

Goes(s, pc) == source' = [source EXCEPT ![s].pc = pc]

\* It begins to read the spool, as it is now.
Scans(s) ==
  source' = [source EXCEPT ![s].pc = "scan", ![s].due = spool, ![s].fired = FALSE]

\* What a thread leaves alone, outbox and knowledge apart.
ThreadOnly == UNCHANGED <<unit, produced, registered, paused, reader, verb>>
BooksKept == UNCHANGED <<spool, outbox, delivered, current, since>>

\* The storage is verified and the watch put on the spool, before the first
\* read of it.  A source that was told to stop meanwhile gives its handles back.
Watch(s) ==
  /\ source[s].pc = "setup"
  /\ IF source[s].stop THEN Goes(s, "dead") ELSE Scans(s)
  /\ ThreadOnly /\ BooksKept /\ UNCHANGED <<unknown, sourceFaults>>

\* The scan comes to the next file, and the source looks once more whether it
\* was told to stop.  A file that appeared since the scan began may be seen or
\* not.
Read(s) ==
  /\ source[s].pc = "scan" /\ ~source[s].stop
  /\ \E e \in spool : source' = [source EXCEPT ![s].pc = "record", ![s].event = e,
                                               ![s].due = @ \ {e}]
  /\ ThreadOnly /\ BooksKept /\ UNCHANGED <<unknown, sourceFaults>>

\* Mutant: an event is acknowledged that the full outbox did not take.
RecordOrDrop(s) ==
  LET e == source[s].event
      room == Cardinality(outbox) < OutboxLimit IN
  /\ source[s].pc = "record"
  /\ IF e \in recorded \/ ~room
     THEN UNCHANGED <<outbox, current, since>>
     ELSE outbox' = outbox \cup {e} /\ current' = Max({e, current})
          /\ since' = since \cup {e}
  /\ Goes(s, "ack")
  /\ ThreadOnly /\ UNCHANGED <<spool, delivered, unknown, sourceFaults>>

\* An event is recorded once, unless too many wait for delivery.  It becomes
\* the runner's job unless a later one has.
Record(s) ==
  LET e == source[s].event IN
  /\ source[s].pc = "record"
  /\ e \in recorded \/ Cardinality(outbox) < OutboxLimit
  /\ IF e \in recorded
     THEN UNCHANGED <<outbox, current, since>>
     ELSE /\ outbox' = outbox \cup {e}
          /\ current' = IF e >= current THEN e ELSE current
          /\ since' = since \cup {e}
  /\ Goes(s, "ack")
  /\ ThreadOnly /\ UNCHANGED <<spool, delivered, unknown, sourceFaults>>

\* The file is deleted, which every watch on the directory notices.
Acknowledge(s) ==
  LET e == source[s].event IN
  /\ source[s].pc = "ack"
  /\ spool' = spool \ {e}
  /\ source' = [(IF e \in spool THEN Fired ELSE source) EXCEPT ![s].pc = "scan"]
  /\ ThreadOnly /\ UNCHANGED <<outbox, delivered, current, since, unknown, sourceFaults>>

\* The thread sets the runner's job unknown and tries again later, unless it
\* is no longer the runner's source or was told to stop.
Fails(s) ==
  /\ Goes(s, IF registered = s THEN "backoff" ELSE "dead")
  /\ unknown' = (unknown \/ registered = s)

\* Mutant: the job is known as soon as a source has read everything.
MarkReadyPaused(s) ==
  /\ source[s].pc = "scan" /\ ~source[s].stop
  /\ source[s].due \cap spool = {}
  /\ Goes(s, "wait") /\ unknown' = FALSE
  /\ ThreadOnly /\ BooksKept /\ UNCHANGED sourceFaults

\* All there was has been read: the job is known, if this is still the source
\* of a runner nobody has paused.
MarkReady(s) ==
  /\ source[s].pc = "scan" /\ ~source[s].stop
  /\ source[s].due \cap spool = {}
  /\ IF registered = s /\ paused = 0
     THEN Goes(s, "wait") /\ unknown' = FALSE
     ELSE Fails(s)
  /\ ThreadOnly /\ BooksKept /\ UNCHANGED sourceFaults

\* The outbox is full, or the watch or the disk fails: the event stays in the
\* spool.
SourceFails(s) ==
  /\ \/ /\ source[s].pc = "record" /\ source[s].event \notin recorded
        /\ Cardinality(outbox) >= OutboxLimit
        /\ UNCHANGED sourceFaults
     \/ source[s].pc \in {"setup", "scan", "record", "ack", "wait"} /\ SourceFault
  /\ Fails(s)
  /\ ThreadOnly /\ BooksKept

Wake(s) ==
  /\ source[s].pc = "wait" /\ source[s].fired /\ ~source[s].stop
  /\ Scans(s)
  /\ ThreadOnly /\ BooksKept /\ UNCHANGED <<unknown, sourceFaults>>

Retry(s) ==
  /\ source[s].pc = "backoff" /\ ~source[s].stop
  /\ Goes(s, "setup")
  /\ ThreadOnly /\ BooksKept /\ UNCHANGED <<unknown, sourceFaults>>

\* A thread that was told to stop ends where it next looks.
ThreadEnds(s) ==
  /\ source[s].stop /\ source[s].pc \in {"scan", "wait", "backoff"}
  /\ Goes(s, "dead")
  /\ ThreadOnly /\ BooksKept /\ UNCHANGED <<unknown, sourceFaults>>

Deliver ==
  /\ outbox # {}
  /\ \E e \in outbox : outbox' = outbox \ {e} /\ delivered' = delivered \cup {e}
  /\ UNCHANGED <<unit, produced, spool, current, since, source, registered,
                 paused, unknown, reader, verb, sourceFaults>>

-----------------------------------------------------------------------------
(* The measuring thread of the heartbeat.                                  *)

Observe ==
  /\ reader.pc = "idle"
  /\ reader' = [reader EXCEPT !.pc = "saw", !.saw = unit]
  /\ UNCHANGED <<unit, produced, spool, outbox, delivered, current, since,
                 source, registered, paused, unknown, verb, sourceFaults>>

\* Mutant: a source is taken to live for as long as it is registered.
LiveWhileRegistered == registered # Nobody

Live == registered # Nobody /\ Alive(registered)

\* The runner's source is taken out.
TakenOut ==
  /\ registered # Nobody /\ paused = 0
  /\ reader.saw = "stopped" \/ ~Live

\* The runner is given a new one.
GivenOne ==
  reader.saw = "running" /\ paused = 0 /\ (TakenOut \/ registered = Nobody)

\* Under the lock: the source of a unit that is not up, or one that ended, is
\* taken out, unless a verb has paused it; a unit that is up and has none is
\* given one; the job of a stopped unit is forgotten.
Reconcile ==
  /\ reader.pc = "saw"
  /\ IF GivenOne
     THEN \E s \in Sources :
            /\ ~Alive(s) /\ s # registered
            /\ registered' = s
            /\ source' = [source EXCEPT ![s] = [Idle EXCEPT !.pc = "setup"]]
            /\ unknown' = TRUE
     ELSE /\ registered' = IF TakenOut THEN Nobody ELSE registered
          /\ source' = source
          /\ unknown' = unknown
  /\ IF reader.saw = "stopped"
     THEN current' = 0 /\ since' = {}
     ELSE UNCHANGED <<current, since>>
  /\ reader' = IF TakenOut THEN [reader EXCEPT !.pc = "joins", !.joins = registered]
               ELSE NotReading
  /\ UNCHANGED <<unit, produced, spool, outbox, delivered, paused, verb, sourceFaults>>

\* Told outside the lock.
Tells(s) == s # Nobody /\ ~source[s].stop /\ source' = [source EXCEPT ![s].stop = TRUE]

StopTaken ==
  /\ reader.pc = "joins" /\ Tells(reader.joins)
  /\ UNCHANGED <<unit, produced, spool, outbox, delivered, current, since,
                 registered, paused, unknown, reader, verb, sourceFaults>>

\* The source that was taken out has ended, or is left to.
Joined ==
  /\ reader.pc = "joins"
  /\ ~Alive(reader.joins) \/ source[reader.joins].stop
  /\ reader' = NotReading
  /\ UNCHANGED <<unit, produced, spool, outbox, delivered, current, since,
                 source, registered, paused, unknown, verb, sourceFaults>>

-----------------------------------------------------------------------------
(* A verb at work on the runner's storage.                                 *)

Turn(m, pc, s) == verb' = [verb EXCEPT ![m] = [pc |-> pc, joins |-> s]]

\* Pausing marks the job unknown, under the lock, and then tells the source to
\* stop.
Pause(m) ==
  /\ verb[m].pc = "idle"
  /\ paused' = paused + 1 /\ unknown' = TRUE
  /\ Turn(m, IF registered = Nobody THEN "works" ELSE "joins", registered)
  /\ UNCHANGED <<unit, registered, produced, source, reader, sourceFaults>> /\ BooksKept

StopPaused(m) ==
  /\ verb[m].pc = "joins" /\ Tells(verb[m].joins)
  /\ UNCHANGED <<unit, produced, registered, paused, unknown, reader, verb,
                 sourceFaults>> /\ BooksKept

\* The source has ended: the work begins.
Paused(m) ==
  /\ verb[m].pc = "joins" /\ ~Alive(verb[m].joins)
  /\ registered' = IF registered = verb[m].joins THEN Nobody ELSE registered
  /\ Turn(m, "works", Nobody)
  /\ UNCHANGED <<unit, produced, source, paused, unknown, reader, sourceFaults>> /\ BooksKept

Unpause(m) ==
  /\ paused' = paused - 1
  /\ Turn(m, "over", Nobody)
  /\ UNCHANGED <<produced, source, registered, unknown, reader>> /\ BooksKept

\* The source did not end in time: the work is not done.
Held(m) ==
  /\ verb[m].pc = "joins" /\ Alive(verb[m].joins) /\ source[verb[m].joins].stop
  /\ SourceFault
  /\ Unpause(m) /\ unit' = unit

\* The work ends; the unit is left up or down.
Worked(m) ==
  /\ verb[m].pc = "works"
  /\ Unpause(m)
  /\ unit' \in {"running", "stopped"}
  /\ UNCHANGED sourceFaults

\* The agent restarts: what it had in memory is gone.
AgentCrash ==
  /\ SourceFault
  /\ source' = [s \in Sources |-> Idle] /\ registered' = Nobody
  /\ paused' = 0 /\ unknown' = FALSE
  /\ reader' = NotReading
  /\ verb' = [m \in Maintainers |->
                IF verb[m].pc = "idle" THEN verb[m] ELSE [pc |-> "over", joins |-> Nobody]]
  /\ UNCHANGED <<unit, produced>> /\ BooksKept

-----------------------------------------------------------------------------

ThreadStep(s) ==
  \/ Watch(s) \/ Read(s) \/ Record(s) \/ Acknowledge(s) \/ MarkReady(s)
  \/ SourceFails(s) \/ Wake(s) \/ Retry(s) \/ ThreadEnds(s)

HeartbeatStep == Observe \/ Reconcile \/ StopTaken \/ Joined
VerbStep(m) == Pause(m) \/ StopPaused(m) \/ Paused(m) \/ Held(m) \/ Worked(m)

SourcesNext ==
  \/ Produce \/ UnitStops \/ UnitStarts
  \/ \E s \in Sources : ThreadStep(s)
  \/ Deliver
  \/ HeartbeatStep
  \/ \E m \in Maintainers : VerbStep(m)
  \/ AgentCrash

\* The agent's threads run, and so does delivery; verbs come to their end.
SourcesFairness ==
  /\ \A s \in Sources : WF_sourceVars(ThreadStep(s))
  /\ WF_sourceVars(Deliver) /\ WF_sourceVars(HeartbeatStep)
  /\ \A m \in Maintainers : WF_sourceVars(StopPaused(m) \/ Paused(m) \/ Worked(m))

SourcesSpec == SourcesInit /\ [][SourcesNext]_sourceVars /\ SourcesFairness

-----------------------------------------------------------------------------

\* "Delete only the same immutable event after its durable copy"
\* (job_event_stream.py): whatever fails or restarts in between, every event a
\* runner produced is in its spool or in the outbox; and though files are read
\* in any order, and again after a failure, the recorded job is the last of the
\* events recorded since the unit was last seen stopped.
NoEventIsLost ==
  /\ 1 .. produced \subseteq spool \cup recorded
  /\ current = Max(since \cup {0})

\* "A pause marks the cached job unknown" and "late readiness must not clear
\* that mark" (job_events.py): while a verb works on the runner's storage its
\* job is unknown, whichever threads are still ending.
UnknownWhilePaused ==
  \A m \in Maintainers : verb[m].pc \in {"joins", "works"} => unknown

\* Both of a runner's events and of what the controller is told of its job.
EventsAreKept == NoEventIsLost /\ UnknownWhilePaused

\* While its runner is up, every event it produces is recorded.
EventIsRecorded ==
  \A e \in Events : (produced >= e) ~> (e \in recorded \/ unit = "stopped")

\* "Storage maintenance first cancels the owned watcher and waits ... for its
\* thread to finish" (native-job-events.md): no source has the runner's spool
\* open while a verb works on its storage.
MaintenanceWaits ==
  (\E m \in Maintainers : verb[m].pc = "works") =>
    \A s \in Sources : source[s].pc \notin {"setup", "scan", "record", "ack", "wait"}
=============================================================================
