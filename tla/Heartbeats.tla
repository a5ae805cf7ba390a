----------------------------- MODULE Heartbeats -----------------------------
(***************************************************************************)
(* What the controller knows of a worker and of a unit on it               *)
(* (agent/heartbeat.py, agent/link.py, control/receiver.py,                *)
(* control/inventory.py).                                                  *)
(*                                                                         *)
(* One thread of the agent measures, which may take for ever; another      *)
(* sends a beat at every interval, with the last measurement while that    *)
(* is fresh and without one otherwise.  The controller dates what it is    *)
(* told when it arrives, and works out a worker's health from the age of   *)
(* the last beat whenever it is asked.                                     *)
(*                                                                         *)
(* Time is counted in heartbeat intervals, and kept as ages: Tick makes    *)
(* everything one interval older.  It waits for the sender, whose waits    *)
(* are timed, and for beats, which arrive or are lost in time; it does not *)
(* wait for a measurement.  A unit's state is known by its age alone: the  *)
(* time since the unit was in that state.                                  *)
(***************************************************************************)
EXTENDS Naturals, FiniteSets

CONSTANTS
  MaxTransit,    \* how long a beat may be on its way, in intervals
  MaxBeatFaults  \* bound: lost beats, failed measurements, restarts

INTERVAL == 1                 \* ten seconds
POST_TIMEOUT == 2 * INTERVAL
STALE_AFTER == 3 * INTERVAL
WINDOW == 3 * INTERVAL        \* HEARTBEAT_SECONDS * MISSED_BEATS_BEFORE_DEGRADED

\* A beat that is on its way for longer than its sender waits is one that was lost.
ASSUME BeatsAssumption == MaxTransit \in 0 .. POST_TIMEOUT /\ MaxBeatFaults \in Nat

VARIABLES
  measuring,   \* the measurement under way
  measured,    \* the last measurement that finished
  sampleReady, \* whether one finished since the sender last looked
  sender,      \* the sending thread: how long it has waited, or has posted
  speaks,      \* whether the agent speaks the controller's protocol
  beats,       \* beats on their way
  workerRow,   \* the age of the last beat; whether the worker is marked degraded
  unitRow,     \* the ages of the last report of the unit and of what it says
  unheard,     \* history: beats in a row the controller did not take
  beatFaults

beatVars == <<measuring, measured, sampleReady, sender, speaks, beats,
              workerRow, unitRow, unheard, beatFaults>>

\* The age up to which a state on record may count as current.  Beyond the
\* last limit it is compared with, an age is not counted on.
Oldest == STALE_AFTER + MaxTransit + WINDOW
Never == Oldest + 2
Ages == 0 .. Never
Older(age, limit) == IF age <= limit THEN age + 1 ELSE age

\* A measurement: how long ago it began, and how old the state of the unit is
\* that it read, Never if it read none.
NoMeasurement == [since |-> Never, unit |-> Never]
Measurements == [since : Ages, unit : Ages]
Aged(m) == [since |-> Older(m.since, STALE_AFTER), unit |-> Older(m.unit, Oldest)]

\* A beat: its age, the state of the unit it carries, whether the controller
\* takes it, and whether its sender still waits for the answer.
Beats == [age : 0 .. MaxTransit, unit : Ages, ok : BOOLEAN, inHand : BOOLEAN]
OlderBeat(b) == [age |-> b.age + 1, unit |-> Older(b.unit, Oldest),
                 ok |-> b.ok, inHand |-> b.inHand]
LetGo(b) == [age |-> b.age, unit |-> b.unit, ok |-> b.ok, inHand |-> FALSE]

BeatsTypeOK ==
  /\ measuring \in Measurements /\ measured \in Measurements
  /\ sampleReady \in BOOLEAN
  /\ sender \in [pc : {"waits", "posts"}, for : 0 .. POST_TIMEOUT]
  /\ speaks \in BOOLEAN
  /\ beats \subseteq Beats
  /\ workerRow \in [seen : Ages, marked : BOOLEAN]
  /\ unitRow \in [seen : Ages, unit : Ages]
  /\ unheard \in 0 .. MaxBeatFaults /\ beatFaults \in 0 .. MaxBeatFaults

BeatsInit ==
  /\ measuring = NoMeasurement /\ measured = NoMeasurement
  /\ sampleReady = FALSE
  /\ sender = [pc |-> "waits", for |-> INTERVAL]
  /\ speaks = TRUE /\ beats = {}
  /\ workerRow = [seen |-> Never, marked |-> FALSE]
  /\ unitRow = [seen |-> Never, unit |-> Never]
  /\ unheard = 0 /\ beatFaults = 0

BeatFault == beatFaults < MaxBeatFaults /\ beatFaults' = beatFaults + 1

-----------------------------------------------------------------------------
(* The agent.                                                              *)

\* A measurement begins an interval after the last one began.
BeginMeasuring ==
  /\ measuring = NoMeasurement /\ measured.since >= INTERVAL
  /\ measuring' = [since |-> 0, unit |-> Never]
  /\ UNCHANGED <<measured, sampleReady, sender, speaks, beats, workerRow,
                 unitRow, unheard, beatFaults>>

ReadUnits ==
  /\ measuring # NoMeasurement /\ measuring.unit = Never
  /\ measuring' = [measuring EXCEPT !.unit = 0]
  /\ UNCHANGED <<measured, sampleReady, sender, speaks, beats, workerRow,
                 unitRow, unheard, beatFaults>>

\* Mutant: a measurement is dated when it finishes.
MeasureDatedLate ==
  /\ measuring # NoMeasurement
  /\ IF measuring.unit = Never THEN BeatFault ELSE UNCHANGED beatFaults
  /\ measured' = [measuring EXCEPT !.since = 0]
  /\ measuring' = NoMeasurement /\ sampleReady' = TRUE
  /\ UNCHANGED <<sender, speaks, beats, workerRow, unitRow>> /\ unheard' = unheard

\* Its age is counted from its beginning.  One that could not list the units
\* says nothing of them.
MeasureOnce ==
  /\ measuring # NoMeasurement
  /\ IF measuring.unit = Never THEN BeatFault ELSE UNCHANGED beatFaults
  /\ measured' = measuring
  /\ measuring' = NoMeasurement /\ sampleReady' = TRUE
  /\ UNCHANGED <<sender, speaks, beats, workerRow, unitRow, unheard>>

\* The state of the unit that the next beat carries.
Payload == IF measured.since <= STALE_AFTER THEN measured.unit ELSE Never

\* Mutant: a beat waits for the measurement under way.
SendMeasured ==
  sender.pc = "waits" /\ sender.for >= INTERVAL /\ measuring = NoMeasurement

SendDue == sender.pc = "waits" /\ sender.for >= INTERVAL

\* The next beat goes an interval after the last, or with a new measurement.
SendBeat ==
  /\ SendDue \/ (sender.pc = "waits" /\ sampleReady)
  /\ sampleReady' = FALSE
  /\ sender' = [pc |-> "posts", for |-> 0]
  /\ beats' = {LetGo(b) : b \in beats}
              \cup {[age |-> 0, unit |-> Payload, ok |-> speaks, inHand |-> TRUE]}
  /\ UNCHANGED <<measuring, measured, speaks, workerRow, unitRow, unheard, beatFaults>>

Posted == sender' = [pc |-> "waits", for |-> 0]

GiveUpDue == sender.pc = "posts" /\ sender.for >= POST_TIMEOUT

GiveUpPost ==
  /\ GiveUpDue
  /\ Posted
  /\ beats' = {LetGo(b) : b \in beats}
  /\ UNCHANGED <<measuring, measured, sampleReady, speaks, workerRow, unitRow,
                 unheard, beatFaults>>

\* The agent comes back, perhaps with another version of itself.
AgentComesBack ==
  /\ BeatFault
  /\ measuring' = NoMeasurement /\ measured' = NoMeasurement
  /\ sampleReady' = FALSE
  /\ sender' = [pc |-> "waits", for |-> INTERVAL]
  /\ speaks' \in BOOLEAN
  /\ beats' = {LetGo(b) : b \in beats}
  /\ UNCHANGED <<workerRow, unitRow, unheard>>

-----------------------------------------------------------------------------
(* The controller.                                                         *)

\* A beat that passes every check makes the worker healthy, and its units are
\* recorded as of this moment; a unit it does not mention is left alone.
Taken(b) ==
  /\ workerRow' = [seen |-> 0, marked |-> FALSE]
  /\ unitRow' = IF b.unit = Never THEN unitRow ELSE [seen |-> 0, unit |-> b.unit]
  /\ unheard' = 0

\* One in another protocol marks the worker, and is read no further.
Mismatched(b) ==
  /\ workerRow' = [workerRow EXCEPT !.marked = TRUE]
  /\ UNCHANGED <<unitRow, unheard>>

Receive(b) ==
  /\ IF b.ok THEN Taken(b) ELSE Mismatched(b)
  /\ beats' = beats \ {b}
  /\ IF b.inHand THEN Posted ELSE UNCHANGED sender
  /\ UNCHANGED <<measuring, measured, sampleReady, speaks, beatFaults>>

\* A beat is lost: the sender hears so at once, or waits for its timeout.
LoseBeat(b) ==
  /\ BeatFault
  /\ beats' = beats \ {b} /\ unheard' = unheard + 1
  /\ (b.inHand /\ Posted) \/ UNCHANGED sender
  /\ UNCHANGED <<measuring, measured, sampleReady, speaks, workerRow, unitRow>>

HealthOf ==
  CASE workerRow.marked         -> "degraded"
    [] ~workerRow.marked /\ workerRow.seen = Never   -> "unknown"
    [] ~workerRow.marked /\ workerRow.seen <= WINDOW -> "healthy"
    [] OTHER -> "degraded"

\* What is shown of a unit counts while it was reported within the window.
Current == unitRow.seen <= WINDOW

-----------------------------------------------------------------------------

Tick ==
  /\ ~SendDue /\ ~GiveUpDue
  /\ \A b \in beats : b.age < MaxTransit
  /\ measuring' = Aged(measuring) /\ measured' = Aged(measured)
  /\ sender' = [sender EXCEPT !.for = @ + 1]
  /\ beats' = {OlderBeat(b) : b \in beats}
  /\ workerRow' = [workerRow EXCEPT !.seen = Older(@, WINDOW)]
  /\ unitRow' = [seen |-> Older(unitRow.seen, WINDOW),
                 unit |-> Older(unitRow.unit, Oldest)]
  /\ UNCHANGED <<sampleReady, speaks, unheard, beatFaults>>

BeatsNext ==
  \/ BeginMeasuring \/ ReadUnits \/ MeasureOnce
  \/ SendBeat \/ GiveUpPost \/ AgentComesBack
  \/ \E b \in beats : Receive(b) \/ LoseBeat(b)
  \/ Tick

BeatsSpec == BeatsInit /\ [][BeatsNext]_beatVars

-----------------------------------------------------------------------------

\* "Sent while the agent is still measuring: it says the worker is here"
\* (heartbeat.py, minimal): however long a measurement takes, a worker whose
\* beats arrive is never taken for one that is gone.
HealthyWhileBeating ==
  beatFaults = 0 /\ workerRow.seen # Never => HealthOf = "healthy"

\* "A slow collection is never freshened merely by finishing or by another
\* heartbeat being sent" (heartbeat.py, measure_once): a state that counts as
\* current was the unit's no longer ago than a measurement may be old when it
\* is sent, plus a beat on its way, plus the window.
EvidenceIsRecent == Current => unitRow.unit <= Oldest

\* What the inventory says of a worker and of its units is true: a measurement
\* that takes for ever neither silences the beats nor travels as a fresh one.
InventoryIsTrue == HealthyWhileBeating /\ EvidenceIsRecent

\* "Three missed beats and the controller marks the worker degraded"
\* (heartbeat.py).
DegradedAfterThree ==
  unheard < 3 /\ speaks /\ ~workerRow.marked /\ workerRow.seen # Never
    => HealthOf = "healthy"
=============================================================================
