---------------------------- MODULE LimitRequests ----------------------------
(***************************************************************************)
(* Requests to give a runner limits of its own (control/service.py:        *)
(* _set_limits, _limits_repeat, _act), each an operation under its key     *)
(* (control/operations.py: open, by_key, _close), while the row of the     *)
(* runner is written by the passes as well (store/specs.py: update).       *)
(*                                                                         *)
(* A request is a thread of the dashboard that may be cut off anywhere.    *)
(* It saves the limits on the row and then asks for a rebuild, which will  *)
(* build the runner with what the row says.                                *)
(***************************************************************************)
EXTENDS Naturals, FiniteSets, Sequences

CONSTANTS
  Requesters,      \* threads that carry requests
  Keys,            \* idempotency keys; each stands for one change of limits
  MaxRowWrites,    \* bound: writes of the row by others
  MaxLimitFaults   \* bound: requests cut off, databases that fail

VARIABLES
  records,   \* the operations under a key, in the order they were inserted
  inFlight,  \* whether the row points at an operation that is open
  request,   \* of each thread: where it is, its key, whether it has read the row again
  current,   \* threads that have read the row as it is
  saved,     \* how often the limits of each key were saved on the row
  answers,   \* what was answered: pairs of a key and a state
  rowWrites, limitFaults

limitVars == <<records, inFlight, request, current, saved, answers, rowWrites, limitFaults>>

NONE == "none"
Quiet == [at |-> "idle", key |-> NONE, again |-> FALSE]

LimitTypeOK ==
  /\ records \in Seq([key : Keys, state : {"pending", "succeeded", "failed"}])
  /\ inFlight \in BOOLEAN /\ current \subseteq Requesters
  /\ request \in [Requesters ->
       [at : {"idle", "looked", "opened", "saved", "aiming", "deciding", "answering"},
        key : Keys \cup {NONE}, again : BOOLEAN]]
  /\ saved \in [Keys -> Nat] /\ answers \subseteq Keys \X {"pending", "succeeded", "failed"}
  /\ rowWrites \in 0 .. MaxRowWrites /\ limitFaults \in 0 .. MaxLimitFaults

LimitInit ==
  /\ records = <<>> /\ inFlight = FALSE
  /\ request = [c \in Requesters |-> Quiet] /\ current = {}
  /\ saved = [k \in Keys |-> 0] /\ answers = {}
  /\ rowWrites = 0 /\ limitFaults = 0

LimitFault == limitFaults < MaxLimitFaults /\ limitFaults' = limitFaults + 1

RecordsOf(k) == {i \in DOMAIN records : records[i].key = k}
StateOf(k) == IF RecordsOf(k) = {} THEN "new"
              ELSE records[CHOOSE i \in RecordsOf(k) : \A j \in RecordsOf(k) : i <= j].state

RequestStep(c, from, to) ==
  request[c].at = from /\ request' = [request EXCEPT ![c].at = to]

\* Whoever repeats a request is told how it stands: that it is being carried
\* out, why it failed, or what it came to.
Told(c, k) ==
  /\ answers' = answers \cup {<<k, StateOf(k)>>}
  /\ request' = [request EXCEPT ![c] = Quiet]

-----------------------------------------------------------------------------

\* The row is read, then the key; a key that was seen is answered for.
Look(c, k) ==
  /\ request[c] = Quiet /\ RecordsOf(k) = {}
  /\ request' = [request EXCEPT ![c] = [Quiet EXCEPT !.at = "looked", !.key = k]]
  /\ current' = current \cup {c}
  /\ UNCHANGED <<records, inFlight, saved, answers, rowWrites, limitFaults>>

Repeat(c, k) ==
  /\ request[c] = Quiet /\ RecordsOf(k) # {}
  /\ Told(c, k)
  /\ UNCHANGED <<records, inFlight, current, saved, rowWrites, limitFaults>>

\* Mutant: check, then insert.
InsertAnyway(k) == TRUE

\* The key is unique in the database, whatever was seen before.
MayInsert(k) == RecordsOf(k) = {}

Open(c) ==
  LET k == request[c].key IN
  /\ MayInsert(k) /\ RequestStep(c, "looked", "opened")
  /\ records' = Append(records, [key |-> k, state |-> "pending"])
  /\ UNCHANGED <<inFlight, current, saved, answers, rowWrites, limitFaults>>

FindOpened(c) ==
  /\ request[c].at = "looked" /\ ~MayInsert(request[c].key)
  /\ Told(c, request[c].key)
  /\ UNCHANGED <<records, inFlight, current, saved, rowWrites, limitFaults>>

\* A write of the row counts only against the version that was read.
Save(c) ==
  /\ c \in current /\ RequestStep(c, "opened", "saved")
  /\ current' = {}
  /\ saved' = [saved EXCEPT ![request[c].key] = @ + 1]
  /\ UNCHANGED <<records, inFlight, answers, rowWrites, limitFaults>>

\* A row that moved on is read again, once ...
SaveAgain(c) ==
  /\ request[c].at = "opened" /\ c \notin current /\ ~request[c].again
  /\ request' = [request EXCEPT ![c].again = TRUE]
  /\ current' = current \cup {c}
  /\ UNCHANGED <<records, inFlight, saved, answers, rowWrites, limitFaults>>

\* An operation that was decided keeps its outcome.
Closed(k, state) ==
  [i \in DOMAIN records |->
     IF i \in RecordsOf(k) /\ records[i].state = "pending" THEN [records[i] EXCEPT !.state = state]
     ELSE records[i]]

FailRequest(c, at) ==
  /\ RequestStep(c, at, "answering")
  /\ records' = Closed(request[c].key, "failed")
  /\ UNCHANGED <<inFlight, current, saved, answers, rowWrites>>

\* ... and refused when it moved on again.
Refuse(c) ==
  /\ c \notin current /\ request[c].again
  /\ FailRequest(c, "opened")
  /\ UNCHANGED limitFaults

\* What was read again no longer holds these limits, or the database fails.
Break(c) ==
  /\ LimitFault
  /\ FailRequest(c, request[c].at) /\ request[c].at \in {"opened", "saved", "aiming"}

\* A rebuild is asked for: the row is read, and nothing is asked while an
\* operation is in flight ...
Aim(c) ==
  /\ RequestStep(c, "saved", IF inFlight THEN "deciding" ELSE "aiming")
  /\ current' = current \cup {c}
  /\ UNCHANGED <<records, inFlight, saved, answers, rowWrites, limitFaults>>

\* ... or when the row moved on since: the limits wait for another one.
Queue(c) ==
  /\ RequestStep(c, "aiming", "deciding")
  /\ IF c \in current THEN inFlight' = TRUE /\ current' = {}
                      ELSE UNCHANGED <<inFlight, current>>
  /\ UNCHANGED <<records, saved, answers, rowWrites, limitFaults>>

Succeed(c) ==
  /\ RequestStep(c, "deciding", "answering")
  /\ records' = Closed(request[c].key, "succeeded")
  /\ UNCHANGED <<inFlight, current, saved, answers, rowWrites, limitFaults>>

Answer(c) ==
  /\ request[c].at = "answering" /\ Told(c, request[c].key)
  /\ UNCHANGED <<records, inFlight, current, saved, rowWrites, limitFaults>>

\* A request is cut off.
CutOff(c) ==
  /\ request[c] # Quiet /\ LimitFault
  /\ request' = [request EXCEPT ![c] = Quiet]
  /\ UNCHANGED <<records, inFlight, current, saved, answers, rowWrites>>

\* The row is written by a pass, or by another request, which may begin an
\* operation or end one.
WriteRow ==
  /\ rowWrites < MaxRowWrites /\ rowWrites' = rowWrites + 1
  /\ inFlight' \in BOOLEAN /\ current' = {}
  /\ UNCHANGED <<records, request, saved, answers, limitFaults>>

LimitNext ==
  \/ \E c \in Requesters :
       \/ \E k \in Keys : Look(c, k) \/ Repeat(c, k)
       \/ Open(c) \/ FindOpened(c) \/ Save(c) \/ SaveAgain(c) \/ Refuse(c) \/ Break(c)
       \/ Aim(c) \/ Queue(c) \/ Succeed(c) \/ Answer(c) \/ CutOff(c)
  \/ WriteRow

LimitSpec == LimitInit /\ [][LimitNext]_limitVars

-----------------------------------------------------------------------------

AsAnswered(state) == IF state = "pending" THEN "open" ELSE state

Outcomes == INSTANCE RequestOutcomes WITH
  fate <- [k \in Keys |-> AsAnswered(StateOf(k))],
  took <- saved,
  told <- {<<a[1], AsAnswered(a[2])>> : a \in answers}

\* "A retry is safe" (operations.py): seen from those who ask, a request is
\* one operation that saves its limits once at most, comes to one outcome for
\* good, succeeds only when its limits were saved, and is told as it stands to
\* everyone who repeats it.
RetryIsSafe == Outcomes!OutcomesSpec
=============================================================================
