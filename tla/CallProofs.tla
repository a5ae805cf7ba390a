------------------------------ MODULE CallProofs ------------------------------
(***************************************************************************)
(* Proofs about what goes on between the controller and a worker: the      *)
(* calls of verbs (AgentCalls), the heartbeats (Heartbeats) and what the   *)
(* deep passes of an agent say (GuardReports, CacheReadings); and about    *)
(* the hooks that a unit runs around its jobs (JobHooks).                  *)
(***************************************************************************)
EXTENDS AgentCalls, Heartbeats, JobHooks, CacheReadings, TLAPS

(* The calls.                                                              *)

THREADS == {"idle", "new", "waits", "over"}
ANSWERS == {"none", "sent", "held", "succeeded", "failed"}
STATES == {"none", "running", "succeeded", "failed"}

LEMMA CallsInitTypes == CallsInit => CallsTypeOK
<1> SUFFICES ASSUME CallsInit PROVE CallsTypeOK
  OBVIOUS
<1>1. worker \in [healthy : BOOLEAN, permitted : BOOLEAN, serves : BOOLEAN]
  BY DEF CallsInit
<1>2. callFaults \in 0 .. MaxCallFaults
  BY CallsAssumption DEF CallsInit
<1>3. works \in [Calls -> Nat] /\ ended \in [Calls -> SUBSET {"succeeded", "failed"}]
  BY DEF CallsInit
<1> QED BY <1>1, <1>2, <1>3 DEF CallsInit, CallsTypeOK

\* How a thread ends.
LEMMA EndsTypes ==
  ASSUME CallsTypeOK, NEW c \in Calls, NEW outcome \in OUTCOMES, Ends(c, outcome)
  PROVE  /\ thread' \in [Calls -> THREADS]
         /\ told' \in [Calls -> {"nothing"} \cup OUTCOMES]
BY DEF Ends, CallsTypeOK, THREADS

\* What the agent does with a request that it lets through: with one key only,
\* and none that is at work is forgotten.
LEMMA CarryEffect ==
  ASSUME CallsTypeOK, NEW c \in Calls, Carry(c)
  PROVE  /\ memory' \subseteq Calls /\ elders' \in [Calls -> SUBSET Calls]
         /\ carried' \in [Calls -> STATES] /\ works' \in [Calls -> Nat]
         /\ started' \subseteq Calls /\ ended' = ended
         /\ c \in memory => UNCHANGED agentVars
         /\ c \notin memory =>
              \E gone \in SUBSET memory :
                /\ \A k \in gone : carried[k] # "running" /\ k # c
                /\ memory' = (memory \cup {c}) \ gone
                /\ carried' = [k \in Calls |-> IF k \in gone THEN "none"
                                 ELSE IF k = c THEN "running" ELSE carried[k]]
                /\ works' = [works EXCEPT ![c] = @ + 1]
<1> USE DEF CallsTypeOK, STATES
<1>1. CASE c \in memory
  BY <1>1 DEF Carry, agentVars
<1>2. CASE c \notin memory
  <2> DEFINE keys == memory \cup {c}
             older == [elders EXCEPT ![c] = memory]
             states == [carried EXCEPT ![c] = "running"]
             gone == Forgotten(keys, older, states)
  <2>1. /\ memory' = keys \ gone
        /\ elders' = [k \in Calls |-> IF k \in gone THEN {} ELSE older[k] \ gone]
        /\ carried' = [k \in Calls |-> IF k \in gone THEN "none" ELSE states[k]]
        /\ works' = [works EXCEPT ![c] = @ + 1]
        /\ started' = started \cup {c}
        /\ ended' = ended
    BY <1>2 DEF Carry
  <2>2. \A k \in gone : k \in keys /\ states[k] # "running"
    BY DEF Forgotten
  <2>3. gone \in SUBSET memory /\ \A k \in gone : carried[k] # "running" /\ k # c
    BY <2>2
  <2>4. older \in [Calls -> SUBSET Calls]
    OBVIOUS
  <2> HIDE DEF gone, older
  <2>5. elders' \in [Calls -> SUBSET Calls]
    BY <2>1, <2>4
  <2>6. carried' = [k \in Calls |-> IF k \in gone THEN "none"
                                    ELSE IF k = c THEN "running" ELSE carried[k]]
    BY <2>1
  <2>7. carried' \in [Calls -> STATES]
    BY <2>6
  <2>8. works' \in [Calls -> Nat] /\ started' \subseteq Calls /\ memory' \subseteq Calls
    BY <2>1, <2>3
  <2> QED BY <1>2, <2>1, <2>3, <2>5, <2>6, <2>7, <2>8
<1> QED BY <1>1, <1>2

LEMMA CallsTypesKept ==
  ASSUME CallsTypeOK, [CallsNext]_callVars
  PROVE  CallsTypeOK'
<1> USE DEF CallsTypeOK, agentVars
<1>0. ASSUME CallFault
      PROVE  callFaults' \in 0 .. MaxCallFaults
  BY <1>0, CallsAssumption DEF CallFault
<1>1. ASSUME NEW c \in Calls, MakeCall(c)
      PROVE  CallsTypeOK'
  BY <1>1 DEF MakeCall
<1>2. ASSUME NEW c \in Calls, Release(c)
      PROVE  CallsTypeOK'
  BY <1>2 DEF Release, OUTCOMES
<1>3. ASSUME NEW c \in Calls, CallStep(c)
      PROVE  CallsTypeOK'
  <2>1. CASE Ask(c)
    BY <2>1 DEF Ask
  <2>2. CASE AskRefused(c)
    BY <2>2, EndsTypes DEF AskRefused, OUTCOMES, THREADS
  <2>3. CASE Unreachable(c)
    <3>1. thread' \in [Calls -> THREADS] /\ told' \in [Calls -> {"nothing"} \cup OUTCOMES]
      BY <2>3, EndsTypes DEF Unreachable, Unanswered, OUTCOMES, THREADS
    <3> QED BY <1>0, <2>3, <3>1 DEF Unreachable, THREADS
  <2>4. CASE SocketTimeout(c)
    <3>1. thread' \in [Calls -> THREADS] /\ told' \in [Calls -> {"nothing"} \cup OUTCOMES]
      BY <2>4, EndsTypes DEF SocketTimeout, Unanswered, OUTCOMES, THREADS
    <3>2. request' \in [Calls -> ANSWERS] /\ strays' \subseteq Calls
      BY <2>4 DEF SocketTimeout, ANSWERS
    <3> QED BY <1>0, <2>4, <3>1, <3>2 DEF SocketTimeout, THREADS, ANSWERS
  <2>5. CASE Broken(c)
    <3>1. thread' \in [Calls -> THREADS] /\ told' \in [Calls -> {"nothing"} \cup OUTCOMES]
      BY <2>5, EndsTypes DEF Broken, OUTCOMES, THREADS
    <3>2. request' \in [Calls -> ANSWERS] /\ strays' \subseteq Calls
      BY <2>5 DEF Broken, ANSWERS
    <3> QED BY <1>0, <2>5, <3>1, <3>2 DEF Broken, THREADS, ANSWERS
  <2>6. CASE Answered(c)
    <3>1. thread' \in [Calls -> THREADS] /\ told' \in [Calls -> {"nothing"} \cup OUTCOMES]
      BY <2>6, EndsTypes DEF Answered, OUTCOMES, THREADS
    <3> QED BY <2>6, <3>1 DEF Answered, THREADS
  <2>7. CASE DeadlinePasses(c)
    BY <2>7 DEF DeadlinePasses
  <2>8. CASE GiveUp(c)
    BY <2>8, EndsTypes DEF GiveUp, OUTCOMES, THREADS
  <2> QED
    BY <1>3, <2>1, <2>2, <2>3, <2>4, <2>5, <2>6, <2>7, <2>8 DEF CallStep
<1>4. ASSUME NEW c \in Calls, AgentStep(c)
      PROVE  CallsTypeOK'
  <2>1. CASE Arrive(c)
    <3>1. carried'[c] \in STATES /\ ended' \in [Calls -> SUBSET {"succeeded", "failed"}]
      BY <2>1, CarryEffect DEF Arrive, STATES
    <3>2. request' \in [Calls -> ANSWERS]
      BY <2>1, <3>1 DEF Arrive, STATES, ANSWERS
    <3> QED BY <2>1, <3>1, <3>2, CarryEffect DEF Arrive, STATES, ANSWERS
  <2>2. CASE ArriveRefused(c)
    <3>1. worker' \in [healthy : BOOLEAN, permitted : BOOLEAN, serves : BOOLEAN]
      BY <2>2 DEF ArriveRefused
    <3>2. thread' \in [Calls -> THREADS] /\ told' \in [Calls -> {"nothing"} \cup OUTCOMES]
      BY <2>2, EndsTypes DEF ArriveRefused, OUTCOMES, THREADS
    <3> QED BY <2>2, <3>1, <3>2 DEF ArriveRefused, THREADS
  <2>3. CASE ArriveStray(c)
    BY <2>3, CarryEffect DEF ArriveStray, STATES
  <2>4. ASSUME NEW outcome \in {"succeeded", "failed"}, CarryOut(c, outcome)
        PROVE  CallsTypeOK'
    BY <2>4 DEF CarryOut
  <2> QED BY <1>4, <2>1, <2>2, <2>3, <2>4 DEF AgentStep
<1>5. CASE AgentRestarts
  <2>1. thread' \in [Calls -> THREADS]
    BY <1>5 DEF AgentRestarts, THREADS
  <2>2. told' \in [Calls -> {"nothing"} \cup OUTCOMES]
    BY <1>5 DEF AgentRestarts, OUTCOMES
  <2> QED BY <1>0, <1>5, <2>1, <2>2 DEF AgentRestarts, THREADS
<1>6. CASE WorkerChanges
  <2>1. worker' \in [healthy : BOOLEAN, permitted : BOOLEAN, serves : BOOLEAN]
    BY <1>6, Zenon DEF WorkerChanges
  <2> QED BY <1>0, <1>6, <2>1 DEF WorkerChanges
<1>7. CASE UNCHANGED callVars
  BY <1>7 DEF callVars
<1> QED
  BY <1>1, <1>2, <1>3, <1>4, <1>5, <1>6, <1>7 DEF CallsNext

\* "The work is never started twice" (protocol.py), for every number of calls
\* and of operations the agent may remember: one key has one thread at work at
\* most, and is remembered while it has.
LEMMA OneWorkKept ==
  ASSUME CallsTypeOK, OneWorkPerKey, [CallsNext]_callVars
  PROVE  OneWorkPerKey'
<1> USE DEF CallsTypeOK, agentVars, OneWorkPerKey
<1>1. ASSUME NEW c \in Calls, Carry(c)
      PROVE  OneWorkPerKey'
  <2>1. CASE c \in memory
    BY <1>1, <2>1, CarryEffect
  <2>2. CASE c \notin memory
    <3>1. PICK gone \in SUBSET memory :
             /\ \A k \in gone : carried[k] # "running" /\ k # c
             /\ memory' = (memory \cup {c}) \ gone
             /\ carried' = [k \in Calls |-> IF k \in gone THEN "none"
                              ELSE IF k = c THEN "running" ELSE carried[k]]
             /\ works' = [works EXCEPT ![c] = @ + 1]
      BY <1>1, <2>2, CarryEffect
    <3>2. works[c] = 0
      BY <2>2
    <3> QED BY <3>1, <3>2
  <2> QED BY <2>1, <2>2
<1>2. ASSUME NEW c \in Calls, NEW outcome \in {"succeeded", "failed"},
             CarryOut(c, outcome)
      PROVE  OneWorkPerKey'
  BY <1>2 DEF CarryOut
<1>3. CASE AgentRestarts
  BY <1>3 DEF AgentRestarts
<1>4. CASE UNCHANGED <<memory, carried, works>>
  BY <1>4
<1>5. ASSUME NEW c \in Calls, MakeCall(c) \/ Release(c) \/ CallStep(c)
      PROVE  UNCHANGED <<memory, carried, works>>
  BY <1>5, Zenon DEF MakeCall, Release, CallStep, Ask, AskRefused, Unreachable,
     SocketTimeout, Broken, Answered, DeadlinePasses, GiveUp
<1>6. ASSUME NEW c \in Calls, AgentStep(c)
      PROVE  OneWorkPerKey'
  <2>1. CASE Arrive(c)
    BY <1>1, <2>1 DEF Arrive
  <2>2. CASE ArriveRefused(c)
    BY <1>4, <2>2 DEF ArriveRefused
  <2>3. CASE ArriveStray(c)
    BY <1>1, <1>4, <2>3 DEF ArriveStray
  <2> QED BY <1>2, <1>6, <2>1, <2>2, <2>3 DEF AgentStep
<1>7. CASE WorkerChanges
  BY <1>4, <1>7 DEF WorkerChanges
<1>8. CASE UNCHANGED callVars
  BY <1>4, <1>8 DEF callVars
<1> QED
  BY <1>3, <1>4, <1>5, <1>6, <1>7, <1>8 DEF CallsNext

\* Every answer under way is of a work that ended so.
AnswersAreTrue ==
  \A c \in Calls : \A outcome \in {"succeeded", "failed"} :
    request[c] = outcome \/ carried[c] = outcome => outcome \in ended[c]

LEMMA AnswersKept ==
  ASSUME CallsTypeOK, AnswersAreTrue, [CallsNext]_callVars
  PROVE  AnswersAreTrue'
<1> USE DEF CallsTypeOK, agentVars, AnswersAreTrue
<1>1. ASSUME NEW c \in Calls, Carry(c)
      PROVE  /\ ended' = ended
             /\ \A k \in Calls : carried'[k] \in {carried[k], "none", "running"}
  BY <1>1, CarryEffect
<1>2. ASSUME NEW c \in Calls, AgentStep(c)
      PROVE  AnswersAreTrue'
  <2>1. CASE Arrive(c)
    BY <1>1, <2>1 DEF Arrive
  <2>2. CASE ArriveRefused(c)
    BY <2>2 DEF ArriveRefused
  <2>3. CASE ArriveStray(c)
    BY <1>1, <2>3 DEF ArriveStray
  <2>4. ASSUME NEW outcome \in {"succeeded", "failed"}, CarryOut(c, outcome)
        PROVE  AnswersAreTrue'
    BY <2>4 DEF CarryOut
  <2> QED BY <1>2, <2>1, <2>2, <2>3, <2>4 DEF AgentStep
<1>3. CASE AgentRestarts
  BY <1>3 DEF AgentRestarts
<1>4. ASSUME NEW c \in Calls, MakeCall(c) \/ Release(c) \/ CallStep(c)
      PROVE  /\ UNCHANGED <<carried, ended>>
             /\ \A k \in Calls : request'[k] \in {request[k], "none", "sent"}
  BY <1>4 DEF MakeCall, Release, CallStep, Ask, AskRefused, Unreachable,
     SocketTimeout, Broken, Answered, DeadlinePasses, GiveUp
<1>5. CASE WorkerChanges
  BY <1>5 DEF WorkerChanges
<1>6. CASE UNCHANGED callVars
  BY <1>6 DEF callVars
<1> QED
  BY <1>2, <1>3, <1>4, <1>5, <1>6 DEF CallsNext

LEMMA TruthKept ==
  ASSUME CallsTypeOK, AnswersAreTrue, ReportsTruth, [CallsNext]_callVars
  PROVE  ReportsTruth'
<1> USE DEF CallsTypeOK, agentVars, ReportsTruth
<1>1. ASSUME NEW c \in Calls, NEW outcome, outcome \notin {"result", "failed"},
             UNCHANGED ended, Ends(c, outcome)
      PROVE  ReportsTruth'
  BY <1>1 DEF Ends
<1>2. ASSUME UNCHANGED told, \A k \in Calls : ended[k] \subseteq ended'[k]
      PROVE  ReportsTruth'
  BY <1>2
<1>3. ASSUME NEW c \in Calls, Carry(c)
      PROVE  ended' = ended
  BY <1>3, CarryEffect
<1>4. ASSUME NEW c \in Calls, Answered(c)
      PROVE  ReportsTruth'
  <2>1. CASE request[c] = "succeeded"
    <3>1. Ends(c, "result") /\ ended' = ended
      BY <1>4, <2>1 DEF Answered
    <3> QED BY <2>1, <3>1 DEF Ends, AnswersAreTrue
  <2>2. CASE request[c] = "failed"
    <3>1. Ends(c, "failed") /\ ended' = ended
      BY <1>4, <2>2 DEF Answered
    <3> QED BY <2>2, <3>1 DEF Ends, AnswersAreTrue
  <2>3. CASE request[c] = "held"
    BY <1>2, <1>4, <2>3 DEF Answered
  <2> QED BY <1>4, <2>1, <2>2, <2>3 DEF Answered
<1>5. ASSUME NEW c \in Calls, CallStep(c)
      PROVE  ReportsTruth'
  BY <1>1, <1>2, <1>4, <1>5 DEF CallStep, Ask, AskRefused, Unreachable,
     SocketTimeout, Broken, Unanswered, DeadlinePasses, GiveUp
<1>6. ASSUME NEW c \in Calls, AgentStep(c)
      PROVE  ReportsTruth'
  <2>1. CASE Arrive(c)
    BY <1>2, <1>3, <2>1 DEF Arrive
  <2>2. CASE ArriveRefused(c)
    BY <1>1, <2>2 DEF ArriveRefused
  <2>3. CASE ArriveStray(c)
    BY <1>2, <1>3, <2>3 DEF ArriveStray
  <2>4. ASSUME NEW outcome \in {"succeeded", "failed"}, CarryOut(c, outcome)
        PROVE  ReportsTruth'
    BY <2>4 DEF CarryOut
  <2> QED BY <1>6, <2>1, <2>2, <2>3, <2>4 DEF AgentStep
<1>7. ASSUME NEW c \in Calls, MakeCall(c) \/ Release(c)
      PROVE  ReportsTruth'
  BY <1>7 DEF MakeCall, Release
<1>8. CASE AgentRestarts
  BY <1>8 DEF AgentRestarts
<1>9. CASE WorkerChanges
  BY <1>9 DEF WorkerChanges
<1>10. CASE UNCHANGED callVars
  BY <1>10 DEF callVars
<1> QED
  BY <1>5, <1>6, <1>7, <1>8, <1>9, <1>10 DEF CallsNext

\* However requests and answers are lost, repeated or delayed, and however
\* often the agent restarts or forgets: a key has one thread at work at most,
\* and what a caller is told of a work is how that work ended.
THEOREM CallsAreTrue == CallsSpec => []CallsHold
<1> DEFINE Inv == CallsTypeOK /\ OneWorkPerKey /\ AnswersAreTrue /\ ReportsTruth
<1>1. CallsInit => Inv
  BY CallsInitTypes DEF CallsInit, OneWorkPerKey, AnswersAreTrue, ReportsTruth
<1>2. Inv /\ [CallsNext]_callVars => Inv'
  BY CallsTypesKept, OneWorkKept, AnswersKept, TruthKept
<1>3. Inv => CallsHold
  BY DEF CallsHold
<1> QED BY <1>1, <1>2, <1>3, PTL DEF CallsSpec

-----------------------------------------------------------------------------
(* The heartbeats.                                                         *)

\* The limits are numbers.
LEMMA LimitsAreNumbers ==
  /\ INTERVAL = 1 /\ POST_TIMEOUT = 2 /\ STALE_AFTER = 3 /\ WINDOW = 3
  /\ MaxTransit \in 0 .. 2 /\ MaxTransit \in Nat /\ MaxBeatFaults \in Nat
  /\ Oldest = MaxTransit + 6 /\ Never = MaxTransit + 8
  /\ Ages = 0 .. Never /\ NoMeasurement \in Measurements
BY BeatsAssumption DEF INTERVAL, POST_TIMEOUT, STALE_AFTER, WINDOW, Oldest, Never,
   Ages, NoMeasurement, Measurements

\* Ages grow up to one more than their limit, and Never is for ever.
LEMMA OlderIsAnAge ==
  ASSUME NEW age \in Ages, NEW limit \in {STALE_AFTER, WINDOW, Oldest}
  PROVE  /\ Older(age, limit) \in Ages
         /\ Older(age, limit) = Never <=> age = Never
         /\ age <= limit => Older(age, limit) = age + 1
         /\ age > limit => Older(age, limit) = age
BY LimitsAreNumbers DEF Older

\* What is known of the rows and of the measurements.
LEMMA AgeFields ==
  ASSUME BeatsTypeOK
  PROVE  /\ workerRow.seen \in 0 .. Never /\ workerRow.marked \in BOOLEAN
         /\ unitRow.seen \in 0 .. Never /\ unitRow.unit \in 0 .. Never
         /\ sender.pc \in {"waits", "posts"} /\ sender.for \in 0 .. 2
         /\ \A m \in {measuring, measured} : m.since \in 0 .. Never /\ m.unit \in 0 .. Never
         /\ beatFaults \in Nat
BY LimitsAreNumbers DEF BeatsTypeOK, Measurements

\* What is known of a beat, of one let go and of one that grows older.
LEMMA BeatFields ==
  ASSUME NEW b \in Beats
  PROVE  /\ b.age \in 0 .. MaxTransit /\ b.unit \in 0 .. Never
         /\ b.ok \in BOOLEAN /\ b.inHand \in BOOLEAN
         /\ LetGo(b) \in Beats /\ LetGo(b).age = b.age /\ LetGo(b).unit = b.unit
         /\ LetGo(b).ok = b.ok /\ ~LetGo(b).inHand
         /\ OlderBeat(b).age = b.age + 1 /\ OlderBeat(b).unit = Older(b.unit, Oldest)
         /\ OlderBeat(b).ok = b.ok /\ OlderBeat(b).inHand = b.inHand
         /\ b.age < MaxTransit => OlderBeat(b) \in Beats
<1>1. /\ b.age \in 0 .. MaxTransit /\ b.unit \in Ages
      /\ b.ok \in BOOLEAN /\ b.inHand \in BOOLEAN
  BY DEF Beats
<1>2. Older(b.unit, Oldest) \in Ages
  BY <1>1, OlderIsAnAge
<1>3. LetGo(b) \in Beats
  BY <1>1 DEF Beats, LetGo
<1>4. b.age < MaxTransit => OlderBeat(b) \in Beats
  BY <1>1, <1>2, LimitsAreNumbers DEF Beats, OlderBeat
<1> QED BY <1>1, <1>3, <1>4, LimitsAreNumbers DEF LetGo, OlderBeat

\* What becomes of the beats under way when their sender lets go of them, and
\* when time passes.
LEMMA BeatsLetGo ==
  ASSUME BeatsTypeOK
  PROVE  LET dropped == {LetGo(b) : b \in beats}
         IN  /\ dropped \subseteq Beats
             /\ \A d \in dropped : \E b \in beats :
                  d.age = b.age /\ d.unit = b.unit /\ d.ok = b.ok
             /\ \A b \in beats : \E d \in dropped : d.age = b.age
<1>1. beats \subseteq Beats
  BY DEF BeatsTypeOK
<1>2. \A b \in beats : LetGo(b) \in Beats /\ LetGo(b).age = b.age
                       /\ LetGo(b).unit = b.unit /\ LetGo(b).ok = b.ok
  BY <1>1, BeatFields
<1> QED BY <1>2

LEMMA BeatsGrowOlder ==
  ASSUME BeatsTypeOK, \A b \in beats : b.age < MaxTransit
  PROVE  LET aged == {OlderBeat(b) : b \in beats}
         IN  /\ aged \subseteq Beats
             /\ \A a \in aged : \E b \in beats :
                  /\ a.age = b.age + 1 /\ a.unit = Older(b.unit, Oldest)
                  /\ a.ok = b.ok /\ a.inHand = b.inHand
             /\ \A b \in beats : \E a \in aged : a.age = b.age + 1 /\ a.inHand = b.inHand
<1>1. beats \subseteq Beats
  BY DEF BeatsTypeOK
<1>2. \A b \in beats :
         /\ OlderBeat(b) \in Beats
         /\ OlderBeat(b).age = b.age + 1 /\ OlderBeat(b).unit = Older(b.unit, Oldest)
         /\ OlderBeat(b).ok = b.ok /\ OlderBeat(b).inHand = b.inHand
  BY <1>1, BeatFields
<1> QED BY <1>2

\* What the sender puts on its way.
LEMMA NewBeat ==
  ASSUME BeatsTypeOK
  PROVE  LET new == [age |-> 0, unit |-> Payload, ok |-> speaks, inHand |-> TRUE]
         IN  new \in Beats /\ new.age = 0 /\ new.unit = Payload
             /\ new.ok = speaks /\ new.inHand
<1>1. Payload \in Ages /\ speaks \in BOOLEAN
  BY LimitsAreNumbers DEF Payload, BeatsTypeOK, Measurements
<1> QED BY <1>1, LimitsAreNumbers DEF Beats

BeatsCounted == unheard <= beatFaults

Senders == [pc : {"waits", "posts"}, for : 0 .. POST_TIMEOUT]

LEMMA BeatsInitTypes == BeatsInit => BeatsTypeOK /\ BeatsCounted
<1> SUFFICES ASSUME BeatsInit PROVE BeatsTypeOK /\ BeatsCounted
  OBVIOUS
<1>1. sender \in Senders
  BY LimitsAreNumbers DEF BeatsInit, Senders
<1>2. /\ workerRow \in [seen : Ages, marked : BOOLEAN]
      /\ unitRow \in [seen : Ages, unit : Ages]
  BY LimitsAreNumbers DEF BeatsInit
<1>3. /\ measuring \in Measurements /\ measured \in Measurements
      /\ sampleReady \in BOOLEAN /\ speaks \in BOOLEAN /\ beats \subseteq Beats
  BY LimitsAreNumbers DEF BeatsInit
<1>5. unheard \in 0 .. MaxBeatFaults /\ beatFaults \in 0 .. MaxBeatFaults
  BY LimitsAreNumbers DEF BeatsInit
<1>4. unheard <= beatFaults
  BY DEF BeatsInit
<1> QED BY <1>1, <1>2, <1>3, <1>4, <1>5 DEF BeatsTypeOK, BeatsCounted, Senders

LEMMA BeatsTypesKept ==
  ASSUME BeatsTypeOK, BeatsCounted, [BeatsNext]_beatVars
  PROVE  BeatsTypeOK' /\ BeatsCounted'
<1> USE DEF BeatsTypeOK, BeatsCounted, Senders
<1>1. ASSUME BeatFault
      PROVE  beatFaults' \in 0 .. MaxBeatFaults /\ beatFaults' = beatFaults + 1
  BY <1>1, LimitsAreNumbers DEF BeatFault
<1>2. CASE BeginMeasuring
  BY <1>2, LimitsAreNumbers DEF BeginMeasuring, Measurements
<1>3. CASE ReadUnits
  BY <1>3, LimitsAreNumbers, SMTT(30) DEF ReadUnits, Measurements
<1>4. CASE MeasureOnce
  <2>1. beatFaults' \in 0 .. MaxBeatFaults /\ beatFaults' >= beatFaults
    BY <1>1, <1>4, LimitsAreNumbers DEF MeasureOnce
  <2>2. NoMeasurement \in Measurements
    BY LimitsAreNumbers
  <2> QED BY <1>4, <2>1, <2>2, LimitsAreNumbers DEF MeasureOnce
<1>5. CASE SendBeat
  <2>1. beats' \subseteq Beats
    BY <1>5, NewBeat, BeatsLetGo DEF SendBeat
  <2>2. sender' \in Senders
    BY <1>5, LimitsAreNumbers DEF SendBeat
  <2> QED BY <1>5, <2>1, <2>2 DEF SendBeat
<1>6. CASE GiveUpPost
  <2>1. beats' \subseteq Beats
    BY <1>6, BeatsLetGo DEF GiveUpPost
  <2>2. sender' \in Senders
    BY <1>6, LimitsAreNumbers DEF GiveUpPost, Posted
  <2> QED BY <1>6, <2>1, <2>2 DEF GiveUpPost
<1>7. CASE AgentComesBack
  <2>1. beats' \subseteq Beats
    BY <1>7, BeatsLetGo DEF AgentComesBack
  <2>2. sender' \in Senders /\ NoMeasurement \in Measurements
    BY <1>7, LimitsAreNumbers DEF AgentComesBack
  <2>3. unheard' \in 0 .. MaxBeatFaults /\ unheard' <= beatFaults'
    BY <1>1, <1>7, LimitsAreNumbers DEF AgentComesBack
  <2> QED BY <1>1, <1>7, <2>1, <2>2, <2>3 DEF AgentComesBack
<1>8. ASSUME NEW b \in beats, Receive(b)
      PROVE  BeatsTypeOK' /\ BeatsCounted'
  <2>1. sender' \in Senders
    BY <1>8, LimitsAreNumbers DEF Receive, Posted
  <2>2. b.unit \in Ages /\ b.ok \in BOOLEAN
    BY DEF Beats
  <2>3. CASE b.ok
    <3>1. /\ workerRow' = [seen |-> 0, marked |-> FALSE] /\ unheard' = 0
          /\ unitRow' \in {unitRow, [seen |-> 0, unit |-> b.unit]}
      BY <1>8, <2>3 DEF Receive, Taken
    <3>2. workerRow' \in [seen : Ages, marked : BOOLEAN] /\ unitRow' \in [seen : Ages, unit : Ages]
      BY <2>2, <3>1, LimitsAreNumbers
    <3>3. unheard' \in 0 .. MaxBeatFaults /\ unheard' <= beatFaults
      BY <3>1, LimitsAreNumbers
    <3> QED BY <1>8, <2>1, <3>2, <3>3 DEF Receive
  <2>4. CASE ~b.ok
    <3>1. workerRow' \in [seen : Ages, marked : BOOLEAN] /\ UNCHANGED <<unitRow, unheard>>
      BY <1>8, <2>4 DEF Receive, Mismatched
    <3> QED BY <1>8, <2>1, <3>1 DEF Receive
  <2> QED BY <2>3, <2>4
<1>9. ASSUME NEW b \in beats, LoseBeat(b)
      PROVE  BeatsTypeOK' /\ BeatsCounted'
  <2>1. sender' \in Senders
    BY <1>9, LimitsAreNumbers DEF LoseBeat, Posted
  <2>2. unheard' \in 0 .. MaxBeatFaults /\ unheard' <= beatFaults'
    BY <1>1, <1>9, LimitsAreNumbers DEF LoseBeat
  <2> QED BY <1>1, <1>9, <2>1, <2>2 DEF LoseBeat
<1>10. CASE Tick
  <2>1. beats' \subseteq Beats
    BY <1>10, BeatsGrowOlder DEF Tick
  <2>2. sender' \in Senders
    BY <1>10, LimitsAreNumbers DEF Tick, SendDue, GiveUpDue
  <2>3. ASSUME NEW m \in Measurements
        PROVE  Aged(m) \in Measurements
    BY OlderIsAnAge DEF Aged, Measurements
  <2>4. workerRow' \in [seen : Ages, marked : BOOLEAN]
    BY <1>10, OlderIsAnAge DEF Tick
  <2>5. unitRow' \in [seen : Ages, unit : Ages]
    BY <1>10, OlderIsAnAge DEF Tick
  <2> QED BY <1>10, <2>1, <2>2, <2>3, <2>4, <2>5 DEF Tick
<1>11. CASE UNCHANGED beatVars
  BY <1>11 DEF beatVars
<1> QED
  BY <1>2, <1>3, <1>4, <1>5, <1>6, <1>7, <1>8, <1>9, <1>10, <1>11 DEF BeatsNext

\* While no beat is lost: every beat is taken, the one the sender posts is on
\* its way, and the row of a worker that was ever heard of is not older than
\* the sender has waited, or a beat is on its way that comes in time.
BeatsComeInTime ==
  beatFaults = 0 =>
    /\ speaks /\ ~workerRow.marked /\ \A b \in beats : b.ok
    /\ sender.pc = "waits" => sender.for <= INTERVAL
    /\ sender.pc = "posts" => \E b \in beats : b.inHand /\ b.age = sender.for
    /\ workerRow.seen # Never =>
         \/ sender.pc = "waits" /\ workerRow.seen <= sender.for
         \/ \E b \in beats : workerRow.seen + MaxTransit <= WINDOW + b.age

LEMMA InTimeKept ==
  ASSUME BeatsTypeOK, BeatsComeInTime, [BeatsNext]_beatVars
  PROVE  BeatsComeInTime'
<1> SUFFICES ASSUME beatFaults' = 0
             PROVE  BeatsComeInTime'
  BY DEF BeatsComeInTime
<1>0. ~BeatFault
  BY AgeFields DEF BeatFault
<1>1. CASE UNCHANGED <<beats, speaks, workerRow, sender, beatFaults>>
  BY <1>1 DEF BeatsComeInTime
<1>2. CASE BeginMeasuring \/ ReadUnits \/ MeasureOnce \/ UNCHANGED beatVars
  BY <1>0, <1>1, <1>2 DEF BeginMeasuring, ReadUnits, MeasureOnce, beatVars
<1>3. CASE SendBeat
  <2> DEFINE new == [age |-> 0, unit |-> Payload, ok |-> speaks, inHand |-> TRUE]
             dropped == {LetGo(b) : b \in beats}
  <2>1. /\ beatFaults = 0 /\ sender.pc = "waits"
        /\ sender' = [pc |-> "posts", for |-> 0]
        /\ beats' = dropped \cup {new} /\ UNCHANGED <<speaks, workerRow>>
    BY <1>3 DEF SendBeat, SendDue
  <2>2. \A b \in dropped : b.ok
    BY <2>1, BeatsLetGo DEF BeatsComeInTime
  <2>3. new \in beats' /\ new.inHand /\ new.age = 0 /\ new.ok
    BY <2>1, NewBeat DEF BeatsComeInTime
  <2> HIDE DEF new, dropped
  <2>4. ASSUME workerRow.seen # Never
        PROVE  \E b \in beats' : workerRow.seen + MaxTransit <= WINDOW + b.age
    <3>1. CASE workerRow.seen <= sender.for
      <4>1. workerRow.seen <= 1
        BY <2>1, <3>1, AgeFields, LimitsAreNumbers DEF BeatsComeInTime
      <4>2. workerRow.seen + MaxTransit <= WINDOW + new.age
        BY <2>3, <4>1, AgeFields, LimitsAreNumbers
      <4> QED BY <2>3, <4>2
    <3>2. CASE \E b \in beats : workerRow.seen + MaxTransit <= WINDOW + b.age
      <4>1. \A b \in beats : \E d \in beats' : d.age = b.age
        BY <2>1, BeatsLetGo DEF dropped
      <4> QED BY <3>2, <4>1
    <3> QED BY <2>1, <2>4, <3>1, <3>2 DEF BeatsComeInTime
  <2>5. /\ \A b \in beats' : b.ok
        /\ sender'.pc = "posts" /\ sender'.for = 0
    BY <2>1, <2>2, <2>3
  <2>6. speaks' /\ ~workerRow'.marked
    BY <2>1 DEF BeatsComeInTime
  <2> QED BY <2>1, <2>3, <2>4, <2>5, <2>6 DEF BeatsComeInTime
<1>4. CASE GiveUpPost
  <2> DEFINE dropped == {LetGo(b) : b \in beats}
  <2>1. /\ beatFaults = 0 /\ sender.pc = "posts"
        /\ sender'.pc = "waits" /\ sender'.for = 0
        /\ beats' = dropped /\ UNCHANGED <<speaks, workerRow>>
    BY <1>4 DEF GiveUpPost, GiveUpDue, Posted
  <2>2. \A b \in beats' : b.ok
    BY <2>1, BeatsLetGo DEF BeatsComeInTime
  <2>3. \A b \in beats : \E d \in beats' : d.age = b.age
    BY <2>1, BeatsLetGo
  <2>4. sender'.for <= INTERVAL
    BY <2>1, LimitsAreNumbers
  <2>5. workerRow.seen # Never =>
           \E b \in beats' : workerRow.seen + MaxTransit <= WINDOW + b.age
    BY <2>1, <2>3 DEF BeatsComeInTime
  <2> QED BY <2>1, <2>2, <2>4, <2>5 DEF BeatsComeInTime
<1>5. CASE AgentComesBack
  BY <1>0, <1>5 DEF AgentComesBack
<1>6. ASSUME NEW b \in beats, Receive(b)
      PROVE  BeatsComeInTime'
  <2>0. beatFaults = 0 /\ UNCHANGED speaks
    BY <1>6 DEF Receive
  <2>1. b.ok /\ beats' = beats \ {b}
    BY <1>6, <2>0 DEF Receive, BeatsComeInTime
  <2>2. workerRow'.seen = 0 /\ ~workerRow'.marked
    BY <1>6, <2>1 DEF Receive, Taken
  <2>3. speaks' /\ \A o \in beats' : o.ok
    BY <2>0, <2>1 DEF BeatsComeInTime
  <2>4. CASE sender'.pc = "waits"
    <3>1. sender'.for \in 0 .. INTERVAL
      <4>1. CASE b.inHand
        BY <1>6, <4>1, LimitsAreNumbers DEF Receive, Posted
      <4>2. CASE ~b.inHand
        <5>1. sender' = sender
          BY <1>6, <4>2 DEF Receive
        <5> QED BY <2>0, <2>4, <5>1, AgeFields, LimitsAreNumbers DEF BeatsComeInTime
      <4> QED BY <4>1, <4>2
    <3>2. workerRow'.seen <= sender'.for /\ sender'.for <= INTERVAL
      BY <2>2, <3>1, LimitsAreNumbers
    <3> QED BY <2>2, <2>3, <2>4, <3>2 DEF BeatsComeInTime
  <2>5. CASE sender'.pc # "waits"
    <3>1. ~b.inHand /\ sender' = sender
      BY <1>6, <2>5 DEF Receive, Posted
    <3>2. PICK held \in beats : held.inHand /\ held.age = sender.for
      BY <2>0, <2>5, <3>1, AgeFields DEF BeatsComeInTime
    <3>3. held \in beats' /\ held.age \in Nat
      <4>1. held \in Beats
        BY DEF BeatsTypeOK
      <4> QED BY <2>1, <3>1, <3>2, <4>1, BeatFields
    <3>4. workerRow'.seen + MaxTransit <= WINDOW + held.age
      BY <2>2, <3>3, LimitsAreNumbers
    <3> QED BY <2>2, <2>3, <2>5, <3>1, <3>2, <3>3, <3>4 DEF BeatsComeInTime
  <2> QED BY <2>4, <2>5
<1>7. ASSUME NEW b \in beats, LoseBeat(b)
      PROVE  BeatsComeInTime'
  BY <1>0, <1>7 DEF LoseBeat
<1>8. CASE Tick
  <2> DEFINE aged == {OlderBeat(b) : b \in beats}
  <2>0. beatFaults = 0 /\ \A b \in beats : b.age < MaxTransit
    BY <1>8 DEF Tick
  <2>1. beats' = aged /\ UNCHANGED speaks
    BY <1>8 DEF Tick
  <2>2. sender'.pc = sender.pc /\ sender'.for = sender.for + 1
    BY <1>8 DEF Tick, BeatsTypeOK
  <2>3. /\ workerRow'.marked = workerRow.marked
        /\ workerRow'.seen = Older(workerRow.seen, WINDOW)
    BY <1>8 DEF Tick, BeatsTypeOK
  <2>4. \A b \in beats' : b.ok
    BY <2>0, <2>1, BeatsGrowOlder DEF BeatsComeInTime
  <2>5. \A b \in beats : \E a \in beats' : a.age = b.age + 1 /\ a.inHand = b.inHand
    BY <2>0, <2>1, BeatsGrowOlder
  <2>6. sender.pc = "waits" => sender'.for <= INTERVAL
    BY <1>8, <2>2, AgeFields, LimitsAreNumbers DEF Tick, SendDue
  <2>7. sender.pc = "posts" => \E b \in beats' : b.inHand /\ b.age = sender'.for
    BY <2>0, <2>2, <2>5 DEF BeatsComeInTime
  <2>8. ASSUME workerRow'.seen # Never
        PROVE  \/ sender'.pc = "waits" /\ workerRow'.seen <= sender'.for
               \/ \E b \in beats' : workerRow'.seen + MaxTransit <= WINDOW + b.age
    <3>1. workerRow.seen # Never /\ workerRow'.seen <= workerRow.seen + 1
          /\ workerRow.seen \in Nat /\ workerRow'.seen \in Nat
      BY <2>3, <2>8, AgeFields, LimitsAreNumbers DEF Older
    <3>2. CASE sender.pc = "waits" /\ workerRow.seen <= sender.for
      BY <2>2, <3>1, <3>2, AgeFields
    <3>3. ASSUME NEW b \in beats, workerRow.seen + MaxTransit <= WINDOW + b.age
          PROVE  \E a \in beats' : workerRow'.seen + MaxTransit <= WINDOW + a.age
      <4>1. PICK a \in beats' : a.age = b.age + 1
        BY <2>5
      <4>2. b \in Beats
        BY DEF BeatsTypeOK
      <4>3. b.age \in Nat
        BY <4>2, BeatFields
      <4>4. workerRow'.seen + MaxTransit <= WINDOW + a.age
        BY <3>1, <3>3, <4>1, <4>3, LimitsAreNumbers, SMTT(30)
      <4> QED BY <4>1, <4>4
    <3> QED BY <2>0, <3>1, <3>2, <3>3 DEF BeatsComeInTime
  <2>9. speaks' /\ ~workerRow'.marked
    BY <2>0, <2>1, <2>3 DEF BeatsComeInTime
  <2> QED BY <2>2, <2>4, <2>6, <2>7, <2>8, <2>9 DEF BeatsComeInTime
<1> QED
  BY <1>2, <1>3, <1>4, <1>5, <1>6, <1>7, <1>8 DEF BeatsNext

\* What is measured, on its way or on record is no older than its date says.
DatedWhenRead(m) == m.since <= STALE_AFTER /\ m.unit # Never => m.unit <= m.since
DatedOnItsWay(b) == b.unit # Never => b.unit <= STALE_AFTER + b.age
DatedOnRecord == Current => unitRow.unit <= STALE_AFTER + MaxTransit + unitRow.seen

EvidenceIsDated ==
  /\ DatedWhenRead(measuring) /\ DatedWhenRead(measured)
  /\ \A b \in beats : DatedOnItsWay(b)
  /\ DatedOnRecord

LEMMA DatedKept ==
  ASSUME BeatsTypeOK, EvidenceIsDated, [BeatsNext]_beatVars
  PROVE  EvidenceIsDated'
<1>0. DatedWhenRead(NoMeasurement)
  BY DEF DatedWhenRead, NoMeasurement
<1>1. CASE BeginMeasuring \/ ReadUnits \/ MeasureOnce
  <2>1. UNCHANGED <<beats, unitRow>>
    BY <1>1 DEF BeginMeasuring, ReadUnits, MeasureOnce
  <2>2. DatedWhenRead(measuring)' /\ DatedWhenRead(measured)'
    <3>1. CASE BeginMeasuring
      BY <3>1 DEF BeginMeasuring, EvidenceIsDated, DatedWhenRead
    <3>2. CASE ReadUnits
      <4>1. measuring'.unit = 0 /\ measuring'.since \in Nat /\ measured' = measured
        BY <3>2, LimitsAreNumbers DEF ReadUnits, BeatsTypeOK, Measurements
      <4> QED BY <4>1 DEF EvidenceIsDated, DatedWhenRead
    <3>3. CASE MeasureOnce
      BY <1>0, <3>3 DEF MeasureOnce, EvidenceIsDated, DatedWhenRead
    <3> QED BY <1>1, <3>1, <3>2, <3>3
  <2> QED BY <2>1, <2>2 DEF EvidenceIsDated, DatedOnRecord, Current, DatedOnItsWay
<1>2. CASE SendBeat
  <2> DEFINE new == [age |-> 0, unit |-> Payload, ok |-> speaks, inHand |-> TRUE]
             dropped == {LetGo(b) : b \in beats}
  <2>1. beats' = dropped \cup {new} /\ UNCHANGED <<measuring, measured, unitRow>>
    BY <1>2 DEF SendBeat
  <2>2. Payload # Never => Payload <= STALE_AFTER
    BY AgeFields, LimitsAreNumbers DEF Payload, EvidenceIsDated, DatedWhenRead
  <2>3. DatedOnItsWay(new)
    BY <2>2, NewBeat, LimitsAreNumbers DEF DatedOnItsWay
  <2>4. \A b \in dropped : DatedOnItsWay(b)
    BY BeatsLetGo DEF EvidenceIsDated, DatedOnItsWay
  <2> QED BY <2>1, <2>3, <2>4 DEF EvidenceIsDated, DatedWhenRead, DatedOnRecord, Current,
             DatedOnItsWay
<1>3. CASE GiveUpPost \/ AgentComesBack
  <2> DEFINE dropped == {LetGo(b) : b \in beats}
  <2>1. beats' = dropped /\ unitRow' = unitRow
    BY <1>3 DEF GiveUpPost, AgentComesBack
  <2>2. \A b \in beats' : DatedOnItsWay(b)
    BY <2>1, BeatsLetGo DEF EvidenceIsDated, DatedOnItsWay
  <2>3. DatedWhenRead(measuring)' /\ DatedWhenRead(measured)'
    BY <1>0, <1>3 DEF GiveUpPost, AgentComesBack, EvidenceIsDated, DatedWhenRead
  <2> QED BY <2>1, <2>2, <2>3 DEF EvidenceIsDated, DatedOnRecord, Current, DatedOnItsWay
<1>4. ASSUME NEW b \in beats, Receive(b)
      PROVE  EvidenceIsDated'
  <2>1. beats' \subseteq beats /\ UNCHANGED <<measuring, measured>>
    BY <1>4 DEF Receive
  <2>2. unitRow' = unitRow \/ (b.unit # Never /\ unitRow'.seen = 0 /\ unitRow'.unit = b.unit)
    BY <1>4 DEF Receive, Taken, Mismatched
  <2>3. b.age \in 0 .. MaxTransit /\ b.unit \in Nat
    <3>1. b \in Beats
      BY DEF BeatsTypeOK
    <3> QED BY <3>1, BeatFields, LimitsAreNumbers
  <2>4. b.unit # Never => b.unit <= STALE_AFTER + MaxTransit + 0
    BY <2>3, LimitsAreNumbers DEF EvidenceIsDated, DatedOnItsWay
  <2>5. DatedOnRecord'
    BY <2>2, <2>4 DEF EvidenceIsDated, DatedOnRecord, Current
  <2> QED BY <2>1, <2>5 DEF EvidenceIsDated, DatedWhenRead, DatedOnItsWay
<1>5. ASSUME NEW b \in beats, LoseBeat(b)
      PROVE  EvidenceIsDated'
  BY <1>5 DEF LoseBeat, EvidenceIsDated, DatedWhenRead, DatedOnItsWay, DatedOnRecord, Current
<1>6. CASE Tick
  <2> DEFINE aged == {OlderBeat(b) : b \in beats}
  <2>1. beats' = aged /\ \A b \in beats : b.age < MaxTransit
    BY <1>6 DEF Tick
  <2>2. ASSUME NEW a \in beats'
        PROVE  DatedOnItsWay(a)
    <3>1. PICK b \in beats : a.age = b.age + 1 /\ a.unit = Older(b.unit, Oldest)
      BY <2>1, BeatsGrowOlder
    <3>2. b \in Beats /\ DatedOnItsWay(b)
      BY DEF EvidenceIsDated, BeatsTypeOK
    <3>3. b.unit \in 0 .. Never /\ b.age \in 0 .. MaxTransit
      BY <3>2, BeatFields
    <3> QED BY <3>1, <3>2, <3>3, LimitsAreNumbers DEF DatedOnItsWay, Older
  <2>3. ASSUME NEW m, m.since \in 0 .. Never, m.unit \in 0 .. Never, DatedWhenRead(m)
        PROVE  DatedWhenRead(Aged(m))
    <3>1. /\ Aged(m).since = Older(m.since, STALE_AFTER)
          /\ Aged(m).unit = Older(m.unit, Oldest)
      BY DEF Aged
    <3> QED BY <2>3, <3>1, LimitsAreNumbers DEF DatedWhenRead, Older
  <2>4. DatedWhenRead(measuring)' /\ DatedWhenRead(measured)'
    <3>1. measuring' = Aged(measuring) /\ measured' = Aged(measured)
      BY <1>6 DEF Tick
    <3>2. DatedWhenRead(Aged(measuring)) /\ DatedWhenRead(Aged(measured))
      BY <2>3, AgeFields DEF EvidenceIsDated
    <3> QED BY <3>1, <3>2 DEF DatedWhenRead
  <2>5. DatedOnRecord'
    <3>1. /\ unitRow'.seen = Older(unitRow.seen, WINDOW)
          /\ unitRow'.unit = Older(unitRow.unit, Oldest)
      BY <1>6 DEF Tick
    <3> QED BY <3>1, AgeFields, LimitsAreNumbers DEF EvidenceIsDated, DatedOnRecord, Current, Older
  <2> QED BY <2>2, <2>4, <2>5 DEF EvidenceIsDated, DatedOnItsWay
<1>7. CASE UNCHANGED beatVars
  BY <1>7 DEF beatVars, EvidenceIsDated, DatedWhenRead, DatedOnItsWay, DatedOnRecord, Current
<1> QED
  BY <1>1, <1>2, <1>3, <1>4, <1>5, <1>6, <1>7 DEF BeatsNext

\* However long a measurement takes, a worker whose beats arrive is healthy, and
\* a state of a unit that counts as current is a recent one: for every time a
\* beat may be on its way within the time its sender waits.
THEOREM InventoryHolds == BeatsSpec => []InventoryIsTrue
<1> DEFINE Inv == BeatsTypeOK /\ BeatsCounted /\ BeatsComeInTime /\ EvidenceIsDated
<1>1. BeatsInit => Inv
  <2> SUFFICES ASSUME BeatsInit PROVE BeatsComeInTime /\ EvidenceIsDated
    BY BeatsInitTypes
  <2>1. BeatsComeInTime
    BY LimitsAreNumbers DEF BeatsInit, BeatsComeInTime
  <2>2. EvidenceIsDated
    BY LimitsAreNumbers DEF BeatsInit, EvidenceIsDated, DatedWhenRead, DatedOnItsWay,
       DatedOnRecord, Current, NoMeasurement
  <2> QED BY <2>1, <2>2
<1>2. Inv /\ [BeatsNext]_beatVars => Inv'
  BY BeatsTypesKept, InTimeKept, DatedKept
<1>3. Inv => InventoryIsTrue
  <2> SUFFICES ASSUME Inv PROVE InventoryIsTrue
    OBVIOUS
  <2>1. EvidenceIsRecent
    BY AgeFields, LimitsAreNumbers DEF EvidenceIsDated, DatedOnRecord, EvidenceIsRecent, Current
  <2>2. ASSUME beatFaults = 0, workerRow.seen # Never
        PROVE  HealthOf = "healthy"
    <3>1. ~workerRow.marked
      BY <2>2 DEF BeatsComeInTime
    <3>2. workerRow.seen <= WINDOW
      <4>1. CASE sender.pc = "waits" /\ workerRow.seen <= sender.for
        BY <2>2, <4>1, AgeFields, LimitsAreNumbers DEF BeatsComeInTime
      <4>2. ASSUME NEW b \in beats, workerRow.seen + MaxTransit <= WINDOW + b.age
            PROVE  workerRow.seen <= WINDOW
        <5>1. b \in Beats
          BY DEF BeatsTypeOK
        <5>2. b.age \in 0 .. MaxTransit
          BY <5>1, BeatFields
        <5> QED BY <4>2, <5>2, AgeFields, LimitsAreNumbers
      <4> QED BY <2>2, <4>1, <4>2 DEF BeatsComeInTime
    <3> QED BY <2>2, <3>1, <3>2, Zenon DEF HealthOf
  <2> QED BY <2>1, <2>2 DEF InventoryIsTrue, HealthyWhileBeating
<1> QED BY <1>1, <1>2, <1>3, PTL DEF BeatsSpec

-----------------------------------------------------------------------------
(* The hooks around a job.                                                 *)

\* A sweep that is not under way has nothing on its list; a hook's own is under
\* way only while it cleans, and only a Linux one outlives its hook.
SweepsAsTheyMayBe ==
  /\ \A which \in {"hook", "outlived"} : ~sweeps[which].on => sweeps[which].doomed = {}
  /\ sweeps["hook"].on => \/ hookAt \in {"cleaning", "starting"}
                          \/ hookAt = "completing" /\ hookKind = "linux"
  /\ sweeps["outlived"].on => hookKind = "linux"

\* What was said of the origin, or will be, is so.
OriginAsItIs ==
  /\ hookAt = "origin" => serving.outside = Outside(serving.event)
  /\ hookAt = "ending" => answer = "outside"
  /\ hookAt \in {"none", "starting"} => answer = "none"

\* While the hook cleans nothing but what is on its list stays in its way, and
\* when it is done nothing is.
RoomAsCleaned ==
  ~serving.fault /\ serving.clears =>
    /\ hookAt = "cleaning" => workspaces \subseteq {serving.repo} \cup sweeps["hook"].doomed
    /\ hookAt = "remeasure" => workspaces \subseteq {serving.repo}

\* What was taken is put back, one thing after the other.
PutBackSoFar ==
  hookKind = "linux" /\ ~serving.fault =>
    /\ hookAt \in {"php", "measure", "cleaning", "remeasure", "ready"} => shared["tree"] # "taken"
    /\ hookAt \in {"measure", "cleaning", "remeasure", "ready"} => shared["php"] # "taken"

HooksInv ==
  /\ HooksTypeOK /\ JobKeepsItsFiles /\ OnlyItsOwnHookCleans /\ EndedForAReason
  /\ FullAfterCleaning
  /\ SweepsAsTheyMayBe /\ OriginAsItIs /\ RoomAsCleaned /\ PutBackSoFar

LEMMA NoJobIs ==
  /\ NoJob \in Jobs /\ ~NoJob.outside /\ NoPull \in Payloads
<1>1. PICK repo : repo = CHOOSE r \in Repos : TRUE
  OBVIOUS
<1>2. repo \in Repos
  BY <1>1, HooksAssumption
<1> QED BY <1>1, <1>2 DEF NoJob, Jobs, NoPull, Payloads

LEMMA SampleEventsAre == SampleEvents \subseteq Payloads
<1>1. \A head \in {"unsaid", "deleted", "repository"},
        owner \in {"org", "trusted", "other", "unsaid"}, base \in {"org", "unsaid"} :
          Pull(head, owner, base) \in Payloads
  BY DEF Pull, Payloads
<1> QED BY <1>1, NoJobIs DEF SampleEvents

\* The guard decides by the rule its documentation has.
LEMMA RefusesOutside ==
  ASSUME NEW event \in Payloads
  PROVE  DecideOrigin(event) = "refused" <=> Outside(event)
BY DEF DecideOrigin, Origin, Outside, Payloads

\* A job with some of its fields changed.
LEMMA JobForgets ==
  ASSUME NEW job \in Jobs, NEW changed,
         changed = [job EXCEPT !.event = NoPull]
  PROVE  /\ changed \in Jobs
         /\ changed.repo = job.repo
         /\ changed.event = NoPull
         /\ changed.readable = job.readable
         /\ changed.outside = job.outside
         /\ changed.upon = job.upon
         /\ changed.clears = job.clears
         /\ changed.fault = job.fault
<1>1. changed = [repo |-> job.repo, event |-> NoPull, readable |-> job.readable,
                 outside |-> job.outside, upon |-> job.upon, clears |-> job.clears,
                 fault |-> job.fault]
  BY DEF Jobs
<1>2. changed \in Jobs
  BY <1>1, NoJobIs DEF Jobs
<1> QED BY <1>1, <1>2

LEMMA JobForgetsAtFault ==
  ASSUME NEW job \in Jobs, NEW changed,
         changed = [job EXCEPT !.event = NoPull, !.fault = TRUE]
  PROVE  /\ changed \in Jobs
         /\ changed.repo = job.repo
         /\ changed.event = NoPull
         /\ changed.readable = job.readable
         /\ changed.outside = job.outside
         /\ changed.upon = job.upon
         /\ changed.clears = job.clears
         /\ changed.fault
<1>1. changed = [repo |-> job.repo, event |-> NoPull, readable |-> job.readable,
                 outside |-> job.outside, upon |-> job.upon, clears |-> job.clears,
                 fault |-> TRUE]
  BY DEF Jobs
<1>2. changed \in Jobs
  BY <1>1, NoJobIs DEF Jobs
<1> QED BY <1>1, <1>2

LEMMA JobClears ==
  ASSUME NEW job \in Jobs, NEW given \in BOOLEAN, NEW changed,
         changed = [job EXCEPT !.clears = given]
  PROVE  /\ changed \in Jobs
         /\ changed.repo = job.repo
         /\ changed.event = job.event
         /\ changed.readable = job.readable
         /\ changed.outside = job.outside
         /\ changed.upon = job.upon
         /\ changed.clears = given
         /\ changed.fault = job.fault
<1>1. changed = [repo |-> job.repo, event |-> job.event, readable |-> job.readable,
                 outside |-> job.outside, upon |-> job.upon, clears |-> given,
                 fault |-> job.fault]
  BY DEF Jobs
<1>2. changed \in Jobs
  BY <1>1, NoJobIs DEF Jobs
<1> QED BY <1>1, <1>2

LEMMA JobFault ==
  ASSUME NEW job \in Jobs, NEW given \in BOOLEAN, NEW changed,
         changed = [job EXCEPT !.fault = given]
  PROVE  /\ changed \in Jobs
         /\ changed.repo = job.repo
         /\ changed.event = job.event
         /\ changed.readable = job.readable
         /\ changed.outside = job.outside
         /\ changed.upon = job.upon
         /\ changed.clears = job.clears
         /\ changed.fault = given
<1>1. changed = [repo |-> job.repo, event |-> job.event, readable |-> job.readable,
                 outside |-> job.outside, upon |-> job.upon, clears |-> job.clears,
                 fault |-> given]
  BY DEF Jobs
<1>2. changed \in Jobs
  BY <1>1, NoJobIs DEF Jobs
<1> QED BY <1>1, <1>2

LEMMA JobFaults ==
  ASSUME NEW job \in Jobs, NEW changed,
         changed = [job EXCEPT !.fault = TRUE]
  PROVE  /\ changed \in Jobs
         /\ changed.repo = job.repo
         /\ changed.event = job.event
         /\ changed.readable = job.readable
         /\ changed.outside = job.outside
         /\ changed.upon = job.upon
         /\ changed.clears = job.clears
         /\ changed.fault
<1>1. changed = [repo |-> job.repo, event |-> job.event, readable |-> job.readable,
                 outside |-> job.outside, upon |-> job.upon, clears |-> job.clears,
                 fault |-> TRUE]
  BY DEF Jobs
<1>2. changed \in Jobs
  BY <1>1, NoJobIs DEF Jobs
<1> QED BY <1>1, <1>2

LEMMA FaultIsCounted ==
  ASSUME HooksTypeOK, HookFault
  PROVE  hookFaults' \in 0 .. MaxHookFaults /\ hookFaults' # hookFaults
<1>1. hookFaults \in 0 .. MaxHookFaults
  BY DEF HooksTypeOK
<1> QED BY <1>1, HooksAssumption DEF HookFault

LEMMA HooksInitInv == HooksInit => HooksInv
<1> SUFFICES ASSUME HooksInit PROVE HooksInv
  OBVIOUS
<1>1. HooksTypeOK
  <2>1. NoSweep \in Sweeps
    BY DEF NoSweep, Sweeps
  <2>2. /\ sweeps \in [{"hook", "outlived"} -> Sweeps]
        /\ shared \in [{"tree", "php"} -> {"whole", "taken", "replaced"}]
    BY <2>1 DEF HooksInit
  <2>3. /\ hookKind \in {"linux", "windows"} /\ hookAt = "none" /\ serving \in Jobs
        /\ answer = "none" /\ byHand = "never"
    BY NoJobIs DEF HooksInit
  <2>4. workspaces \subseteq Repos /\ temp \subseteq {"event", "commands", "rest"}
        /\ containers \in BOOLEAN
    BY DEF HooksInit
  <2>5. free \in Space /\ lastFree \in Space /\ hookFaults \in 0 .. MaxHookFaults
    BY HooksAssumption DEF HooksInit, Space
  <2> QED BY <2>2, <2>3, <2>4, <2>5 DEF HooksTypeOK
<1> QED
  BY <1>1, NoJobIs
  DEF HooksInit, HooksInv, JobKeepsItsFiles, OnlyItsOwnHookCleans, EndedForAReason,
      FullAfterCleaning, SweepsAsTheyMayBe, OriginAsItIs, RoomAsCleaned, PutBackSoFar,
      HOOK, JOB_STEPS, NoSweep

NAMES == {"timeout", "python", "hook", "node", "shell", "worker", "listener"}
Processes == [name : NAMES, older : BOOLEAN, own : BOOLEAN]
Real == {p \in Processes : p.older /\ p.own}

LEMMA ProcessIs ==
  ASSUME NEW name \in NAMES
  PROVE  Process(name) \in Real /\ Process(name).name = name
BY DEF Process, Processes, Real

LEMMA ProcessesAre ==
  /\ Process("timeout") \in Real /\ Process("timeout").name = "timeout"
  /\ Process("python") \in Real /\ Process("python").name = "python"
  /\ Process("hook") \in Real /\ Process("hook").name = "hook"
  /\ Process("node") \in Real /\ Process("node").name = "node"
  /\ Process("shell") \in Real /\ Process("shell").name = "shell"
  /\ Process("worker") \in Real /\ Process("worker").name = "worker"
  /\ Process("listener") \in Real /\ Process("listener").name = "listener"
BY ProcessIs DEF NAMES

LEMMA LargestIs ==
  ASSUME NEW S \in SUBSET (0 .. 4), 0 \in S
  PROVE  \E m \in S : \A k \in S : k <= m
<1>1. CASE 4 \in S
  BY <1>1
<1>2. CASE 4 \notin S /\ 3 \in S
  BY <1>2
<1>3. CASE 4 \notin S /\ 3 \notin S /\ 2 \in S
  BY <1>3
<1>4. CASE 4 \notin S /\ 3 \notin S /\ 2 \notin S
  BY <1>4
<1> QED BY <1>1, <1>2, <1>3, <1>4

\* The walk up a chain of Windows goes no further than what really started the
\* one below it.
LEMMA WalkIsReal ==
  ASSUME NEW chain \in Seq(Processes), Len(chain) <= 4
  PROVE  LET above == WindowsAncestors(chain) IN
         \E top \in 0 .. Len(chain) :
           /\ \A n \in 1 .. top : chain[n].older
           /\ Len(above) = top /\ \A n \in 1 .. top : above[n] = chain[n]
<1> DEFINE real == {n \in 0 .. Len(chain) : \A m \in 1 .. n : chain[m].older}
           top == CHOOSE n \in real : \A m \in real : m <= n
<1>1. \E n \in real : \A m \in real : m <= n
  <2>1. Len(chain) \in Nat /\ 0 \in real /\ real \subseteq 0 .. 4
    OBVIOUS
  <2> HIDE DEF real
  <2> QED BY <2>1, LargestIs
<1>2. top \in 0 .. Len(chain) /\ \A n \in 1 .. top : chain[n].older
  <2>1. top \in real
    BY <1>1
  <2> HIDE DEF top
  <2> QED BY <2>1
<1> HIDE DEF top
<1>3. /\ Len(SubSeq(chain, 1, top)) = top
      /\ \A n \in 1 .. top : SubSeq(chain, 1, top)[n] = chain[n]
  BY <1>2
<1>4. WindowsAncestors(chain) = SubSeq(chain, 1, top)
  BY DEF WindowsAncestors, top
<1> QED BY <1>2, <1>3, <1>4

LEMMA OwnChainIsFound ==
  ASSUME NEW kind \in {"linux", "windows"},
         NEW i \in FindWorker(kind, Ancestors(kind, OwnChain(kind)))
  PROVE  OwnChain(kind)[i].own /\ OwnChain(kind)[i].name = "worker"
<1> DEFINE chain == OwnChain(kind)
<1>1. chain \in Seq(Real) /\ Len(chain) <= 4
  BY ProcessesAre DEF OwnChain
<1> HIDE DEF chain
<1>2. chain \in Seq(Processes) /\ Len(chain) <= 4 /\ \A n \in 1 .. Len(chain) : chain[n].own
  BY <1>1 DEF Real
<1>3. CASE kind = "linux"
  BY <1>2, <1>3 DEF FindWorker, Ancestors, LinuxAncestors, chain
<1>4. CASE kind = "windows"
  <2> DEFINE above == WindowsAncestors(chain)
  <2>1. PICK top \in 0 .. Len(chain) :
          Len(above) = top /\ \A n \in 1 .. top : above[n] = chain[n]
    BY <1>2, WalkIsReal
  <2>2. i \in FindWorker(kind, above)
    BY <1>4 DEF Ancestors, chain
  <2> HIDE DEF above
  <2>3. i \in 1 .. top /\ above[i].name = "worker"
    BY <2>1, <2>2 DEF FindWorker
  <2> QED BY <1>2, <2>1, <2>3 DEF chain
<1> QED BY <1>3, <1>4

LEMMA ByHandIsSpared ==
  ASSUME NEW kind \in {"linux", "windows"}, NEW chain \in ByHand(kind)
  PROVE  FindWorker(kind, Ancestors(kind, chain)) = {}
<1>1. CASE kind = "linux"
  <2>1. chain = <<Process("timeout"), Process("hook"), Process("shell"), Process("worker")>>
        \/ chain = <<Process("shell"), Process("worker"), Process("listener")>>
    BY <1>1 DEF ByHand
  <2>2. \A n \in 1 .. Len(chain) : n > 1 /\ chain[n].name = "worker" =>
          chain[n - 1].name # "hook"
    BY <2>1, ProcessesAre
  <2> QED BY <1>1, <2>2 DEF FindWorker, Ancestors, LinuxAncestors
<1>2. CASE kind = "windows"
  <2> DEFINE above == WindowsAncestors(chain)
             later == [name |-> "worker", older |-> FALSE, own |-> FALSE]
  <2>1. later \in Processes /\ ~later.older /\ later.name = "worker"
    BY DEF Processes, NAMES
  <2>2. \/ chain = <<Process("python"), Process("node"), Process("shell"), Process("worker")>>
        \/ chain = <<Process("python"), Process("node"), later>>
        \/ chain = <<Process("listener")>>
    BY <1>2 DEF ByHand
  <2> HIDE DEF later
  <2>3. /\ chain \in Seq(Processes) /\ Len(chain) <= 4
        /\ \A n \in 1 .. Len(chain) : n > 1 /\ chain[n].name = "worker" /\ chain[n].older =>
             chain[n - 1].name # "node"
    <3>0. Real \subseteq Processes
      BY DEF Real
    <3>1. CASE chain = <<Process("python"), Process("node"), Process("shell"), Process("worker")>>
      BY <3>0, <3>1, ProcessesAre
    <3>2. CASE chain = <<Process("python"), Process("node"), later>>
      BY <3>0, <3>2, <2>1, ProcessesAre
    <3>3. CASE chain = <<Process("listener")>>
      BY <3>0, <3>3, ProcessesAre
    <3> QED BY <2>2, <3>1, <3>2, <3>3
  <2>4. PICK top \in 0 .. Len(chain) :
          /\ \A n \in 1 .. top : chain[n].older
          /\ Len(above) = top /\ \A n \in 1 .. top : above[n] = chain[n]
    BY <2>3, WalkIsReal
  <2> HIDE DEF above
  <2>5. FindWorker(kind, above) = {}
    BY <1>2, <2>3, <2>4 DEF FindWorker
  <2> QED BY <1>2, <2>5 DEF Ancestors, above
<1> QED BY <1>1, <1>2

-----------------------------------------------------------------------------

\* A job arrives.
LEMMA ArrivalKeepsHooks ==
  ASSUME HooksInv, NEW repo \in Repos, NEW event \in Payloads, NEW readable \in BOOLEAN,
         NEW placed \in BOOLEAN, JobArrives(repo, event, readable, placed)
  PROVE  HooksInv'
<1> USE DEF HooksInv
<1>1. serving' = [repo |-> repo, event |-> event, readable |-> readable,
                  outside |-> Outside(event), upon |-> sweeps["outlived"].on,
                  clears |-> placed, fault |-> FALSE]
  BY DEF JobArrives
<1>2. sweeps["outlived"].on \in BOOLEAN /\ Outside(event) \in BOOLEAN
  BY DEF HooksTypeOK, Sweeps, Outside
<1>3. /\ serving' \in Jobs /\ serving'.repo = repo /\ serving'.event = event
      /\ serving'.outside = Outside(event) /\ serving'.upon = sweeps["outlived"].on
  BY <1>1, <1>2 DEF Jobs
<1>4. HooksTypeOK'
  BY <1>3 DEF JobArrives, HooksTypeOK, HOOK
<1>5. JobKeepsItsFiles'
  BY <1>3 DEF JobArrives, JobKeepsItsFiles
<1>6. OnlyItsOwnHookCleans'
  BY <1>3 DEF JobArrives, OnlyItsOwnHookCleans, SweepsAsTheyMayBe
<1>7. EndedForAReason' /\ FullAfterCleaning' /\ OriginAsItIs'
  BY <1>3 DEF JobArrives, EndedForAReason, FullAfterCleaning, OriginAsItIs
<1>8. SweepsAsTheyMayBe' /\ RoomAsCleaned' /\ PutBackSoFar'
  BY DEF JobArrives, SweepsAsTheyMayBe, RoomAsCleaned, PutBackSoFar
<1> QED BY <1>4, <1>5, <1>6, <1>7, <1>8

\* The question of origin, and a job that is ended.
LEMMA OriginKeepsHooks ==
  ASSUME HooksInv, CheckOrigin \/ OriginUnknown
  PROVE  HooksInv'
<1> USE DEF HooksInv
<1>t. serving \in Jobs /\ serving.event \in Payloads /\ hookAt = "origin"
      /\ AfterOrigin \in {"tree", "measure"} /\ (hookKind = "linux" => AfterOrigin = "tree")
  BY DEF HooksTypeOK, Jobs, CheckOrigin, OriginUnknown, AfterOrigin
<1>1. /\ serving' \in Jobs /\ serving'.repo = serving.repo
      /\ serving'.readable = serving.readable /\ serving'.outside = serving.outside
      /\ serving'.upon = serving.upon /\ serving'.clears = serving.clears
      /\ hookFaults' \in 0 .. MaxHookFaults
      /\ \/ /\ hookAt' = "ending" /\ answer' = "outside"
            /\ serving.outside /\ serving'.fault = serving.fault
         \/ /\ hookAt' = AfterOrigin /\ answer' = answer
            /\ serving.outside => ~serving.readable \/ serving'.fault
  <2>1. CASE CheckOrigin
    <3>1. serving' = [serving EXCEPT !.event = NoPull]
      BY <2>1 DEF CheckOrigin
    <3>2. serving.outside = Outside(serving.event)
      BY <1>t DEF OriginAsItIs
    <3>3. CASE DecideOrigin(serving.event) = "refused"
      <4>1. serving.outside
        BY <1>t, <3>2, <3>3, RefusesOutside
      <4> QED BY <2>1, <1>t, <3>1, <3>3, <4>1, JobForgets DEF CheckOrigin, HooksTypeOK
    <3>4. CASE DecideOrigin(serving.event) # "refused"
      <4>1. ~serving.outside
        BY <1>t, <3>2, <3>4, RefusesOutside
      <4> QED BY <2>1, <1>t, <3>1, <3>4, <4>1, JobForgets DEF CheckOrigin, HooksTypeOK
    <3> QED BY <3>3, <3>4
  <2>2. CASE OriginUnknown /\ serving' = [serving EXCEPT !.event = NoPull] /\ ~serving.readable
    BY <2>2, <1>t, JobForgets, HooksAssumption DEF OriginUnknown, HooksTypeOK, HookFault
  <2>3. CASE OriginUnknown /\ serving' = [serving EXCEPT !.event = NoPull, !.fault = TRUE]
             /\ HookFault
    <3>1. /\ serving' \in Jobs /\ serving'.repo = serving.repo
          /\ serving'.readable = serving.readable /\ serving'.outside = serving.outside
          /\ serving'.upon = serving.upon /\ serving'.clears = serving.clears
          /\ serving'.fault
      BY <2>3, <1>t, JobForgetsAtFault
    <3>2. hookFaults' \in 0 .. MaxHookFaults
      BY <2>3, HooksAssumption DEF HooksTypeOK, HookFault
    <3> QED BY <2>3, <3>1, <3>2 DEF OriginUnknown
  <2> QED BY <2>1, <2>2, <2>3 DEF OriginUnknown
<1>2. UNCHANGED <<theUnit, lastFree, byHand>>
  BY DEF CheckOrigin, OriginUnknown
<1>3. HooksTypeOK'
  BY <1>t, <1>1, <1>2 DEF theUnit, HooksTypeOK, HOOK
<1>4. JobKeepsItsFiles' /\ OnlyItsOwnHookCleans'
  BY <1>t, <1>1, <1>2 DEF theUnit, JobKeepsItsFiles, OnlyItsOwnHookCleans, HOOK, JOB_STEPS
<1>5. EndedForAReason'
  BY <1>t, <1>1, <1>2 DEF EndedForAReason
<1>6. FullAfterCleaning' /\ OriginAsItIs' /\ RoomAsCleaned'
  BY <1>t, <1>1, <1>2 DEF FullAfterCleaning, OriginAsItIs, RoomAsCleaned
<1>7. SweepsAsTheyMayBe' /\ PutBackSoFar'
  BY <1>t, <1>1, <1>2 DEF theUnit, SweepsAsTheyMayBe, PutBackSoFar
<1> QED BY <1>3, <1>4, <1>5, <1>6, <1>7

LEMMA EndingKeepsHooks ==
  ASSUME HooksInv, EndTheJob \/ JobNotEnded
  PROVE  HooksInv'
<1> USE DEF HooksInv
<1>t. hookAt = "ending" /\ answer = "outside" /\ serving \in Jobs
      /\ hookKind \in {"linux", "windows"}
  BY DEF HooksTypeOK, OriginAsItIs, EndTheJob, JobNotEnded
<1>1. /\ UNCHANGED <<theUnit, answer, lastFree>> /\ byHand' = byHand
      /\ serving' \in Jobs /\ serving'.repo = serving.repo
      /\ serving'.upon = serving.upon /\ serving'.outside = serving.outside
      /\ hookFaults' \in 0 .. MaxHookFaults /\ hookAt' \in {"gone", "last steps"}
  <2>1. CASE EndTheJob
    <3>1. PICK i \in FindWorker(hookKind, Ancestors(hookKind, OwnChain(hookKind))) :
            Kills(OwnChain(hookKind)[i])
      BY <2>1 DEF EndTheJob
    <3>2. hookAt' = "gone" /\ byHand' = byHand
      BY <1>t, <3>1, OwnChainIsFound DEF Kills
    <3> QED BY <2>1, <1>t, <3>2 DEF EndTheJob, HooksTypeOK
  <2>2. CASE JobNotEnded
    <3>1. serving' = [serving EXCEPT !.fault = TRUE]
      BY <2>2 DEF JobNotEnded
    <3>2. hookFaults' \in 0 .. MaxHookFaults
      BY <2>2, FaultIsCounted DEF JobNotEnded
    <3>3. serving' \in Jobs /\ serving'.repo = serving.repo
          /\ serving'.upon = serving.upon /\ serving'.outside = serving.outside
      BY <1>t, <3>1, JobFaults
    <3> QED BY <2>2, <3>2, <3>3 DEF JobNotEnded
  <2> QED BY <2>1, <2>2
<1>2. HooksTypeOK'
  BY <1>t, <1>1 DEF theUnit, HooksTypeOK, JOB_STEPS
<1>3. JobKeepsItsFiles' /\ OnlyItsOwnHookCleans'
  BY <1>t, <1>1 DEF theUnit, JobKeepsItsFiles, OnlyItsOwnHookCleans, HOOK, JOB_STEPS
<1>4. EndedForAReason' /\ FullAfterCleaning' /\ OriginAsItIs' /\ RoomAsCleaned'
  BY <1>t, <1>1 DEF EndedForAReason, FullAfterCleaning, OriginAsItIs, RoomAsCleaned
<1>5. SweepsAsTheyMayBe' /\ PutBackSoFar'
  BY <1>t, <1>1 DEF theUnit, SweepsAsTheyMayBe, PutBackSoFar
<1> QED BY <1>2, <1>3, <1>4, <1>5

\* What was taken is put back.
LEMMA PuttingBackKeepsHooks ==
  ASSUME HooksInv, RestoreTree \/ RestorePhp
  PROVE  HooksInv'
<1> USE DEF HooksInv
<1>t. serving \in Jobs
  BY DEF HooksTypeOK
<1>1. PICK what \in {"tree", "php"}, next \in {"php", "measure"} :
        PutBack(what, next) /\ (what = "tree" <=> next = "php")
  BY DEF RestoreTree, RestorePhp
<1>2. /\ UNCHANGED <<hookKind, answer, workspaces, temp, containers, free,
                     lastFree, sweeps, byHand>>
      /\ hookAt = what /\ hookAt' = next
      /\ serving' \in Jobs /\ serving'.repo = serving.repo
      /\ serving'.upon = serving.upon /\ serving'.outside = serving.outside
      /\ serving'.readable = serving.readable
      /\ serving.fault => serving'.fault
      /\ hookFaults' \in 0 .. MaxHookFaults
      /\ shared' \in [{"tree", "php"} -> {"whole", "taken", "replaced"}]
      /\ ~serving'.fault =>
           /\ shared'[what] # "taken"
           /\ \A other \in {"tree", "php"} : other # what => shared'[other] = shared[other]
  <2>1. CASE UNCHANGED <<serving, hookFaults>>
             /\ shared' = [shared EXCEPT ![what] = IF @ = "taken" THEN "whole" ELSE @]
    BY <1>1, <2>1 DEF PutBack, HooksTypeOK
  <2>2. CASE HookFault /\ serving' = [serving EXCEPT !.fault = TRUE] /\ shared' = shared
    BY <1>1, <1>t, <2>2, JobFaults, HooksAssumption DEF PutBack, HooksTypeOK, HookFault
  <2> QED BY <1>1, <2>1, <2>2 DEF PutBack
<1>3. HooksTypeOK'
  BY <1>2 DEF HooksTypeOK, HOOK
<1>4. JobKeepsItsFiles' /\ OnlyItsOwnHookCleans'
  BY <1>2 DEF JobKeepsItsFiles, OnlyItsOwnHookCleans, HOOK, JOB_STEPS
<1>5. EndedForAReason' /\ FullAfterCleaning' /\ OriginAsItIs' /\ RoomAsCleaned'
  BY <1>2 DEF EndedForAReason, FullAfterCleaning, OriginAsItIs, RoomAsCleaned
<1>6. SweepsAsTheyMayBe'
  BY <1>2 DEF SweepsAsTheyMayBe
<1>7. PutBackSoFar'
  BY <1>1, <1>2 DEF PutBackSoFar
<1> QED BY <1>3, <1>4, <1>5, <1>6, <1>7

-----------------------------------------------------------------------------
(* Room for a job.                                                         *)

LEMMA MeasuringKeepsHooks ==
  ASSUME HooksInv, Measure
  PROVE  HooksInv'
<1> USE DEF HooksInv
<1>t. serving \in Jobs /\ free \in Space /\ workspaces \subseteq Repos /\ hookAt = "measure"
      /\ sweeps \in [{"hook", "outlived"} -> Sweeps]
      /\ hookFaults \in 0 .. MaxHookFaults /\ answer \in {"none", "outside", "full"}
  BY DEF HooksTypeOK, Measure
<1>u. UNCHANGED <<hookKind, workspaces, temp, containers, shared, free, byHand>>
  BY DEF Measure
<1>1. CASE /\ free < 2 /\ lastFree' = free /\ hookAt' = "cleaning" /\ answer' = answer
           /\ serving' = [serving EXCEPT !.clears = MayClear]
           /\ SetsAside("hook", IF MayClear THEN EarlierThan(serving.repo) ELSE {})
           /\ UNCHANGED hookFaults
  <2> DEFINE doomed == IF MayClear THEN EarlierThan(serving.repo) ELSE {}
  <2>1. MayClear \in BOOLEAN
    BY <1>t DEF MayClear, HooksTypeOK, Jobs
  <2>2. /\ serving' \in Jobs /\ serving'.clears = MayClear
        /\ serving'.repo = serving.repo /\ serving'.readable = serving.readable
        /\ serving'.outside = serving.outside /\ serving'.upon = serving.upon
        /\ serving'.fault = serving.fault /\ serving'.event = serving.event
    BY <1>1, <1>t, <2>1, JobClears
  <2>3. /\ doomed \subseteq Repos /\ serving.repo \notin doomed
        /\ MayClear => workspaces \subseteq {serving.repo} \cup doomed
    BY <1>t DEF EarlierThan
  <2> HIDE DEF doomed
  <2>4. /\ sweeps' = [sweeps EXCEPT !["hook"] = [on |-> TRUE, doomed |-> doomed]]
        /\ [on |-> TRUE, doomed |-> doomed] \in Sweeps
    BY <1>1, <2>3 DEF SetsAside, Sweeps, doomed
  <2>5. /\ sweeps' \in [{"hook", "outlived"} -> Sweeps]
        /\ sweeps'["hook"].on /\ sweeps'["hook"].doomed = doomed
        /\ sweeps'["outlived"] = sweeps["outlived"]
    BY <1>t, <2>4
  <2>6. HooksTypeOK'
    BY <1>1, <1>u, <2>2, <2>5 DEF HooksTypeOK, HOOK
  <2>7. JobKeepsItsFiles' /\ OnlyItsOwnHookCleans'
    BY <1>1, <1>t, <1>u, <2>2, <2>3, <2>5
    DEF JobKeepsItsFiles, OnlyItsOwnHookCleans, HOOK, JOB_STEPS
  <2>8. EndedForAReason' /\ FullAfterCleaning' /\ OriginAsItIs' /\ RoomAsCleaned'
    BY <1>1, <1>t, <1>u, <2>2, <2>3, <2>5
    DEF EndedForAReason, FullAfterCleaning, OriginAsItIs, RoomAsCleaned
  <2>9. SweepsAsTheyMayBe' /\ PutBackSoFar'
    BY <1>1, <1>t, <1>u, <2>2, <2>5 DEF SweepsAsTheyMayBe, PutBackSoFar
  <2> QED BY <2>6, <2>7, <2>8, <2>9
<1>2. CASE free = 2 /\ AdmitJob(free) /\ UNCHANGED <<serving, sweeps, hookFaults>>
  <2>1. hookAt' = "ready" /\ answer' = answer /\ lastFree' \in Space
    BY <1>2, <1>t DEF AdmitJob
  <2>2. HooksTypeOK'
    BY <1>2, <1>u, <2>1 DEF HooksTypeOK, JOB_STEPS
  <2>3. JobKeepsItsFiles' /\ OnlyItsOwnHookCleans'
    BY <1>2, <1>t, <1>u, <2>1 DEF JobKeepsItsFiles, OnlyItsOwnHookCleans, HOOK, JOB_STEPS
  <2>4. EndedForAReason' /\ FullAfterCleaning' /\ OriginAsItIs' /\ RoomAsCleaned'
    BY <1>2, <1>t, <1>u, <2>1
    DEF EndedForAReason, FullAfterCleaning, OriginAsItIs, RoomAsCleaned
  <2>5. SweepsAsTheyMayBe' /\ PutBackSoFar'
    BY <1>2, <1>t, <1>u, <2>1 DEF SweepsAsTheyMayBe, PutBackSoFar
  <2> QED BY <2>2, <2>3, <2>4, <2>5
<1>3. CASE /\ HookFault /\ hookAt' = "ready" /\ serving' = [serving EXCEPT !.fault = TRUE]
           /\ UNCHANGED <<answer, lastFree, sweeps>>
  <2>1. /\ serving' \in Jobs /\ serving'.repo = serving.repo /\ serving'.fault
        /\ serving'.outside = serving.outside /\ serving'.upon = serving.upon
    BY <1>3, <1>t, JobFaults
  <2>2. hookFaults' \in 0 .. MaxHookFaults
    BY <1>3, FaultIsCounted
  <2>3. HooksTypeOK'
    BY <1>3, <1>u, <2>1, <2>2 DEF HooksTypeOK, JOB_STEPS
  <2>4. JobKeepsItsFiles' /\ OnlyItsOwnHookCleans'
    BY <1>3, <1>t, <1>u, <2>1 DEF JobKeepsItsFiles, OnlyItsOwnHookCleans, HOOK, JOB_STEPS
  <2>5. EndedForAReason' /\ FullAfterCleaning' /\ OriginAsItIs' /\ RoomAsCleaned'
    BY <1>3, <1>t, <1>u, <2>1
    DEF EndedForAReason, FullAfterCleaning, OriginAsItIs, RoomAsCleaned
  <2>6. SweepsAsTheyMayBe' /\ PutBackSoFar'
    BY <1>3, <1>t, <1>u, <2>1 DEF SweepsAsTheyMayBe, PutBackSoFar
  <2> QED BY <2>3, <2>4, <2>5, <2>6
<1> QED BY <1>1, <1>2, <1>3 DEF Measure

\* What a cleaning does to its list, and to that of another.
LEMMA ListGetsShorter ==
  ASSUME NEW repo, NEW which \in {"hook", "outlived"},
         sweeps \in [{"hook", "outlived"} -> Sweeps]
  PROVE  /\ sweeps' = [w \in DOMAIN sweeps |-> [sweeps[w] EXCEPT !.doomed = @ \ {repo}]] =>
              /\ sweeps' \in [{"hook", "outlived"} -> Sweeps]
              /\ \A w \in {"hook", "outlived"} :
                   /\ sweeps'[w].on = sweeps[w].on
                   /\ sweeps'[w].doomed = sweeps[w].doomed \ {repo}
         /\ sweeps' = [sweeps EXCEPT ![which].doomed = @ \ {repo}] =>
              /\ sweeps' \in [{"hook", "outlived"} -> Sweeps]
              /\ sweeps'[which].on = sweeps[which].on
              /\ sweeps'[which].doomed = sweeps[which].doomed \ {repo}
              /\ \A w \in {"hook", "outlived"} : w # which => sweeps'[w] = sweeps[w]
BY DEF Sweeps

LEMMA RemovingKeepsHooks ==
  ASSUME HooksInv, NEW which \in {"hook", "outlived"}, NEW repo \in Repos,
         Removes(which, repo)
  PROVE  HooksInv'
<1> USE DEF HooksInv
<1>1. /\ Listed(which, repo) /\ workspaces' = workspaces \ {repo}
      /\ free' \in {free, IF free < 2 THEN free + 1 ELSE free}
      /\ UNCHANGED <<hookKind, hookAt, serving, answer, temp, containers, shared,
                     lastFree, byHand, hookFaults>>
  BY DEF Removes
<1>2. free' \in Space
  BY <1>1 DEF HooksTypeOK, Space
<1>3. /\ sweeps' \in [{"hook", "outlived"} -> Sweeps]
      /\ \A w \in {"hook", "outlived"} :
           /\ sweeps'[w].on = sweeps[w].on
           /\ sweeps'[w].doomed = sweeps[w].doomed \ {repo}
  BY ListGetsShorter DEF Removes, HooksTypeOK
<1>4. HooksTypeOK'
  BY <1>1, <1>2, <1>3 DEF HooksTypeOK
<1>5. JobKeepsItsFiles'
  BY <1>1 DEF JobKeepsItsFiles, OnlyItsOwnHookCleans, Listed
<1>6. OnlyItsOwnHookCleans'
  BY <1>1, <1>3 DEF OnlyItsOwnHookCleans
<1>7. EndedForAReason' /\ FullAfterCleaning' /\ OriginAsItIs'
  BY <1>1 DEF EndedForAReason, FullAfterCleaning, OriginAsItIs
<1>8. RoomAsCleaned' /\ PutBackSoFar' /\ SweepsAsTheyMayBe'
  BY <1>1, <1>3 DEF RoomAsCleaned, PutBackSoFar, SweepsAsTheyMayBe
<1> QED BY <1>4, <1>5, <1>6, <1>7, <1>8

LEMMA PassingOverKeepsHooks ==
  ASSUME HooksInv, NEW which \in {"hook", "outlived"}, NEW repo \in Repos,
         PassesOver(which, repo)
  PROVE  HooksInv'
<1> USE DEF HooksInv
<1>1. UNCHANGED <<hookKind, hookAt, answer, workspaces, temp, containers,
                  shared, free, lastFree, byHand, hookFaults>>
  BY DEF PassesOver
<1>2. /\ sweeps' \in [{"hook", "outlived"} -> Sweeps]
      /\ sweeps'[which].on = sweeps[which].on
      /\ sweeps'[which].doomed = sweeps[which].doomed \ {repo}
      /\ \A w \in {"hook", "outlived"} : w # which => sweeps'[w] = sweeps[w]
  BY ListGetsShorter DEF PassesOver, HooksTypeOK
<1>3. /\ serving' \in Jobs /\ serving'.repo = serving.repo
      /\ serving'.outside = serving.outside /\ serving'.upon = serving.upon
      /\ serving'.readable = serving.readable /\ serving'.event = serving.event
      /\ serving'.fault = serving.fault
      /\ serving'.clears => serving.clears /\ which = "outlived"
  <2>1. CASE which = "hook"
    <3>1. serving' = [serving EXCEPT !.clears = FALSE]
      BY <2>1 DEF PassesOver
    <3>2. serving \in Jobs
      BY DEF HooksTypeOK
    <3> HIDE DEF HooksInv
    <3>3. /\ serving' \in Jobs /\ serving'.repo = serving.repo
          /\ serving'.outside = serving.outside /\ serving'.upon = serving.upon
          /\ serving'.readable = serving.readable /\ serving'.event = serving.event
          /\ serving'.fault = serving.fault /\ serving'.clears = FALSE
      BY <3>1, <3>2, JobClears
    <3> QED BY <3>3
  <2>2. CASE which = "outlived"
    BY <2>2 DEF PassesOver, HooksTypeOK
  <2> QED BY <2>1, <2>2
<1>4. HooksTypeOK'
  BY <1>1, <1>2, <1>3 DEF HooksTypeOK
<1>5. JobKeepsItsFiles' /\ OnlyItsOwnHookCleans'
  BY <1>1, <1>2, <1>3 DEF JobKeepsItsFiles, OnlyItsOwnHookCleans
<1>6. EndedForAReason' /\ FullAfterCleaning' /\ OriginAsItIs'
  BY <1>1, <1>3 DEF EndedForAReason, FullAfterCleaning, OriginAsItIs
<1>7. RoomAsCleaned' /\ PutBackSoFar' /\ SweepsAsTheyMayBe'
  BY <1>1, <1>2, <1>3 DEF RoomAsCleaned, PutBackSoFar, SweepsAsTheyMayBe
<1> QED BY <1>4, <1>5, <1>6, <1>7

LEMMA SweepIsOver ==
  ASSUME HooksTypeOK, NEW which \in {"hook", "outlived"}, SweepEnds(which)
  PROVE  /\ sweeps[which].on
         /\ sweeps' \in [{"hook", "outlived"} -> Sweeps]
         /\ ~sweeps'[which].on /\ sweeps'[which].doomed = {}
         /\ \A w \in {"hook", "outlived"} : w # which => sweeps'[w] = sweeps[w]
         /\ hookFaults' \in 0 .. MaxHookFaults /\ free' \in Space
         /\ hookFaults' = hookFaults => sweeps[which].doomed = {}
<1>1. NoSweep \in Sweeps /\ ~NoSweep.on /\ NoSweep.doomed = {}
  BY DEF NoSweep, Sweeps
<1>2. HookFault => hookFaults' \in 0 .. MaxHookFaults /\ hookFaults' # hookFaults
  BY FaultIsCounted
<1>3. hookFaults \in 0 .. MaxHookFaults /\ free \in Space
      /\ sweeps \in [{"hook", "outlived"} -> Sweeps]
  BY DEF HooksTypeOK
<1>4. /\ sweeps[which].on /\ sweeps' = [sweeps EXCEPT ![which] = NoSweep]
      /\ free' \in {free, IF free < 2 /\ hookKind = "linux" THEN free + 1 ELSE free}
      /\ (sweeps[which].doomed = {} /\ hookFaults' = hookFaults) \/ HookFault
  BY DEF SweepEnds
<1>5. free' \in Space
  BY <1>3, <1>4 DEF Space
<1>6. hookFaults' \in 0 .. MaxHookFaults
      /\ (hookFaults' = hookFaults => sweeps[which].doomed = {})
  BY <1>2, <1>3, <1>4
<1> QED BY <1>1, <1>3, <1>4, <1>5, <1>6

LEMMA SweepEndKeepsHooks ==
  ASSUME HooksInv, HookSweepEnds \/ OutlivedSweepEnds \/ ListenerStarts
  PROVE  HooksInv'
<1> USE DEF HooksInv
<1>1. CASE HookSweepEnds
  <2> DEFINE fault == serving.fault \/ hookFaults' # hookFaults
  <2>1. /\ hookAt = "cleaning" /\ hookAt' = "remeasure" /\ SweepEnds("hook")
        /\ serving' = [serving EXCEPT !.fault = fault]
        /\ UNCHANGED <<hookKind, answer, workspaces, temp, containers, shared,
                       lastFree, byHand>>
    BY <1>1 DEF HookSweepEnds
  <2>2. fault \in BOOLEAN /\ (~fault => ~serving.fault /\ hookFaults' = hookFaults)
    BY DEF HooksTypeOK, Jobs
  <2> HIDE DEF fault
  <2>3. /\ serving' \in Jobs /\ serving'.repo = serving.repo
        /\ serving'.outside = serving.outside /\ serving'.upon = serving.upon
        /\ serving'.readable = serving.readable /\ serving'.clears = serving.clears
        /\ serving'.fault = fault
    BY <2>1, <2>2, JobFault DEF HooksTypeOK
  <2>4. HooksTypeOK'
    BY <2>1, <2>3, SweepIsOver DEF HooksTypeOK, HOOK
  <2>5. JobKeepsItsFiles' /\ OnlyItsOwnHookCleans'
    BY <2>1, <2>3, SweepIsOver DEF JobKeepsItsFiles, OnlyItsOwnHookCleans, HOOK
  <2>6. EndedForAReason'
    <3>1. serving.outside => serving.fault \/ ~serving.readable
      BY <2>1 DEF EndedForAReason
    <3>2. serving.fault => serving'.fault
      BY <2>2, <2>3
    <3> QED BY <2>1, <2>3, <3>1, <3>2 DEF EndedForAReason
  <2>7. FullAfterCleaning' /\ OriginAsItIs' /\ PutBackSoFar'
    BY <2>1, <2>2, <2>3 DEF FullAfterCleaning, OriginAsItIs, PutBackSoFar
  <2>8. RoomAsCleaned' /\ SweepsAsTheyMayBe'
    <3>1. ~fault => sweeps["hook"].doomed = {}
      BY <2>1, <2>2, SweepIsOver
    <3>2. RoomAsCleaned'
      BY <2>1, <2>2, <2>3, <3>1 DEF RoomAsCleaned
    <3>3. SweepsAsTheyMayBe'
      BY <2>1, SweepIsOver DEF SweepsAsTheyMayBe
    <3> QED BY <3>2, <3>3
  <2> QED BY <2>4, <2>5, <2>6, <2>7, <2>8
<1>2. CASE OutlivedSweepEnds
  <2>1. SweepEnds("outlived")
        /\ UNCHANGED <<hookKind, hookAt, serving, answer, workspaces, temp,
                       containers, shared, lastFree, byHand>>
    BY <1>2 DEF OutlivedSweepEnds
  <2>2. HooksTypeOK'
    BY <2>1, SweepIsOver DEF HooksTypeOK
  <2>3. JobKeepsItsFiles' /\ OnlyItsOwnHookCleans' /\ SweepsAsTheyMayBe'
    BY <2>1, SweepIsOver DEF JobKeepsItsFiles, OnlyItsOwnHookCleans, SweepsAsTheyMayBe
  <2>4. EndedForAReason' /\ FullAfterCleaning' /\ OriginAsItIs' /\ PutBackSoFar'
    BY <2>1 DEF EndedForAReason, FullAfterCleaning, OriginAsItIs, PutBackSoFar
  <2>5. RoomAsCleaned'
    BY <2>1, SweepIsOver DEF RoomAsCleaned
  <2> QED BY <2>2, <2>3, <2>4, <2>5
<1>3. CASE ListenerStarts
  <2>1. hookAt = "starting" /\ hookAt' = "none" /\ SweepEnds("hook")
        /\ UNCHANGED <<hookKind, serving, answer, workspaces, temp, containers,
                       shared, lastFree, byHand>>
    BY <1>3 DEF ListenerStarts
  <2>2. HooksTypeOK'
    BY <2>1, SweepIsOver DEF HooksTypeOK
  <2>3. JobKeepsItsFiles' /\ OnlyItsOwnHookCleans' /\ SweepsAsTheyMayBe'
    BY <2>1, SweepIsOver
    DEF JobKeepsItsFiles, OnlyItsOwnHookCleans, SweepsAsTheyMayBe, HOOK, JOB_STEPS
  <2>4. EndedForAReason' /\ FullAfterCleaning' /\ OriginAsItIs' /\ PutBackSoFar'
    BY <2>1 DEF EndedForAReason, FullAfterCleaning, OriginAsItIs, PutBackSoFar
  <2>5. RoomAsCleaned'
    BY <2>1 DEF RoomAsCleaned
  <2> QED BY <2>2, <2>3, <2>4, <2>5
<1> QED BY <1>1, <1>2, <1>3

LEMMA RemeasuringKeepsHooks ==
  ASSUME HooksInv, Remeasure
  PROVE  HooksInv'
<1> USE DEF HooksInv
<1>t. serving \in Jobs /\ free \in Space /\ lastFree \in Space
      /\ hookFaults \in 0 .. MaxHookFaults /\ hookAt = "remeasure"
      /\ answer \in {"none", "outside", "full"}
  BY DEF HooksTypeOK, Remeasure
<1>1. PICK figure \in {free, lastFree} : AdmitJob(figure)
  BY DEF Remeasure
<1>2. /\ lastFree' \in Space
      /\ \/ hookAt' = "last steps" /\ answer' = "full"
         \/ hookAt' = "ready" /\ answer' = answer
  BY <1>t, <1>1 DEF AdmitJob
<1>3. /\ serving' \in Jobs /\ serving'.repo = serving.repo
      /\ serving'.outside = serving.outside /\ serving'.upon = serving.upon
      /\ serving'.readable = serving.readable /\ serving'.clears = serving.clears
      /\ serving'.fault \/ serving' = serving
      /\ hookFaults' \in 0 .. MaxHookFaults
  <2>1. CASE UNCHANGED <<serving, hookFaults>>
    BY <2>1, <1>t
  <2>2. CASE HookFault /\ serving' = [serving EXCEPT !.fault = TRUE]
    BY <2>2, <1>t, JobFaults, FaultIsCounted
  <2> QED BY <2>1, <2>2 DEF Remeasure
<1>4. UNCHANGED <<theUnit, byHand>>
  BY DEF Remeasure
<1>5. HooksTypeOK'
  BY <1>2, <1>3, <1>4 DEF theUnit, HooksTypeOK, JOB_STEPS
<1>6. JobKeepsItsFiles' /\ OnlyItsOwnHookCleans'
  BY <1>t, <1>2, <1>3, <1>4
  DEF theUnit, JobKeepsItsFiles, OnlyItsOwnHookCleans, HOOK, JOB_STEPS
<1>7. EndedForAReason' /\ OriginAsItIs'
  BY <1>t, <1>2, <1>3, <1>4 DEF EndedForAReason, OriginAsItIs
<1>8. FullAfterCleaning' /\ RoomAsCleaned'
  BY <1>t, <1>2, <1>3, <1>4 DEF theUnit, FullAfterCleaning, RoomAsCleaned
<1>9. SweepsAsTheyMayBe' /\ PutBackSoFar'
  BY <1>t, <1>2, <1>3, <1>4 DEF theUnit, SweepsAsTheyMayBe, PutBackSoFar
<1> QED BY <1>5, <1>6, <1>7, <1>8, <1>9

LEMMA EarlyEndKeepsHooks ==
  ASSUME HooksInv, HookEndsEarly
  PROVE  HooksInv'
<1> USE DEF HooksInv
<1>1. /\ hookAt \in HOOK \ {"ending"} /\ hookAt' = "ready"
      /\ serving' \in Jobs /\ serving'.repo = serving.repo
      /\ serving'.outside = serving.outside /\ serving'.upon = serving.upon
      /\ serving'.fault /\ hookFaults' \in 0 .. MaxHookFaults
      /\ UNCHANGED <<hookKind, answer, workspaces, temp, containers, shared, free,
                     lastFree, byHand>>
  <2>1. serving' = [serving EXCEPT !.fault = TRUE] /\ HookFault /\ serving \in Jobs
    BY DEF HookEndsEarly, HooksTypeOK
  <2>2. /\ serving' \in Jobs /\ serving'.repo = serving.repo
        /\ serving'.outside = serving.outside /\ serving'.upon = serving.upon
        /\ serving'.fault
    BY <2>1, JobFaults
  <2> QED BY <2>1, <2>2, FaultIsCounted DEF HookEndsEarly
<1>2. /\ sweeps' \in [{"hook", "outlived"} -> Sweeps]
      /\ ~sweeps'["hook"].on /\ sweeps'["hook"].doomed = {}
      /\ \/ sweeps'["outlived"] = sweeps["outlived"]
         \/ sweeps'["outlived"] = sweeps["hook"] /\ hookAt = "cleaning" /\ hookKind = "linux"
  <2>1. NoSweep \in Sweeps /\ ~NoSweep.on /\ NoSweep.doomed = {}
    BY DEF NoSweep, Sweeps
  <2>2. sweeps \in [{"hook", "outlived"} -> Sweeps]
    BY DEF HooksTypeOK
  <2>3. CASE hookAt = "cleaning" /\ hookKind = "linux"
    <3>1. sweeps' = [hook |-> NoSweep, outlived |-> sweeps["hook"]]
      BY <2>3 DEF HookEndsEarly
    <3> QED BY <2>1, <2>2, <2>3, <3>1
  <2>4. CASE ~(hookAt = "cleaning" /\ hookKind = "linux")
    <3>1. sweeps' = [sweeps EXCEPT !["hook"] = NoSweep]
      BY <2>4 DEF HookEndsEarly
    <3> QED BY <2>1, <2>2, <3>1
  <2> QED BY <2>3, <2>4
<1>3. HooksTypeOK'
  BY <1>1, <1>2 DEF HooksTypeOK, JOB_STEPS
<1>4. JobKeepsItsFiles'
  BY <1>1 DEF JobKeepsItsFiles, JOB_STEPS, HOOK
<1>5. OnlyItsOwnHookCleans'
  BY <1>1, <1>2 DEF OnlyItsOwnHookCleans, HOOK, JOB_STEPS
<1>6. EndedForAReason' /\ FullAfterCleaning' /\ OriginAsItIs' /\ RoomAsCleaned' /\ PutBackSoFar'
  BY <1>1 DEF EndedForAReason, FullAfterCleaning, OriginAsItIs, RoomAsCleaned, PutBackSoFar
<1>7. SweepsAsTheyMayBe'
  BY <1>1, <1>2 DEF SweepsAsTheyMayBe
<1> QED BY <1>3, <1>4, <1>5, <1>6, <1>7

-----------------------------------------------------------------------------
(* The job, and the hook after it.                                         *)

LEMMA WorkKeepsHooks ==
  ASSUME HooksInv, Work
  PROVE  HooksInv'
<1> USE DEF HooksInv
<1>1. /\ hookAt \in JOB_STEPS /\ hookAt' = (IF hookAt = "ready" THEN "steps" ELSE hookAt)
      /\ workspaces' = (IF hookAt = "last steps" THEN workspaces
                        ELSE workspaces \cup {serving.repo})
      /\ UNCHANGED <<hookKind, serving, answer, lastFree, sweeps, byHand, hookFaults>>
  BY DEF Work
<1>2. /\ temp \subseteq temp' /\ temp' \subseteq {"event", "commands", "rest"}
      /\ containers' \in BOOLEAN
      /\ shared' \in [{"tree", "php"} -> {"whole", "taken", "replaced"}]
  BY DEF Work, HooksTypeOK
<1>3. free' \in Space
  <2>1. free \in 0 .. 2 /\ (free' = free \/ (free > 0 /\ free' = free - 1))
    BY DEF Work, HooksTypeOK, Space
  <2> QED BY <2>1 DEF Space
<1>4. serving.repo \in Repos
  BY DEF HooksTypeOK, Jobs
<1>5. HooksTypeOK'
  BY <1>1, <1>2, <1>3, <1>4 DEF HooksTypeOK, JOB_STEPS
<1>6. JobKeepsItsFiles' /\ OnlyItsOwnHookCleans'
  BY <1>1, <1>2 DEF JobKeepsItsFiles, OnlyItsOwnHookCleans, HOOK, JOB_STEPS
<1>7. EndedForAReason' /\ FullAfterCleaning' /\ OriginAsItIs'
  BY <1>1 DEF EndedForAReason, FullAfterCleaning, OriginAsItIs, JOB_STEPS
<1>8. RoomAsCleaned' /\ PutBackSoFar' /\ SweepsAsTheyMayBe'
  BY <1>1 DEF RoomAsCleaned, PutBackSoFar, SweepsAsTheyMayBe, JOB_STEPS
<1> QED BY <1>5, <1>6, <1>7, <1>8

LEMMA StepsEndKeepsHooks ==
  ASSUME HooksInv, StepsEnd \/ ClearTemp
  PROVE  HooksInv'
<1> USE DEF HooksInv
<1>1. /\ hookAt \in {"steps", "last steps"} /\ hookAt' = "completing"
      /\ temp' \subseteq temp /\ (hookKind = "windows" /\ "commands" \in temp => "commands" \in temp')
      /\ UNCHANGED <<hookKind, serving, answer, workspaces, containers, shared,
                     free, lastFree, byHand, hookFaults>>
  BY DEF StepsEnd, ClearTemp
<1>2. /\ sweeps' \in [{"hook", "outlived"} -> Sweeps]
      /\ sweeps'["outlived"] = sweeps["outlived"]
      /\ serving.repo \notin sweeps'["hook"].doomed
      /\ ~sweeps'["hook"].on => sweeps'["hook"].doomed = {}
      /\ sweeps'["hook"].on => hookKind = "linux"
  <2>1. CASE StepsEnd
    <3> DEFINE doomed == IF containers THEN {} ELSE EarlierThan(serving.repo)
               list == [on |-> TRUE, doomed |-> doomed]
    <3>1. doomed \subseteq Repos /\ serving.repo \notin doomed
      BY DEF EarlierThan, HooksTypeOK
    <3>2. sweeps' = [sweeps EXCEPT !["hook"] = list]
      BY <2>1 DEF StepsEnd, SetsAside
    <3> HIDE DEF doomed
    <3>3. list \in Sweeps /\ list.on /\ list.doomed = doomed
      BY <3>1 DEF Sweeps
    <3> HIDE DEF list
    <3>4. hookKind = "linux"
      BY <2>1 DEF StepsEnd
    <3> QED BY <3>1, <3>2, <3>3, <3>4 DEF HooksTypeOK
  <2>2. CASE ClearTemp
    <3>1. sweeps' = sweeps
      BY <2>2 DEF ClearTemp
    <3> QED
      BY <1>1, <3>1 DEF HooksTypeOK, OnlyItsOwnHookCleans, SweepsAsTheyMayBe, JOB_STEPS
  <2> QED BY <2>1, <2>2
<1>3. HooksTypeOK'
  BY <1>1, <1>2 DEF HooksTypeOK
<1>4. JobKeepsItsFiles' /\ OnlyItsOwnHookCleans'
  BY <1>1, <1>2 DEF JobKeepsItsFiles, OnlyItsOwnHookCleans, HOOK, JOB_STEPS, HooksTypeOK
<1>5. EndedForAReason' /\ FullAfterCleaning' /\ OriginAsItIs' /\ RoomAsCleaned' /\ PutBackSoFar'
  BY <1>1 DEF EndedForAReason, FullAfterCleaning, OriginAsItIs, RoomAsCleaned, PutBackSoFar
<1>6. SweepsAsTheyMayBe'
  BY <1>1, <1>2 DEF SweepsAsTheyMayBe
<1> QED BY <1>3, <1>4, <1>5, <1>6

LEMMA JobEndKeepsHooks ==
  ASSUME HooksInv, Completed \/ JobIsOver
  PROVE  HooksInv'
<1> USE DEF HooksInv
<1>1. /\ hookAt \in {"completing", "gone"} /\ hookAt' = "none"
      /\ serving' = NoJob /\ answer' = "none" /\ lastFree' = 2 /\ byHand' = "never"
      /\ UNCHANGED <<hookKind, workspaces, temp, containers, shared>>
  BY DEF Completed, JobIsOver, JobIsForgotten, theUnit
<1>2. /\ sweeps' \in [{"hook", "outlived"} -> Sweeps]
      /\ \A w \in {"hook", "outlived"} : ~sweeps'[w].on => sweeps'[w].doomed = {}
      /\ ~sweeps'["hook"].on
      /\ sweeps'["outlived"] = sweeps["outlived"]
      /\ free' \in Space /\ hookFaults' \in 0 .. MaxHookFaults
  <2>1. CASE SweepEnds("hook")
    BY <2>1, SweepIsOver DEF SweepsAsTheyMayBe
  <2>2. CASE /\ UNCHANGED <<sweeps, free, hookFaults>> /\ hookAt = "gone"
    BY <2>2 DEF HooksTypeOK, SweepsAsTheyMayBe
  <2>3. CASE /\ UNCHANGED <<sweeps, free, hookFaults>> /\ hookKind = "windows"
             /\ hookAt = "completing"
    BY <2>3 DEF HooksTypeOK, SweepsAsTheyMayBe
  <2>4. CASE Completed
    <3>1. hookKind \in {"linux", "windows"}
      BY DEF HooksTypeOK
    <3>2. CASE hookKind = "linux"
      <4>1. SweepEnds("hook")
        BY <2>4, <3>2 DEF Completed
      <4> QED BY <2>1, <4>1
    <3>3. CASE hookKind = "windows"
      <4>1. UNCHANGED <<sweeps, free, hookFaults>> /\ hookAt = "completing"
        BY <2>4, <3>3 DEF Completed
      <4> QED BY <2>3, <3>3, <4>1
    <3> QED BY <3>1, <3>2, <3>3
  <2>5. CASE JobIsOver
    BY <2>2, <2>5 DEF JobIsOver, theUnit
  <2> QED BY <2>4, <2>5
<1>3. HooksTypeOK'
  BY <1>1, <1>2, NoJobIs DEF HooksTypeOK, Space
<1>4. JobKeepsItsFiles' /\ OnlyItsOwnHookCleans'
  BY <1>1 DEF JobKeepsItsFiles, OnlyItsOwnHookCleans, HOOK, JOB_STEPS
<1>5. EndedForAReason' /\ FullAfterCleaning' /\ OriginAsItIs' /\ RoomAsCleaned' /\ PutBackSoFar'
  BY <1>1 DEF EndedForAReason, FullAfterCleaning, OriginAsItIs, RoomAsCleaned, PutBackSoFar
<1>6. SweepsAsTheyMayBe'
  BY <1>1, <1>2 DEF SweepsAsTheyMayBe
<1> QED BY <1>3, <1>4, <1>5, <1>6

LEMMA NothingMoves ==
  ASSUME HooksInv, containers' \in BOOLEAN, byHand' \in {byHand, "spared"},
         UNCHANGED <<hookKind, hookAt, serving, answer, workspaces, temp, shared, free,
                     lastFree, sweeps, hookFaults>>
  PROVE  HooksInv'
<1> USE DEF HooksInv
<1>1. HooksTypeOK'
  BY DEF HooksTypeOK
<1>2. JobKeepsItsFiles' /\ OnlyItsOwnHookCleans' /\ SweepsAsTheyMayBe'
  BY DEF JobKeepsItsFiles, OnlyItsOwnHookCleans, SweepsAsTheyMayBe
<1>3. EndedForAReason' /\ FullAfterCleaning' /\ OriginAsItIs' /\ RoomAsCleaned' /\ PutBackSoFar'
  BY DEF EndedForAReason, FullAfterCleaning, OriginAsItIs, RoomAsCleaned, PutBackSoFar
<1> QED BY <1>1, <1>2, <1>3

\* Nothing is killed by a hook that something else ran.
LEMMA ByHandKeepsHooks ==
  ASSUME HooksInv, NEW chain \in ByHand(hookKind), RunByHand(chain)
  PROVE  HooksInv'
<1> USE DEF HooksInv
<1>1. FindWorker(hookKind, Ancestors(hookKind, chain)) = {}
  BY ByHandIsSpared DEF HooksTypeOK
<1>2. hookAt' = hookAt /\ byHand' = "spared"
      /\ UNCHANGED <<theUnit, serving, answer, lastFree, hookFaults>>
  BY <1>1 DEF RunByHand
<1>3. containers' \in BOOLEAN
  BY <1>2 DEF theUnit, HooksTypeOK
<1> QED BY <1>2, <1>3, NothingMoves DEF theUnit

LEMMA UnitStartKeepsHooks ==
  ASSUME HooksInv, LinuxUnitStarts
  PROVE  HooksInv'
<1> USE DEF HooksInv
<1>1. /\ hookAt = "none" /\ hookAt' = "starting" /\ temp' \subseteq temp
      /\ containers' \in BOOLEAN
      /\ UNCHANGED <<hookKind, serving, answer, workspaces, shared, free, lastFree,
                     byHand, hookFaults>>
  BY DEF LinuxUnitStarts, HooksTypeOK
<1>2. /\ sweeps' \in [{"hook", "outlived"} -> Sweeps]
      /\ \A w \in {"hook", "outlived"} : ~sweeps'[w].on => sweeps'[w].doomed = {}
      /\ ~sweeps'["outlived"].on
  <2> DEFINE doomed == IF containers' THEN {} ELSE workspaces
             list == [on |-> TRUE, doomed |-> doomed]
  <2>1. sweeps' = [hook |-> list, outlived |-> NoSweep] /\ doomed \subseteq Repos
    BY DEF LinuxUnitStarts, HooksTypeOK
  <2> HIDE DEF doomed
  <2>2. list \in Sweeps /\ list.on
    BY <2>1 DEF Sweeps
  <2>3. NoSweep \in Sweeps /\ ~NoSweep.on /\ NoSweep.doomed = {}
    BY DEF NoSweep, Sweeps
  <2> HIDE DEF list
  <2> QED BY <2>1, <2>2, <2>3
<1>3. HooksTypeOK'
  BY <1>1, <1>2 DEF HooksTypeOK
<1>4. JobKeepsItsFiles' /\ OnlyItsOwnHookCleans'
  BY <1>1 DEF JobKeepsItsFiles, OnlyItsOwnHookCleans, HOOK, JOB_STEPS
<1>5. EndedForAReason' /\ FullAfterCleaning' /\ OriginAsItIs' /\ RoomAsCleaned' /\ PutBackSoFar'
  BY <1>1 DEF EndedForAReason, FullAfterCleaning, OriginAsItIs, RoomAsCleaned, PutBackSoFar
<1>6. SweepsAsTheyMayBe'
  BY <1>1, <1>2 DEF SweepsAsTheyMayBe
<1> QED BY <1>3, <1>4, <1>5, <1>6

LEMMA HooksNextInv == HooksInv /\ [HooksNext]_hookVars => HooksInv'
<1> SUFFICES ASSUME HooksInv, [HooksNext]_hookVars PROVE HooksInv'
  OBVIOUS
<1>1. CASE \E repo \in Repos, event \in SampleEvents, placed \in BOOLEAN :
             JobArrives(repo, event, TRUE, placed)
  BY <1>1, ArrivalKeepsHooks, SampleEventsAre
<1>2. CASE \E repo \in Repos : JobArrives(repo, Pull("repository", "other", "org"), FALSE, TRUE)
  <2>1. Pull("repository", "other", "org") \in Payloads
    BY DEF Pull, Payloads
  <2> QED BY <1>2, <2>1, ArrivalKeepsHooks
<1>3. CASE ContainersEnd
  <2>1. containers' \in BOOLEAN
    BY <1>3 DEF ContainersEnd
  <2> QED BY <1>3, <2>1, NothingMoves DEF ContainersEnd
<1>4. CASE UNCHANGED hookVars
  <2>1. containers' \in BOOLEAN
    BY <1>4 DEF hookVars, HooksInv, HooksTypeOK
  <2> QED BY <1>4, <2>1, NothingMoves DEF hookVars
<1>5. CASE \/ CheckOrigin \/ OriginUnknown \/ EndTheJob \/ JobNotEnded
           \/ RestoreTree \/ RestorePhp \/ Measure
  BY <1>5, OriginKeepsHooks, EndingKeepsHooks, PuttingBackKeepsHooks, MeasuringKeepsHooks
<1>6. CASE \E repo \in Repos, which \in {"hook", "outlived"} :
             Removes(which, repo) \/ PassesOver(which, repo)
  BY <1>6, RemovingKeepsHooks, PassingOverKeepsHooks
<1>7. CASE \/ HookSweepEnds \/ OutlivedSweepEnds \/ Remeasure \/ HookEndsEarly
           \/ Work \/ StepsEnd \/ ClearTemp \/ Completed \/ JobIsOver
           \/ LinuxUnitStarts \/ ListenerStarts
  BY <1>7, SweepEndKeepsHooks, RemeasuringKeepsHooks, EarlyEndKeepsHooks, WorkKeepsHooks,
     StepsEndKeepsHooks, JobEndKeepsHooks, UnitStartKeepsHooks
<1>8. CASE \E chain \in ByHand(hookKind) : RunByHand(chain)
  BY <1>8, ByHandKeepsHooks
<1> QED BY <1>1, <1>2, <1>3, <1>4, <1>5, <1>6, <1>7, <1>8 DEF HooksNext

\* The hooks around a job leave it its files, put back what others took, end it
\* for no reason but the origin of its code and refuse it for want of room only
\* when cleaning did not help, for any repositories and any number of faults
\* (job_started.py, runner_disk.py, runner_guard.py, cleanup.py).
THEOREM HooksHold == HooksSpec => []HooksServeTheJob
<1>1. HooksInv => HooksServeTheJob
  BY DEF HooksInv, HooksServeTheJob, PutBackSoFar, TakenIsPutBack
<1> QED BY <1>1, HooksInitInv, HooksNextInv, PTL DEF HooksSpec

-----------------------------------------------------------------------------
(* What a deep pass says of the hooks of a runner.                         *)

\* What a pass notes of the unit and of the record while it goes on.
PassNotes ==
  guardPass.step # 0 =>
    /\ GuardVersion(guarded.text) # 0 => GuardVersion(guarded.text) \in guardPass.whole
    /\ lastRun.result = "read" => lastRun.version \in guardPass.ran

\* What it has read was so at some time of it.
PassReadTrue ==
  guardPass.step = 2 =>
    IF guardKind = "linux"
    THEN guardPass.same /\ GuardVersion(guardPass.text) # 0 =>
           GuardVersion(guardPass.text) \in guardPass.whole
    ELSE guardPass.run.result = "read" => guardPass.run.version \in guardPass.ran

\* A report is true, and dated when its pass ended.
IsTrueReport(report) ==
  report.true /\ report.age = report.ended /\ (report.lent => lent)

GuardsInv ==
  GuardsTypeOK /\ PassNotes /\ PassReadTrue
  /\ IsTrueReport(guards) /\ IsTrueReport(keptReport)

LEMMA VersionIs == \A text \in Texts : GuardVersion(text) \in 0 .. 2
BY DEF GuardVersion, Texts, Made

LEMMA SilentIsTrue == Silent \in Reports /\ IsTrueReport(Silent)
BY GuardsAssumption DEF Silent, Reports, IsTrueReport, ReportAges, TooOld

LEMMA NoPassIs == NoGuardPass \in GuardPasses /\ NoRun \in RunRecords
BY DEF NoGuardPass, GuardPasses, NoRun, RunRecords, Texts, Made

LEMMA GuardsInitInv == GuardsInit => GuardsInv
BY SilentIsTrue, NoPassIs, GuardsAssumption
   DEF GuardsInit, GuardsInv, GuardsTypeOK, PassNotes, PassReadTrue, NoGuardPass, Texts, Made

\* What a pass lives through is noted, and nothing it has read is lost.
LEMMA LivedThroughNotes ==
  ASSUME NEW pass \in GuardPasses, NEW u \in [up : BOOLEAN, text : Texts, image : Made],
         NEW rec \in RunRecords
  PROVE  LET noted == LivedThrough(pass, u, rec) IN
         /\ noted \in GuardPasses
         /\ noted.step = pass.step /\ noted.text = pass.text
         /\ noted.same = pass.same /\ noted.run = pass.run
         /\ pass.whole \subseteq noted.whole /\ pass.ran \subseteq noted.ran
         /\ pass.step # 0 =>
              /\ GuardVersion(u.text) # 0 => GuardVersion(u.text) \in noted.whole
              /\ rec.result = "read" => rec.version \in noted.ran
<1>1. GuardVersion(u.text) \in 0 .. 2
  BY VersionIs
<1>2. rec.result = "read" => rec.version \in 1 .. 2
  BY DEF RunRecords
<1>3. CASE pass.step = 0
  <2>1. LivedThrough(pass, u, rec) = pass
    BY <1>3 DEF LivedThrough
  <2> QED BY <1>3, <2>1
<1>4. CASE pass.step # 0
  <2> DEFINE whole == pass.whole \cup ({GuardVersion(u.text)} \ {0})
             ran == IF rec.result = "read" THEN pass.ran \cup {rec.version} ELSE pass.ran
  <2> DEFINE noted == LivedThrough(pass, u, rec)
  <2>1. noted = [pass EXCEPT !.whole = whole, !.ran = ran]
    BY <1>4 DEF LivedThrough
  <2>2. whole \subseteq 1 .. 2 /\ ran \subseteq 1 .. 2
    BY <1>1, <1>2 DEF GuardPasses
  <2> HIDE DEF whole, ran, noted
  <2>3. noted =
          [step |-> pass.step, text |-> pass.text, same |-> pass.same, run |-> pass.run,
           whole |-> whole, ran |-> ran]
    BY <2>1 DEF GuardPasses
  <2>4. pass.whole \subseteq whole /\ pass.ran \subseteq ran
        /\ (GuardVersion(u.text) # 0 => GuardVersion(u.text) \in whole)
        /\ (rec.result = "read" => rec.version \in ran)
    BY DEF whole, ran
  <2>5. noted \in GuardPasses
    BY <2>2, <2>3 DEF GuardPasses
  <2> QED BY <2>3, <2>4, <2>5 DEF noted
<1> QED BY <1>3, <1>4

\* Steps of the unit, and an agent that starts again.
LEMMA BecomesKeepsGuards ==
  ASSUME GuardsInv, NEW u \in [up : BOOLEAN, text : Texts, image : Made],
         NEW rec \in RunRecords, GuardedBecomes(u, rec),
         ownCopy' = ownCopy, hookChanges' \in 0 .. MaxHookChanges
  PROVE  GuardsInv'
<1>1. guardPass \in GuardPasses
  BY DEF GuardsInv, GuardsTypeOK
<1>2. guardPass' = LivedThrough(guardPass, u, rec)
  BY DEF GuardedBecomes
<1>3. /\ guardPass' \in GuardPasses
      /\ guardPass'.step = guardPass.step /\ guardPass'.text = guardPass.text
      /\ guardPass'.same = guardPass.same /\ guardPass'.run = guardPass.run
      /\ guardPass.whole \subseteq guardPass'.whole /\ guardPass.ran \subseteq guardPass'.ran
      /\ guardPass.step # 0 =>
           /\ GuardVersion(u.text) # 0 => GuardVersion(u.text) \in guardPass'.whole
           /\ rec.result = "read" => rec.version \in guardPass'.ran
  BY <1>1, <1>2, LivedThroughNotes
<1>4. guarded' = u /\ lastRun' = rec
      /\ UNCHANGED <<guardKind, lent, guards, keptReport>>
  BY DEF GuardedBecomes
<1>5. GuardsTypeOK'
  BY <1>3, <1>4 DEF GuardsInv, GuardsTypeOK
<1>6. PassNotes'
  BY <1>3, <1>4 DEF PassNotes
<1>7. PassReadTrue'
  BY <1>3, <1>4 DEF GuardsInv, PassReadTrue
<1>8. IsTrueReport(guards)' /\ IsTrueReport(keptReport)'
  BY <1>4 DEF GuardsInv, IsTrueReport
<1> QED BY <1>5, <1>6, <1>7, <1>8 DEF GuardsInv

LEMMA UnitKeepsGuards ==
  ASSUME GuardsInv,
         \/ \E made \in Made : InstallHooks(made)
         \/ \E text \in {"changed", "missing"} : HooksChange(text)
         \/ StartsOrStops
         \/ \E result \in {"read", "unread"} : LeaveRecord(result)
  PROVE  GuardsInv'
<1>t. GuardsTypeOK
  BY DEF GuardsInv
<1>u. guarded \in [up : BOOLEAN, text : Texts, image : Made] /\ lastRun \in RunRecords
      /\ hookChanges \in 0 .. MaxHookChanges
  BY <1>t DEF GuardsTypeOK
<1>c. HookChange => hookChanges' \in 0 .. MaxHookChanges
  BY <1>u, GuardsAssumption DEF HookChange
<1>1. CASE \E made \in Made : InstallHooks(made)
  <2>1. PICK made \in Made, rec \in {lastRun, NoRun} :
          /\ GuardedBecomes([up |-> TRUE, text |-> made, image |-> made], rec)
          /\ HookChange /\ ownCopy' = ownCopy
    BY <1>1 DEF InstallHooks
  <2>2. rec \in RunRecords /\ [up |-> TRUE, text |-> made, image |-> made] \in
          [up : BOOLEAN, text : Texts, image : Made]
    BY <1>u, NoPassIs DEF Texts
  <2> QED BY <2>1, <2>2, <1>c, BecomesKeepsGuards
<1>2. CASE \E text \in {"changed", "missing"} : HooksChange(text)
  <2>1. PICK text \in {"changed", "missing"} :
          /\ GuardedBecomes([guarded EXCEPT !.text = text], lastRun)
          /\ HookChange /\ ownCopy' = ownCopy
    BY <1>2 DEF HooksChange
  <2>2. [guarded EXCEPT !.text = text] \in [up : BOOLEAN, text : Texts, image : Made]
    BY <1>u DEF Texts
  <2> QED BY <2>1, <2>2, <1>u, <1>c, BecomesKeepsGuards
<1>3. CASE StartsOrStops
  <2>1. [guarded EXCEPT !.up = ~@] \in [up : BOOLEAN, text : Texts, image : Made]
    BY <1>u
  <2> QED BY <1>3, <2>1, <1>u, BecomesKeepsGuards DEF StartsOrStops
<1>4. CASE \E result \in {"read", "unread"} : LeaveRecord(result)
  <2>1. PICK result \in {"read", "unread"} : LeaveRecord(result)
    BY <1>4
  <2>2. [version |-> GuardVersion(guarded.text), result |-> result] \in RunRecords
    BY <2>1, <1>u, VersionIs DEF LeaveRecord, RunRecords
  <2> QED BY <2>1, <2>2, <1>u, BecomesKeepsGuards DEF LeaveRecord
<1> QED BY <1>1, <1>2, <1>3, <1>4

\* A pass reads on.
LEMMA ReadingKeepsGuards ==
  ASSUME GuardsInv, ReadMore
  PROVE  GuardsInv'
<1>t. /\ guarded \in [up : BOOLEAN, text : Texts, image : Made] /\ lastRun \in RunRecords
      /\ guardPass \in GuardPasses
  BY DEF GuardsInv, GuardsTypeOK
<1>k. UNCHANGED <<guardKind, lent, guarded, lastRun, ownCopy, guards, keptReport,
                  hookChanges>>
  BY DEF ReadMore
<1>1. CASE InspectUnit
  <2> DEFINE begun == [NoGuardPass EXCEPT !.step = 1, !.text = guarded.image]
  <2>1. begun \in GuardPasses /\ begun.step = 1
    <3>1. PICK r : r = begun
      OBVIOUS
    <3>2. r = [step |-> 1, text |-> guarded.image, same |-> NoGuardPass.same,
               run |-> NoGuardPass.run, whole |-> NoGuardPass.whole,
               ran |-> NoGuardPass.ran]
      BY <3>1, NoPassIs DEF GuardPasses
    <3>3. r \in GuardPasses
      BY <3>2, <1>t, NoPassIs DEF GuardPasses, Texts
    <3> QED BY <3>1, <3>2, <3>3
  <2>2. guardPass' = LivedThrough(begun, guarded, lastRun)
    BY <1>1 DEF InspectUnit
  <2> HIDE DEF begun
  <2>3. guardPass' \in GuardPasses /\ guardPass'.step = 1
        /\ (GuardVersion(guarded.text) # 0 => GuardVersion(guarded.text) \in guardPass'.whole)
        /\ (lastRun.result = "read" => lastRun.version \in guardPass'.ran)
    BY <2>1, <2>2, <1>t, LivedThroughNotes
  <2> QED
    BY <1>k, <2>3 DEF GuardsInv, GuardsTypeOK, PassNotes, PassReadTrue, IsTrueReport
<1>2. CASE ImageGuardFiles
  <2>1. CASE guarded.text = "missing"
    <3>1. guardPass' = NoGuardPass /\ NoGuardPass.step = 0
      BY <1>2, <2>1 DEF ImageGuardFiles, NoGuardPass
    <3> QED
      BY <1>k, <3>1, NoPassIs
      DEF GuardsInv, GuardsTypeOK, PassNotes, PassReadTrue, IsTrueReport
  <2>2. CASE guarded.text # "missing"
    <3>1. guardPass' = [guardPass EXCEPT !.step = 2, !.same = guarded.text = guardPass.text]
          /\ guardPass.step = 1 /\ guardKind = "linux"
      BY <1>2, <2>2 DEF ImageGuardFiles
    <3> DEFINE same == guarded.text = guardPass.text
    <3>2. same \in BOOLEAN /\ (same => guarded.text = guardPass.text)
      OBVIOUS
    <3> HIDE DEF same
    <3>3. guardPass' = [step |-> 2, text |-> guardPass.text, same |-> same,
                        run |-> guardPass.run, whole |-> guardPass.whole,
                        ran |-> guardPass.ran]
      BY <3>1, <1>t DEF GuardPasses, same
    <3>4. guardPass' \in GuardPasses
      BY <3>2, <3>3, <1>t DEF GuardPasses
    <3> QED
      BY <1>k, <3>1, <3>2, <3>3, <3>4
      DEF GuardsInv, GuardsTypeOK, PassNotes, PassReadTrue, IsTrueReport
  <2> QED BY <2>1, <2>2
<1>3. CASE ReadRecord
  <2> DEFINE begun == [NoGuardPass EXCEPT !.step = 2, !.run = lastRun]
  <2>1. begun \in GuardPasses /\ begun.step = 2 /\ begun.run = lastRun
    <3>1. PICK r : r = begun
      OBVIOUS
    <3>2. r = [step |-> 2, text |-> NoGuardPass.text, same |-> NoGuardPass.same,
               run |-> lastRun, whole |-> NoGuardPass.whole, ran |-> NoGuardPass.ran]
      BY <3>1, NoPassIs DEF GuardPasses
    <3>3. r \in GuardPasses
      BY <3>2, <1>t, NoPassIs DEF GuardPasses
    <3> QED BY <3>1, <3>2, <3>3
  <2>2. guardPass' = LivedThrough(begun, guarded, lastRun) /\ guardKind # "linux"
    BY <1>3 DEF ReadRecord
  <2> HIDE DEF begun
  <2>3. guardPass' \in GuardPasses /\ guardPass'.step = 2 /\ guardPass'.run = lastRun
        /\ (GuardVersion(guarded.text) # 0 => GuardVersion(guarded.text) \in guardPass'.whole)
        /\ (lastRun.result = "read" => lastRun.version \in guardPass'.ran)
    BY <2>1, <2>2, <1>t, LivedThroughNotes
  <2> QED
    BY <1>k, <2>2, <2>3
    DEF GuardsInv, GuardsTypeOK, PassNotes, PassReadTrue, IsTrueReport
<1> QED BY <1>1, <1>2, <1>3 DEF ReadMore

\* What a report says of what was read is true if the version is one of a whole
\* tree, and the record one of the pass.
LEMMA ReportIsTrue ==
  ASSUME GuardsInv, NEW version \in 0 .. 2, NEW same \in BOOLEAN, NEW rec \in RunRecords,
         NEW asOwn \in BOOLEAN, asOwn => lent,
         same /\ version # 0 => version \in guardPass.whole,
         version # 0 /\ rec.result = "read" => rec.version \in guardPass.ran
  PROVE  LET says == Report(version, same, rec, asOwn)
         IN says \in Reports /\ IsTrueReport(says)
<1> DEFINE carries == Carried(version, same)
           last == IF rec.version = version THEN rec.result ELSE "none"
<1>1. carries \in 0 .. 2 /\ last \in {"none", "read", "unread"}
  BY DEF Carried, RunRecords
<1>2. /\ carries # 0 => carries \in guardPass.whole
      /\ carries # 0 /\ last = "read" => carries \in guardPass.ran
  BY DEF Carried
<1>3. Report(version, same, rec, asOwn) = Dated(carries, last, asOwn)
  BY DEF Report
<1> HIDE DEF carries, last
<1> QED
  BY <1>1, <1>2, <1>3, GuardsAssumption
  DEF Dated, Reports, IsTrueReport, ReportAges, TooOld

LEMMA MeasuringKeepsGuards ==
  ASSUME GuardsInv, MeasureGuard
  PROVE  GuardsInv'
<1>t. /\ guarded \in [up : BOOLEAN, text : Texts, image : Made] /\ lastRun \in RunRecords
      /\ guardPass \in GuardPasses /\ lent \in BOOLEAN /\ guardPass.step = 2
      /\ ownCopy \in Texts
  BY DEF GuardsInv, GuardsTypeOK, MeasureGuard, Texts, Made
<1>v. \A text \in Texts : GuardVersion(text) \in 0 .. 2
  BY VersionIs
<1>1. guards' \in Reports /\ IsTrueReport(guards')
  <2>1. CASE guardKind = "linux"
    <3>1. PICK asOwn \in BOOLEAN : guards' = LinuxReport(asOwn)
      BY <2>1 DEF MeasureGuard
    <3> DEFINE version == GuardVersion(guardPass.text)
               rec == IF guarded.up THEN lastRun ELSE NoRun
               own == lent /\ asOwn /\ guarded.up
    <3>2. version \in 0 .. 2 /\ guardPass.same \in BOOLEAN
      BY <1>t, <1>v DEF GuardPasses
    <3>3. rec \in RunRecords /\ own \in BOOLEAN
      BY <1>t, NoPassIs
    <3>4. guardPass.same /\ version # 0 => version \in guardPass.whole
      BY <1>t, <2>1 DEF GuardsInv, PassReadTrue
    <3>5. rec.result = "read" => rec.version \in guardPass.ran
      BY <1>t DEF GuardsInv, PassNotes, NoRun
    <3>6. guards' = Report(version, guardPass.same, rec, own)
      BY <3>1 DEF LinuxReport
    <3>7. own => lent
      OBVIOUS
    <3> HIDE DEF version, rec, own
    <3> QED BY <3>2, <3>3, <3>4, <3>5, <3>6, <3>7, ReportIsTrue
  <2>2. CASE guardKind # "linux"
    <3> DEFINE version == IF guarded.text = "missing" THEN 0 ELSE GuardVersion(ownCopy)
               same == guarded.text = ownCopy
    <3>1. version \in 0 .. 2 /\ guardPass.run \in RunRecords /\ same \in BOOLEAN
      BY <1>t, <1>v DEF GuardPasses
    <3>2. same /\ version # 0 => version \in guardPass.whole
      BY <1>t DEF GuardsInv, PassNotes
    <3>3. guardPass.run.result = "read" => guardPass.run.version \in guardPass.ran
      BY <1>t, <2>2 DEF GuardsInv, PassReadTrue
    <3>4. guards' = Report(version, same, guardPass.run, lent)
      BY <2>2 DEF MeasureGuard, MeasureTree
    <3> HIDE DEF version, same
    <3> QED BY <1>t, <3>1, <3>2, <3>3, <3>4, ReportIsTrue
  <2> QED BY <2>1, <2>2
<1>2. guardPass' = NoGuardPass /\ NoGuardPass.step = 0
  BY DEF MeasureGuard, NoGuardPass
<1> QED
  BY <1>1, <1>2, NoPassIs
  DEF MeasureGuard, GuardsInv, GuardsTypeOK, PassNotes, PassReadTrue, IsTrueReport

LEMMA OlderReportIsTrue ==
  ASSUME NEW report \in Reports, IsTrueReport(report)
  PROVE  OlderReport(report) \in Reports /\ IsTrueReport(OlderReport(report))
<1>1. CASE Later(report.age) = TooOld
  BY <1>1, SilentIsTrue DEF OlderReport
<1>2. CASE Later(report.age) # TooOld
  <2>1. Later(report.age) \in ReportAges
    BY <1>2, GuardsAssumption DEF Later, TooOld, Reports, ReportAges
  <2>2. OlderReport(report) = [report EXCEPT !.age = Later(report.age),
                                              !.ended = Later(report.ended)]
    BY <1>2 DEF OlderReport
  <2> QED BY <2>1, <2>2 DEF Reports, IsTrueReport
<1> QED BY <1>1, <1>2

LEMMA GuardsNextInv == GuardsInv /\ [GuardsNext]_guardVars => GuardsInv'
<1> SUFFICES ASSUME GuardsInv, [GuardsNext]_guardVars PROVE GuardsInv'
  OBVIOUS
<1>n. NoGuardPass.step = 0
  BY DEF NoGuardPass
<1>1. CASE \E text \in {"first", "second"} : AgentDeployed(text)
  BY <1>1, <1>n, NoPassIs, SilentIsTrue, GuardsAssumption
  DEF AgentDeployed, HookChange, GuardsInv, GuardsTypeOK, PassNotes, PassReadTrue, IsTrueReport
<1>2. CASE GuardUnread
  BY <1>2, <1>n, NoPassIs
  DEF GuardUnread, GuardsInv, GuardsTypeOK, PassNotes, PassReadTrue, IsTrueReport
<1>3. CASE MergeGuard
  BY <1>3 DEF MergeGuard, GuardsInv, GuardsTypeOK, PassNotes, PassReadTrue, IsTrueReport
<1>4. CASE GuardTick
  <2>1. /\ guards' \in Reports /\ IsTrueReport(guards')
        /\ keptReport' \in Reports /\ IsTrueReport(keptReport')
    BY <1>4, OlderReportIsTrue DEF GuardTick, GuardsInv, GuardsTypeOK
  <2> QED
    BY <1>4, <2>1 DEF GuardTick, GuardsInv, GuardsTypeOK, PassNotes, PassReadTrue, IsTrueReport
<1>5. CASE UNCHANGED guardVars
  BY <1>5 DEF guardVars, GuardsInv, GuardsTypeOK, PassNotes, PassReadTrue, IsTrueReport
<1> QED
  BY <1>1, <1>2, <1>3, <1>4, <1>5, UnitKeepsGuards, ReadingKeepsGuards, MeasuringKeepsGuards
  DEF GuardsNext

\* A runner counts as proven, and is lent, by hooks it had whole and a record they
\* left in a pass that ended as lately as the report may be old, whatever is
\* done to the unit in that pass and after it, for any windows
\* (origin_guard.py, heartbeat.py, api_v2.py, federation_provision.py).
THEOREM GuardReportsHold == GuardsSpec => []GuardReportsAreTrue
<1>1. GuardsInv => GuardReportsAreTrue
  <2> SUFFICES ASSUME GuardsInv PROVE ProvenIsTrue /\ LentIsTrue
    BY DEF GuardsInv, GuardReportsAreTrue
  <2>1. keptReport.age \in Nat /\ IsTrueReport(keptReport)
    BY GuardsAssumption DEF GuardsInv, GuardsTypeOK, Reports, ReportAges, TooOld
  <2>2. ProvenIsTrue
    BY <2>1, GuardsAssumption DEF ProvenIsTrue, GuardState, IsTrueReport
  <2>3. LentIsTrue
    BY <2>1 DEF LentIsTrue, Admitted, IsTrueReport
  <2> QED BY <2>2, <2>3
<1> QED BY <1>1, GuardsInitInv, GuardsNextInv, PTL DEF GuardsSpec

-----------------------------------------------------------------------------
(* What a deep pass finds in a cache.                                      *)

\* What is found is dated when its walk ends, which is not to come.
IsDated(finding) ==
  Found(finding) => finding.at = finding.ended /\ finding.at <= moment

DatedAsFound ==
  /\ moment \in 1 .. LastMoment
  /\ IsDated(walk.storage)
  /\ \A name \in Names : IsDated(depths[name]) /\ IsDated(meters[name])

\* A reading brought about a clear only if it asked for one, and none while the
\* one it asked for goes on.
ClearsAreClaimed ==
  /\ \A date \in Moments : cleared[date] # 0 => date \in claims
  /\ clearing.open /\ clearing.by # 0 =>
       clearing.by \in claims /\ cleared[clearing.by] = 0

MetersInv ==
  MetersTypeOK /\ OneClearPerReading /\ BoundaryOfTheReading
  /\ DatedAsFound /\ ClearsAreClaimed

LEMMA MetersInitInv == MetersInit => MetersInv
BY ReadingsAssumption
   DEF MetersInit, MetersInv, MetersTypeOK, OneClearPerReading, BoundaryOfTheReading,
       DatedAsFound, ClearsAreClaimed, IsDated, Found, NoFinding, NotClearing, Names,
       Sizes, Caps, Moments, Findings

\* Steps of the unit.
LEMMA UnitKeepsMeters ==
  ASSUME MetersInv,
         \/ \E size \in Sizes : Fills(size)
         \/ Switches
         \/ \E cap \in Caps : Recreate(cap)
         \/ ClearScopes
  PROVE  MetersInv'
<1>1. PICK u \in [on : BOOLEAN, cache : Sizes, cap : Caps] :
        /\ CacheBecomes(u)
        /\ UNCHANGED <<meterKind, depths, meters, shownCap, clearing, claims,
                       cleared, moment>>
  BY DEF MetersInv, MetersTypeOK, Fills, Switches, Recreate, ClearScopes, Sizes
<1>2. /\ holds' = u /\ walk'.storage = walk.storage
      /\ walk' \in [step : {"rest"} \cup Names, saw : SUBSET Sizes,
                    storage : Findings \cup {NoFinding}, last : Moments]
  BY <1>1 DEF CacheBecomes, MetersInv, MetersTypeOK
<1> QED
  BY <1>1, <1>2
  DEF MetersInv, MetersTypeOK, OneClearPerReading, BoundaryOfTheReading,
      DatedAsFound, ClearsAreClaimed, IsDated, Found

\* What a probe says is dated.
LEMMA ProbeIsDated ==
  ASSUME MetersInv, NEW name \in Names, NEW counts \in SUBSET Sizes,
         NEW found \in Probe(name, counts)
  PROVE  found \in Findings \cup {NoFinding} /\ IsDated(found)
<1>1. CASE found = NoFinding
  BY <1>1 DEF IsDated, Found, NoFinding
<1>2. CASE \E size \in Sizes : found =
             [size |-> size, at |-> moment, ended |-> moment,
              cap |-> IF name = "cache" THEN holds.cap ELSE "none"]
  BY <1>2, ReadingsAssumption DEF MetersInv, MetersTypeOK, DatedAsFound, IsDated, Findings, Moments, Caps
<1> QED BY <1>1, <1>2 DEF Probe

\* Steps of the agent.
LEMMA AgentKeepsMeters ==
  ASSUME MetersInv, BeginDepth \/ StorageProbed \/ MeasureDepth \/ AgentStarts
  PROVE  MetersInv'
<1> USE ReadingsAssumption
<1>t. MetersTypeOK /\ DatedAsFound
  BY DEF MetersInv
<1>1. CASE BeginDepth
  BY <1>1
  DEF BeginDepth, MetersInv, MetersTypeOK, OneClearPerReading, BoundaryOfTheReading,
      DatedAsFound, ClearsAreClaimed, IsDated, Found, Names
<1>2. CASE StorageProbed
  <2>1. PICK found \in Probe("storage", {"within"}) :
          walk' = [walk EXCEPT !.step = "cache", !.saw = {holds.cache},
                               !.storage = found]
    BY <1>2 DEF StorageProbed
  <2>2. found \in Findings \cup {NoFinding} /\ IsDated(found)
    BY <2>1, ProbeIsDated DEF Names, Sizes
  <2> QED
    BY <1>2, <1>t, <2>1, <2>2
    DEF StorageProbed, MetersInv, MetersTypeOK, OneClearPerReading,
        BoundaryOfTheReading, DatedAsFound, ClearsAreClaimed, IsDated, Found, Names
<1>3. CASE MeasureDepth
  <2>1. PICK found \in Probe("cache", walk.saw) :
          depths' = [storage |-> walk.storage, cache |-> found]
    BY <1>3 DEF MeasureDepth
  <2>2. found \in Findings \cup {NoFinding} /\ IsDated(found)
    BY <1>t, <2>1, ProbeIsDated DEF Names, MetersTypeOK
  <2>3. /\ depths' \in [Names -> Findings \cup {NoFinding}]
        /\ \A name \in Names : depths'[name] \in {walk.storage, found}
    BY <1>t, <2>1, <2>2 DEF MetersTypeOK, Names
  <2>4. IsDated(NoFinding)
    BY DEF IsDated, Found, NoFinding
  <2> QED
    BY <1>3, <1>t, <2>2, <2>3, <2>4
    DEF MeasureDepth, MetersInv, MetersTypeOK, OneClearPerReading,
        BoundaryOfTheReading, DatedAsFound, ClearsAreClaimed, IsDated, Found, Names, Moments
<1>4. CASE AgentStarts
  <2>1. IsDated(NoFinding)
    BY DEF IsDated, Found, NoFinding
  <2> QED
    BY <1>4, <1>t, <2>1
    DEF AgentStarts, MetersInv, MetersTypeOK, OneClearPerReading,
        BoundaryOfTheReading, DatedAsFound, ClearsAreClaimed, IsDated, Found, Names
<1> QED BY <1>1, <1>2, <1>3, <1>4

\* A beat keeps the dates of what it brings, and its boundary.
LEMMA BeatKeepsMeters ==
  ASSUME MetersInv, MergeTelemetry
  PROVE  MetersInv'
<1>t. MetersTypeOK /\ DatedAsFound /\ BoundaryOfTheReading
  BY DEF MetersInv
<1>1. \A name \in Names : meters'[name] \in {depths[name], meters[name]}
  <2> SUFFICES ASSUME NEW name \in Names, Found(depths[name])
               PROVE  [depths[name] EXCEPT !.at = depths[name].at] = depths[name]
    BY DEF MergeTelemetry, Kept
  <2>1. depths[name] \in Findings
    BY <1>t DEF MetersTypeOK, Found, NoFinding
  <2> QED BY <2>1 DEF Findings
<1>2. meters' \in [Names -> Findings \cup {NoFinding}]
  BY <1>t, <1>1 DEF MergeTelemetry, Kept, MetersTypeOK
<1>3. meters'["cache"] = IF Found(depths["cache"]) THEN depths["cache"]
                         ELSE meters["cache"]
  <2>1. depths["cache"] \in Findings \cup {NoFinding}
    BY <1>t DEF MetersTypeOK, Names
  <2>2. Found(depths["cache"]) =>
          [depths["cache"] EXCEPT !.at = depths["cache"].at] = depths["cache"]
    BY <2>1 DEF Findings, Found, NoFinding
  <2> QED BY <2>2 DEF MergeTelemetry, Kept, Names
<1>4. BoundaryOfTheReading'
  BY <1>t, <1>3 DEF MergeTelemetry, BoundaryOfTheReading
<1>5. shownCap' \in Caps
  BY <1>t DEF MergeTelemetry, MetersTypeOK, Found, Findings, NoFinding, Names
<1>6. DatedAsFound'
  BY <1>t, <1>1 DEF MergeTelemetry, Kept, DatedAsFound, IsDated, Found
<1> QED
  BY <1>2, <1>4, <1>5, <1>6
  DEF MergeTelemetry, Kept, MetersInv, MetersTypeOK, OneClearPerReading,
      ClearsAreClaimed

\* Steps of a clear.
LEMMA ClearKeepsMeters ==
  ASSUME MetersInv, QueueCacheBudget \/ ClearByHand \/ ClearSucceeds \/ ClearFails
  PROVE  MetersInv'
<1> USE DEF MetersInv, MetersTypeOK, OneClearPerReading, BoundaryOfTheReading,
            DatedAsFound, ClearsAreClaimed
<1>1. CASE QueueCacheBudget
  <2>1. meters["cache"].at \in Moments \ {0}
    BY <1>1 DEF QueueCacheBudget, OverBudget, Found, Findings, NoFinding, Names
  <2> QED
    BY <1>1, <2>1
    DEF QueueCacheBudget, OverBudget, AskForClear, NotClearing, IsDated, Found
<1>2. CASE ClearByHand
  BY <1>2 DEF ClearByHand, NotClearing, Moments, IsDated, Found
<1>3. CASE ClearFails
  BY <1>3, ReadingsAssumption DEF ClearFails, NotClearing, Moments, IsDated, Found
<1>4. CASE ClearSucceeds
  <2>1. IsDated(NoFinding) /\ ~Found(NoFinding)
    BY DEF IsDated, Found, NoFinding
  <2>2. meters' = [meters EXCEPT !["cache"] = NoFinding]
    BY <1>4 DEF ClearSucceeds
  <2>3. /\ meters' \in [Names -> Findings \cup {NoFinding}]
        /\ \A name \in Names : IsDated(meters'[name])
        /\ ~Found(meters'["cache"])
    BY <2>1, <2>2 DEF Names
  <2>4. clearing.by \in Moments /\ cleared \in [Moments -> 0 .. 2]
        /\ cleared' = [cleared EXCEPT ![clearing.by] =
                         IF clearing.by = 0 THEN 0 ELSE @ + 1]
        /\ clearing.open
    BY <1>4 DEF ClearSucceeds
  <2>5. CASE clearing.by = 0
    BY <1>4, <2>3, <2>4, <2>5 DEF ClearSucceeds, NotClearing, IsDated, Found
  <2>6. CASE clearing.by # 0
    <3>1. cleared[clearing.by] = 0 /\ clearing.by \in claims
      BY <2>4, <2>6
    <3>2. /\ cleared' \in [Moments -> 0 .. 2]
          /\ \A date \in Moments : cleared'[date] <= 1
          /\ \A date \in Moments : cleared'[date] # 0 => date \in claims
      BY <2>4, <2>6, <3>1
    <3>3. clearing' = NotClearing /\ claims' = claims /\ moment' = moment
          /\ depths' = depths /\ walk' = walk /\ meterKind' = meterKind
          /\ holds' = holds /\ shownCap' = shownCap
      BY <1>4 DEF ClearSucceeds
    <3> QED
      BY <2>3, <3>2, <3>3, ReadingsAssumption DEF NotClearing, IsDated, Found, Moments
  <2> QED BY <2>5, <2>6
<1> QED BY <1>1, <1>2, <1>3, <1>4

LEMMA MetersNextInv == MetersInv /\ [MetersNext]_meterVars => MetersInv'
<1> SUFFICES ASSUME MetersInv, [MetersNext]_meterVars PROVE MetersInv'
  OBVIOUS
<1>1. CASE MeterTick
  BY <1>1, ReadingsAssumption
  DEF MeterTick, MetersInv, MetersTypeOK, OneClearPerReading, BoundaryOfTheReading,
      DatedAsFound, ClearsAreClaimed, IsDated, Found, Moments, Findings, NoFinding, Names
<1>2. CASE UNCHANGED meterVars
  BY <1>2
  DEF meterVars, MetersInv, MetersTypeOK, OneClearPerReading, BoundaryOfTheReading,
      DatedAsFound, ClearsAreClaimed, IsDated, Found
<1> QED
  BY <1>1, <1>2, UnitKeepsMeters, AgentKeepsMeters, BeatKeepsMeters, ClearKeepsMeters
  DEF MetersNext

\* One reading brings about one clear at most, a card shows no figure older than
\* it says and none against the boundary of another walk, for any number of
\* moments (_queue_cache_budget, _merge_telemetry, _measured).
THEOREM CacheReadingsHold == MetersSpec => []CacheReadingsAreTrue
<1>1. MetersInv => CacheReadingsAreTrue
  <2> SUFFICES ASSUME MetersInv, NEW name \in Names, Shown(name)
               PROVE  moment - meters[name].ended <= StorageFresh
    BY DEF CacheReadingsAreTrue, ShownIsRecent, MetersInv
  <2> QED BY DEF MetersInv, DatedAsFound, IsDated, Shown
<1> QED BY <1>1, MetersInitInv, MetersNextInv, PTL DEF MetersSpec

\* What a row keeps of a deep pass is as true and as old as it says, and asks
\* for one clear at most (origin_guard.py, heartbeat.py, inventory.py,
\* api_v2.py, cards.py, federation_provision.py, reconciler.py).
THEOREM ReadingsHold == GuardsSpec /\ MetersSpec => []ReadingsAreTrue
BY GuardReportsHold, CacheReadingsHold, PTL DEF ReadingsAreTrue
=============================================================================
