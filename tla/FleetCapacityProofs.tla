------------------------ MODULE FleetCapacityProofs ------------------------
(***************************************************************************)
(* What is proved about FleetCapacity, for any number of runners, clients  *)
(* and keys.                                                               *)
(***************************************************************************)
EXTENDS FleetCapacity, FiniteSetTheorems, TLAPS

(***************************************************************************)
(* The inductive invariant.                                                *)
(***************************************************************************)

\* A call under way has its keys; one that retires has its runner.
InOrder(x) ==
  /\ x.at # "idle" => x.key \in Keys /\ x.opkey \in OpKeys
  /\ x.at \in {"mark", "fleet"} \/ x.verb = "retire" => x.runner \in Runners
CallsInOrder == \A c \in Clients : InOrder(calls[c])

\* Whoever is about to write found the key unused, and marked it.
Claimed ==
  \A c \in Clients :
    /\ calls[c].at = "write" => operations[calls[c].opkey] # "none"
    /\ calls[c].at = "mark" => operations[calls[c].key] # "none"

\* What is still to be planned fits under the capacity that was read.
GapLeft ==
  pass.at = "plan" =>
    /\ pass.missing > 0
    /\ Cardinality(Present) + pass.missing <= pass.capacity + pass.joined

\* Those who are not victims are as many as the capacity that was read, less
\* the ones a request retired since.
EnoughStay ==
  pass.at = "mark" =>
    Cardinality(Keepers \ pass.victims) + pass.left >= pass.capacity

IInv == TypeOK /\ CallsInOrder /\ Claimed /\ AppliedOnce /\ GapLeft /\ EnoughStay
-----------------------------------------------------------------------------
(***************************************************************************)
(* Types.                                                                  *)
(***************************************************************************)

LEMMA FiniteParts ==
  ASSUME FleetAssumption
  PROVE  \A S \in SUBSET Runners : IsFiniteSet(S) /\ Cardinality(S) \in Nat
BY FS_Subset, FS_CardinalityType DEF FleetAssumption

LEMMA GoesTyped ==
  ASSUME TypeOK, CallsInOrder, NEW c \in Clients,
         NEW x \in CALLS, InOrder(x), Goes(c, x)
  PROVE  calls' \in [Clients -> CALLS] /\ CallsInOrder'
BY DEF TypeOK, CallsInOrder, Goes

LEMMA NoCallTyped ==
  ASSUME FleetAssumption
  PROVE  NoCall \in CALLS /\ InOrder(NoCall)
BY DEF NoCall, CALLS, InOrder, FleetAssumption

\* What a request that goes on to its next step makes of its call.
LEMMA GoingOn ==
  ASSUME NEW x \in CALLS, InOrder(x), x.at # "idle"
  PROVE  /\ \A to \in {"write", "fleet"} :
              LET y == [x EXCEPT !.at = to] IN
              y \in CALLS /\ (to = "write" \/ x.verb = "retire" => InOrder(y))
         /\ \A n \in 0..MaxCapacity, to \in {"open", "adopt"} :
              LET y == [x EXCEPT !.at = to, !.target = n] IN
              y \in CALLS /\ InOrder(y)
         /\ LET y == [x EXCEPT !.at = "mark", !.fresh = TRUE] IN
            y \in CALLS /\ (x.verb = "retire" => InOrder(y))
         /\ \A n \in 0..MaxCapacity, k \in OpKeys :
              LET y == [x EXCEPT !.at = "open", !.target = n, !.opkey = k] IN
              y \in CALLS /\ InOrder(y)
<1>1. \A to \in {"write", "fleet"} :
        LET y == [x EXCEPT !.at = to] IN
        y \in CALLS /\ (to = "write" \/ x.verb = "retire" => InOrder(y))
  BY DEF CALLS, InOrder
<1>2. \A n \in 0..MaxCapacity, to \in {"open", "adopt"} :
        LET y == [x EXCEPT !.at = to, !.target = n] IN
        y \in CALLS /\ InOrder(y)
  BY DEF CALLS, InOrder
<1>3. LET y == [x EXCEPT !.at = "mark", !.fresh = TRUE] IN
      y \in CALLS /\ (x.verb = "retire" => InOrder(y))
  BY DEF CALLS, InOrder
<1>4. \A n \in 0..MaxCapacity, k \in OpKeys :
        LET y == [x EXCEPT !.at = "open", !.target = n, !.opkey = k] IN
        y \in CALLS /\ InOrder(y)
  BY DEF CALLS, InOrder
<1> QED BY <1>1, <1>2, <1>3, <1>4

LEMMA OutdatedTyped ==
  ASSUME TypeOK, CallsInOrder, NEW r
  PROVE  /\ Outdated(r) \in [Clients -> CALLS]
         /\ \A c \in Clients :
              /\ InOrder(Outdated(r)[c])
              /\ Outdated(r)[c].at = calls[c].at
              /\ Outdated(r)[c].key = calls[c].key
              /\ Outdated(r)[c].opkey = calls[c].opkey
<1>1. ASSUME NEW x \in CALLS, InOrder(x)
      PROVE  LET y == [x EXCEPT !.fresh = FALSE] IN
             /\ y \in CALLS /\ InOrder(y)
             /\ y.at = x.at /\ y.key = x.key /\ y.opkey = x.opkey
  BY <1>1 DEF CALLS, InOrder
<1>2. \A c \in Clients : calls[c] \in CALLS /\ InOrder(calls[c])
  BY DEF TypeOK, CallsInOrder
<1> QED BY <1>1, <1>2 DEF Outdated

LEMMA CallTyped ==
  ASSUME TypeOK, CallsInOrder, NEW c \in Clients
  PROVE  /\ calls[c] \in CALLS /\ InOrder(calls[c])
         /\ calls[c].target \in 0..MaxCapacity
         /\ calls[c].at # "idle" =>
              calls[c].key \in Keys /\ calls[c].key \in OpKeys
                /\ calls[c].opkey \in OpKeys
BY DEF TypeOK, CallsInOrder, InOrder, CALLS, OpKeys

LEMMA AnswersTyped ==
  ASSUME FleetAssumption, TypeOK, CallsInOrder, NEW c \in Clients,
         calls[c].at # "idle", Answers(c) \/ Refuses(c)
  PROVE  /\ calls' \in [Clients -> CALLS] /\ CallsInOrder'
         /\ answered' \subseteq Keys
BY GoesTyped, NoCallTyped, CallTyped DEF Answers, Refuses, TypeOK

LEMMA RequestTyped ==
  ASSUME FleetAssumption, TypeOK, CallsInOrder, NEW c \in Clients, Request(c)
  PROVE  TypeOK' /\ CallsInOrder'
<1>0. /\ calls[c] \in CALLS /\ InOrder(calls[c])
      /\ calls[c].target \in 0..MaxCapacity
      /\ calls[c].at # "idle" =>
           calls[c].key \in Keys /\ calls[c].key \in OpKeys
             /\ calls[c].opkey \in OpKeys
  BY CallTyped
<1>1. CASE Scale(c)
  <2>1. calls[c].at # "idle" /\ calls[c].at = "look"
    BY <1>1 DEF Scale
  <2>2. calls' \in [Clients -> CALLS] /\ CallsInOrder' /\ answered' \subseteq Keys
    <3> DEFINE target == capacity + (IF calls[c].verb = "add" THEN 1 ELSE -1)
    <3>1. CASE Answers(c) \/ Refuses(c)
      BY <3>1, <2>1, AnswersTyped
    <3>2. CASE /\ target \in 0..MaxCapacity
               /\ Goes(c, [calls[c] EXCEPT !.at = "open", !.target = target])
               /\ UNCHANGED answered
      BY <3>2, <2>1, <1>0, GoingOn, GoesTyped DEF TypeOK
    <3>3. target \in Int
      BY DEF TypeOK
    <3> QED BY <3>1, <3>2, <3>3, <1>1 DEF Scale, FleetAssumption
  <2> QED BY <2>2, <1>1 DEF Scale, TypeOK
<1>2. CASE OpenCapacity(c)
  <2>1. calls[c].at # "idle" /\ calls[c].at = "open"
    BY <1>2 DEF OpenCapacity
  <2>2. calls' \in [Clients -> CALLS] /\ CallsInOrder' /\ answered' \subseteq Keys
    <3>1. CASE Answers(c)
      BY <3>1, <2>1, AnswersTyped
    <3>2. CASE Goes(c, [calls[c] EXCEPT !.at = "write"]) /\ UNCHANGED answered
      BY <3>2, <2>1, <1>0, GoingOn, GoesTyped DEF TypeOK
    <3> QED BY <3>1, <3>2, <1>2 DEF OpenCapacity
  <2>3. operations' \in [OpKeys -> {"none", "desired", "capacity", "done"}]
    BY <1>2 DEF OpenCapacity, TypeOK
  <2> QED BY <2>2, <2>3, <1>2 DEF OpenCapacity, TypeOK
<1>3. CASE WriteCapacity(c)
  BY <1>3, <1>0, AnswersTyped DEF WriteCapacity, TypeOK
<1>4. CASE OpenDesired(c)
  <2>1. calls[c].at # "idle" /\ calls[c].verb = "retire"
    BY <1>4 DEF OpenDesired
  <2>2. calls' \in [Clients -> CALLS] /\ CallsInOrder'
    <3>1. CASE Goes(c, [calls[c] EXCEPT !.at = "fleet"])
      BY <3>1, <2>1, <1>0, GoingOn, GoesTyped
    <3>2. CASE Goes(c, [calls[c] EXCEPT !.at = "mark", !.fresh = TRUE])
      BY <3>2, <2>1, <1>0, GoingOn, GoesTyped
    <3> QED BY <3>1, <3>2, <1>4 DEF OpenDesired
  <2>3. operations' \in [OpKeys -> {"none", "desired", "capacity", "done"}]
    BY <1>4 DEF OpenDesired, TypeOK
  <2> QED BY <2>2, <2>3, <1>4 DEF OpenDesired, TypeOK
<1>5. CASE MarkAbsent(c)
  <2> DEFINE r == calls[c].runner
  <2>1. calls[c].at = "mark" /\ r \in Runners
    BY <1>5, <1>0 DEF MarkAbsent, InOrder
  <2>2. calls' \in [Clients -> CALLS] /\ CallsInOrder'
    <3>1. [calls[c] EXCEPT !.at = "fleet"] \in CALLS
          /\ InOrder([calls[c] EXCEPT !.at = "fleet"])
      BY <2>1, <1>0 DEF CALLS, InOrder
    <3>2. Outdated(r) \in [Clients -> CALLS]
          /\ \A d \in Clients : InOrder(Outdated(r)[d])
      BY OutdatedTyped
    <3>3. calls' = [Outdated(r) EXCEPT ![c] = [calls[c] EXCEPT !.at = "fleet"]]
      BY <1>5 DEF MarkAbsent
    <3> HIDE DEF r
    <3> QED BY <3>1, <3>2, <3>3 DEF CallsInOrder
  <2>3. rows' \in [Runners -> ROWS]
    BY <1>5, <2>1 DEF MarkAbsent, TypeOK, ROWS
  <2>4. operations' \in [OpKeys -> {"none", "desired", "capacity", "done"}]
    BY <1>5 DEF MarkAbsent, TypeOK
  <2>5. pass' \in PASSES
    <3>1. CASE pass.at = "off"
      BY <3>1, <1>5 DEF MarkAbsent, During, TypeOK
    <3>2. CASE pass' = [pass EXCEPT !.fresh = @ \ {r},
                          !.left = IF rows[r].stays THEN @ + 1 ELSE @]
      <4> DEFINE n == IF rows[r].stays THEN pass.left + 1 ELSE pass.left
                 f == pass.fresh \ {r}
      <4>1. n \in Nat /\ f \in SUBSET Runners /\ pass \in PASSES
        BY DEF TypeOK, PASSES
      <4>2. pass' = [pass EXCEPT !.fresh = f, !.left = n]
        BY <3>2
      <4> HIDE DEF n, f
      <4> QED BY <4>1, <4>2 DEF PASSES
    <3> QED BY <3>1, <3>2, <1>5 DEF MarkAbsent, During
  <2> QED BY <2>2, <2>3, <2>4, <2>5, <1>5 DEF MarkAbsent, TypeOK
<1>6. CASE Overtaken(c)
  BY <1>6, AnswersTyped DEF Overtaken, TypeOK
<1>7. CASE LowerCapacity(c)
  <2>1. calls[c].at = "fleet" /\ calls[c].runner \in Runners
    BY <1>7, <1>0 DEF LowerCapacity, InOrder
  <2>2. calls' \in [Clients -> CALLS] /\ CallsInOrder' /\ answered' \subseteq Keys
    <3>1. CASE Answers(c)
      BY <3>1, <2>1, AnswersTyped
    <3>2. CASE /\ capacity > 0
               /\ Goes(c, [calls[c] EXCEPT !.at = "open", !.target = capacity - 1,
                             !.opkey = RetireKey(calls[c].runner, capacity)])
               /\ UNCHANGED answered
      <4>1. capacity - 1 \in 0..MaxCapacity
        BY <3>2 DEF TypeOK, FleetAssumption
      <4>2. RetireKey(calls[c].runner, capacity) \in OpKeys
        BY <3>2, <2>1 DEF RetireKey, OpKeys, TypeOK, FleetAssumption
      <4> QED BY <4>1, <4>2, <3>2, <2>1, <1>0, GoingOn, GoesTyped DEF TypeOK
    <3> QED BY <3>1, <3>2, <1>7 DEF LowerCapacity
  <2>3. intents' \in [Keys -> INTENTS]
    BY <1>7 DEF LowerCapacity, TypeOK, INTENTS
  <2> QED BY <2>2, <2>3, <1>7 DEF LowerCapacity, TypeOK
<1>8. CASE AdoptLook(c)
  <2>1. calls[c].at # "idle"
    BY <1>8 DEF AdoptLook
  <2>2. calls' \in [Clients -> CALLS] /\ CallsInOrder' /\ answered' \subseteq Keys
    <3>1. CASE Refuses(c)
      BY <3>1, <2>1, AnswersTyped
    <3>2. CASE /\ ~(capacity + 1 > MaxCapacity)
               /\ Goes(c, [calls[c] EXCEPT !.at = "adopt", !.target = capacity + 1])
               /\ UNCHANGED answered
      <4>1. capacity + 1 \in 0..MaxCapacity
        BY <3>2 DEF TypeOK, FleetAssumption
      <4> QED BY <4>1, <3>2, <2>1, <1>0, GoingOn, GoesTyped DEF TypeOK
    <3> QED BY <3>1, <3>2, <1>8 DEF AdoptLook
  <2> QED BY <2>2, <1>8 DEF AdoptLook, TypeOK
<1>9. ASSUME NEW r \in Runners, Adopt(c, r) PROVE TypeOK' /\ CallsInOrder'
  <2>1. calls' \in [Clients -> CALLS] /\ CallsInOrder' /\ answered' \subseteq Keys
    BY <1>9, AnswersTyped DEF Adopt
  <2>2. rows' \in [Runners -> ROWS]
    BY <1>9 DEF Adopt, TypeOK, ROWS, Planned, PLACES
  <2>3. pass' \in PASSES
    BY <1>9 DEF Adopt, During, TypeOK, PASSES
  <2> QED BY <2>1, <2>2, <2>3, <1>9, <1>0 DEF Adopt, TypeOK
<1> QED BY <1>1, <1>2, <1>3, <1>4, <1>5, <1>6, <1>7, <1>8, <1>9 DEF Request

LEMMA BeginTyped ==
  ASSUME FleetAssumption, TypeOK, CallsInOrder,
         NEW c \in Clients, NEW k \in Keys, NEW verb \in Verbs,
         NEW r \in Runners \cup {NoRunner}, Begin(c, k, verb, r)
  PROVE  TypeOK' /\ CallsInOrder'
<1>1. calls' \in [Clients -> CALLS] /\ CallsInOrder'
  <2> DEFINE was == verb = "retire" /\ rows[r].stays
             call == [NoCall EXCEPT !.verb = verb, !.key = k, !.opkey = k,
                        !.runner = r, !.at = "look", !.was = was]
  <2>1. was \in BOOLEAN
    BY DEF Begin, TypeOK, ROWS
  <2>2. verb = "retire" => r \in Runners
    BY DEF Begin, Present
  <2>3. call \in CALLS /\ InOrder(call)
    <3> HIDE DEF was
    <3> QED BY <2>1, <2>2, NoCallTyped DEF NoCall, CALLS, InOrder, OpKeys
  <2>4. Goes(c, call)
    BY DEF Begin
  <2> HIDE DEF call
  <2> QED BY <2>3, <2>4, GoesTyped
<1>2. intents' \in [Keys -> INTENTS]
  <2> DEFINE adds == CASE verb \in {"add", "adopt"} -> 1
                       [] verb = "drop" -> -1
                       [] OTHER -> IF rows[r].stays THEN -1
                                   ELSE IF operations[k] = "done"
                                   THEN intents[k].adds ELSE 0
             intent == [verb |-> verb, runner |-> r, adds |-> adds]
  <2>1. adds \in {-1, 0, 1}
    BY DEF TypeOK, INTENTS
  <2>2. intent \in INTENTS
    BY <2>1 DEF INTENTS
  <2>3. intents' = IF k \in answered THEN intents
                   ELSE [intents EXCEPT ![k] = intent]
    BY DEF Begin
  <2> HIDE DEF intent
  <2> QED BY <2>2, <2>3 DEF TypeOK
<1> QED BY <1>1, <1>2 DEF Begin, TypeOK

LEMMA ReviveTyped ==
  ASSUME TypeOK, CallsInOrder, NEW r \in Runners, Revive(r)
  PROVE  TypeOK' /\ CallsInOrder'
<1>1. calls' \in [Clients -> CALLS] /\ CallsInOrder'
  BY OutdatedTyped DEF Revive, CallsInOrder
<1>2. rows' \in [Runners -> ROWS]
  BY DEF Revive, TypeOK, ROWS
<1>3. pass' \in PASSES
  BY DEF Revive, TypeOK, PASSES
<1> QED BY <1>1, <1>2, <1>3 DEF Revive, TypeOK

LEMMA RequestDiesTyped ==
  ASSUME FleetAssumption, TypeOK, CallsInOrder, NEW c \in Clients, RequestDies(c)
  PROVE  TypeOK' /\ CallsInOrder'
BY AnswersTyped DEF RequestDies, TypeOK

LEMMA NoPassTyped ==
  ASSUME FleetAssumption
  PROVE  NoPass \in PASSES
BY DEF NoPass, PASSES, FleetAssumption

\* Where a step of a pass takes a runner is one of the places.
LEMMA StepsTyped ==
  ASSUME TypeOK, CallsInOrder, NEW r \in Runners,
         Advance(r) \/ Drift(r)
  PROVE  TypeOK' /\ CallsInOrder'
<1> DEFINE places == IF Advance(r) THEN Forward(rows[r]) ELSE Sideways(rows[r])
<1>1. Steps(r, places) /\ places \subseteq PLACES
  BY DEF Advance, Drift, Forward, Sideways, PLACES
<1> HIDE DEF places
<1>2. calls' \in [Clients -> CALLS] /\ CallsInOrder'
  BY <1>1, OutdatedTyped DEF Steps, CallsInOrder
<1>3. rows' \in [Runners -> ROWS]
  <2>1. PICK to \in places :
          rows' = [rows EXCEPT ![r] = IF to = "absent" THEN Gone
                                      ELSE [@ EXCEPT !.at = to]]
    BY <1>1 DEF Steps
  <2>2. [rows[r] EXCEPT !.at = to] \in ROWS /\ Gone \in ROWS
    BY <1>1 DEF TypeOK, ROWS, Gone, PLACES
  <2> QED BY <2>1, <2>2 DEF TypeOK
<1>4. pass' \in PASSES
  BY <1>1 DEF Steps, TypeOK, PASSES
<1> QED BY <1>1, <1>2, <1>3, <1>4 DEF Steps, TypeOK

LEMMA PassTyped ==
  ASSUME FleetAssumption, TypeOK, CallsInOrder, GapLeft, Pass
  PROVE  TypeOK' /\ CallsInOrder'
<1>1. CASE BeginPass
  <2>1. pass' \in PASSES
    BY <1>1, NoPassTyped DEF BeginPass, TypeOK, PASSES
  <2> QED BY <2>1, <1>1 DEF BeginPass, PassOnly, TypeOK, CallsInOrder
<1>2. CASE Converge
  <2>1. pass' \in PASSES
    <3>1. CASE Missing > 0 /\ pass' = [pass EXCEPT !.at = "plan", !.missing = Missing]
      <4>1. Missing \in 0..MaxCapacity
        <5>1. Cardinality(Present) \in Nat
          BY FiniteParts DEF Present
        <5>2. pass.capacity \in 0..MaxCapacity /\ MaxCapacity \in Nat
          BY DEF TypeOK, PASSES, FleetAssumption
        <5> QED BY <5>1, <5>2, <3>1 DEF Missing
      <4> HIDE DEF Missing
      <4> QED BY <4>1, <3>1 DEF TypeOK, PASSES
    <3>2. ASSUME NEW victims \in Cheapest(Excess),
                 pass' = [pass EXCEPT !.at = "mark", !.victims = victims,
                                      !.fresh = victims]
          PROVE  pass' \in PASSES
      <4>1. victims \in SUBSET Runners
        BY DEF Cheapest, Keepers, Present
      <4> QED BY <4>1, <3>2 DEF TypeOK, PASSES
    <3>3. ASSUME NEW to \in {"close", "specs"}, pass' = [pass EXCEPT !.at = to]
          PROVE  pass' \in PASSES
      BY <3>3 DEF TypeOK, PASSES
    <3> QED BY <3>1, <3>2, <3>3, <1>2 DEF Converge
  <2> QED BY <2>1, <1>2 DEF Converge, PassOnly, TypeOK, CallsInOrder
<1>3. CASE CloseOperations
  BY <1>3 DEF CloseOperations, PassOnly, TypeOK, CallsInOrder, PASSES
<1>4. CASE ListSpecs
  BY <1>4 DEF ListSpecs, PassOnly, TypeOK, CallsInOrder, PASSES, Present
<1>5. CASE EndPass
  BY <1>5, NoPassTyped DEF EndPass, PassOnly, TypeOK, CallsInOrder
<1>6. CASE PlanRefused
  <2>1. pass' \in PASSES
    <3>1. 0 \in 0..MaxCapacity
      BY DEF FleetAssumption
    <3>2. pass' = [pass EXCEPT !.missing = 0, !.at = "specs"]
      BY <1>6 DEF PlanRefused
    <3> QED BY <3>1, <3>2 DEF TypeOK, PASSES
  <2> QED BY <2>1, <1>6 DEF PlanRefused, PassOnly, TypeOK, CallsInOrder
<1>7. ASSUME NEW r \in Runners, PlanOne(r) PROVE TypeOK' /\ CallsInOrder'
  <2>1. rows' \in [Runners -> ROWS]
    BY <1>7 DEF PlanOne, TypeOK, ROWS, Planned, PLACES
  <2>2. pass' \in PASSES
    <3>1. pass.missing - 1 \in 0..MaxCapacity
      BY <1>7 DEF PlanOne, GapLeft, TypeOK, PASSES, FleetAssumption
    <3> QED BY <3>1, <1>7 DEF PlanOne, TypeOK, PASSES
  <2> QED BY <2>1, <2>2, <1>7 DEF PlanOne, PassOnly, TypeOK, CallsInOrder
<1>8. ASSUME NEW v \in Runners, Mark(v) PROVE TypeOK' /\ CallsInOrder'
  <2>1. CASE v \in pass.fresh
    <3>1. calls' \in [Clients -> CALLS] /\ CallsInOrder'
      BY <2>1, <1>8, OutdatedTyped DEF Mark, CallsInOrder
    <3>2. rows' \in [Runners -> ROWS]
      <4>1. rows' = [rows EXCEPT ![v].stays = FALSE]
        BY <2>1, <1>8 DEF Mark
      <4> QED BY <4>1 DEF TypeOK, ROWS
    <3>3. pass' \in PASSES
      <4> DEFINE to == IF pass.victims = {v} THEN "specs" ELSE pass.at
                 left == pass.victims \ {v}
                 fresh == pass.fresh \ {v}
      <4>1. pass' = [pass EXCEPT !.victims = left, !.fresh = fresh, !.at = to]
        BY <2>1, <1>8 DEF Mark
      <4>2. /\ to \in {"specs", "mark"} /\ left \in SUBSET Runners
            /\ fresh \in SUBSET Runners
        BY <1>8 DEF Mark, TypeOK, PASSES
      <4> HIDE DEF to, left, fresh
      <4> QED BY <4>1, <4>2 DEF TypeOK, PASSES
    <3> QED BY <3>1, <3>2, <3>3, <1>8 DEF Mark, TypeOK
  <2>2. CASE v \notin pass.fresh
    <3>1. /\ pass' = [pass EXCEPT !.victims = {}, !.at = "specs"]
          /\ UNCHANGED <<rows, calls>>
      BY <2>2, <1>8 DEF Mark
    <3>2. pass' \in PASSES
      BY <3>1 DEF TypeOK, PASSES
    <3> QED BY <3>1, <3>2, <1>8 DEF Mark, TypeOK, CallsInOrder
  <2> QED BY <2>1, <2>2
<1>9. ASSUME NEW r \in Runners, Advance(r) \/ Drift(r)
      PROVE  TypeOK' /\ CallsInOrder'
  BY <1>9, StepsTyped
<1>10. ASSUME NEW r \in Runners, Held(r) PROVE TypeOK' /\ CallsInOrder'
  BY <1>10 DEF Held, PassOnly, TypeOK, PASSES, CallsInOrder
<1> QED BY <1>1, <1>2, <1>3, <1>4, <1>5, <1>6, <1>7, <1>8, <1>9, <1>10 DEF Pass

LEMMA StepTyped ==
  ASSUME FleetAssumption, TypeOK, CallsInOrder, GapLeft, [Next]_vars
  PROVE  TypeOK' /\ CallsInOrder'
<1>1. CASE Pass
  BY <1>1, PassTyped
<1>2. CASE PassDies
  BY <1>2, NoPassTyped DEF PassDies, PassOnly, TypeOK, CallsInOrder
<1>3. ASSUME NEW r \in Runners, Revive(r) PROVE TypeOK' /\ CallsInOrder'
  BY <1>3, ReviveTyped
<1>4. ASSUME NEW c \in Clients, Request(c) PROVE TypeOK' /\ CallsInOrder'
  BY <1>4, RequestTyped
<1>5. ASSUME NEW c \in Clients, RequestDies(c) PROVE TypeOK' /\ CallsInOrder'
  BY <1>5, RequestDiesTyped
<1>6. ASSUME NEW c \in Clients, NEW k \in Keys, NEW verb \in Verbs,
             NEW r \in Runners \cup {NoRunner}, Begin(c, k, verb, r)
      PROVE  TypeOK' /\ CallsInOrder'
  BY <1>6, BeginTyped
<1>7. CASE UNCHANGED vars
  BY <1>7 DEF vars, TypeOK, CallsInOrder
<1> QED BY <1>1, <1>2, <1>3, <1>4, <1>5, <1>6, <1>7 DEF Next

-----------------------------------------------------------------------------
(***************************************************************************)
(* Keys.                                                                   *)
(***************************************************************************)

\* What a step does to the calls and the keys: one call moves, the others
\* are outdated at most, and no key that was used becomes unused.
KeysKept ==
  \A k \in OpKeys : operations[k] # "none" => operations'[k] # "none"
Same(x, y) == x.at = y.at /\ x.key = y.key /\ x.opkey = y.opkey

LEMMA ClaimedKept ==
  ASSUME TypeOK, CallsInOrder, Claimed, AppliedOnce, KeysKept,
         \A c \in Clients : Same(calls'[c], calls[c])
  PROVE  Claimed' /\ AppliedOnce'
BY CallTyped DEF Claimed, AppliedOnce, KeysKept, Same

\* The call of `c` moved, and it neither writes nor marks now, or the key it
\* does so for was unused.
LEMMA ClaimedOnce ==
  ASSUME TypeOK, CallsInOrder, Claimed, AppliedOnce, KeysKept,
         NEW c \in Clients,
         \A d \in Clients \ {c} : Same(calls'[d], calls[d]),
         calls'[c].at = "write" =>
           operations[calls'[c].opkey] = "none"
             /\ operations'[calls'[c].opkey] # "none",
         calls'[c].at = "mark" =>
           operations[calls'[c].key] = "none"
             /\ operations'[calls'[c].key] # "none"
  PROVE  Claimed' /\ AppliedOnce'
<1>1. \A d \in Clients \ {c} :
        /\ calls'[d].at = "write" => operations[calls'[d].opkey] # "none"
        /\ calls'[d].at = "mark" => operations[calls'[d].key] # "none"
  BY DEF Claimed, Same
<1>2. Claimed'
  <2> SUFFICES ASSUME NEW d \in Clients
               PROVE  /\ calls'[d].at = "write" => operations'[calls'[d].opkey] # "none"
                      /\ calls'[d].at = "mark" => operations'[calls'[d].key] # "none"
    BY DEF Claimed
  <2>1. CASE d = c
    BY <2>1
  <2>2. CASE d # c
    BY <2>2, <1>1, CallTyped DEF KeysKept, Same
  <2> QED BY <2>1, <2>2
<1>3. AppliedOnce'
  <2> SUFFICES ASSUME NEW d \in Clients, NEW e \in Clients,
                      calls'[d].at \in {"write", "mark"}, calls'[d].at = calls'[e].at,
                      IF calls'[d].at = "write"
                      THEN calls'[d].opkey = calls'[e].opkey
                      ELSE calls'[d].key = calls'[e].key
               PROVE  d = e
    BY DEF AppliedOnce
  <2>1. CASE d # c /\ e # c
    BY <2>1 DEF AppliedOnce, Same
  <2>2. CASE d = c /\ e # c
    BY <2>2, <1>1
  <2>3. CASE d # c /\ e = c
    BY <2>3, <1>1
  <2> QED BY <2>1, <2>2, <2>3
<1> QED BY <1>2, <1>3

LEMMA GoesAlone ==
  ASSUME TypeOK, NEW c \in Clients, NEW x, Goes(c, x)
  PROVE  calls'[c] = x /\ \A d \in Clients \ {c} : Same(calls'[d], calls[d])
BY DEF Goes, TypeOK, Same

LEMMA OutdatedSame ==
  ASSUME TypeOK, CallsInOrder, NEW r
  PROVE  \A c \in Clients : Same(Outdated(r)[c], calls[c])
BY OutdatedTyped DEF Same

LEMMA RequestClaims ==
  ASSUME TypeOK, CallsInOrder, Claimed, AppliedOnce,
         NEW c \in Clients, Request(c) \/ RequestDies(c)
  PROVE  Claimed' /\ AppliedOnce'
<1>1. calls[c] \in CALLS /\ (calls[c].at # "idle" =>
        calls[c].key \in OpKeys /\ calls[c].opkey \in OpKeys)
  BY CallTyped
<1>2. CASE Answers(c) \/ Refuses(c)
  <2>1. KeysKept
    BY DEF Request, RequestDies, Scale, OpenCapacity, WriteCapacity, OpenDesired,
       MarkAbsent, Overtaken, LowerCapacity, AdoptLook, Adopt, KeysKept, TypeOK
  <2>2. calls'[c].at = "idle" /\ \A d \in Clients \ {c} : Same(calls'[d], calls[d])
    BY <1>2, GoesAlone DEF Answers, Refuses, NoCall
  <2> QED BY <2>1, <2>2, ClaimedOnce
<1>3. ASSUME NEW x \in CALLS, Goes(c, x), x.at \in {"open", "fleet", "adopt"},
             UNCHANGED operations
      PROVE  Claimed' /\ AppliedOnce'
  BY <1>3, GoesAlone, ClaimedOnce DEF KeysKept
<1>4. CASE OpenCapacity(c) /\ operations[calls[c].opkey] = "none"
  <2> DEFINE x == [calls[c] EXCEPT !.at = "write"]
  <2>1. x.at = "write" /\ x.opkey = calls[c].opkey
    BY <1>1 DEF CALLS
  <2>2. Goes(c, x) /\ operations' = [operations EXCEPT ![calls[c].opkey] = "capacity"]
        /\ calls[c].opkey \in OpKeys
    BY <1>4, <1>1 DEF OpenCapacity
  <2> HIDE DEF x
  <2>3. calls'[c] = x /\ \A d \in Clients \ {c} : Same(calls'[d], calls[d])
    BY <2>2, GoesAlone
  <2>4. KeysKept /\ operations'[x.opkey] = "capacity"
    BY <2>1, <2>2 DEF KeysKept, TypeOK
  <2> QED BY <1>4, <2>1, <2>3, <2>4, ClaimedOnce
<1>5. CASE OpenDesired(c) /\ operations[calls[c].key] = "none"
  <2> DEFINE x == [calls[c] EXCEPT !.at = "mark", !.fresh = TRUE]
  <2>1. x.at = "mark" /\ x.key = calls[c].key
    BY <1>1 DEF CALLS
  <2>2. Goes(c, x) /\ operations' = [operations EXCEPT ![calls[c].key] = "desired"]
        /\ calls[c].key \in OpKeys
    BY <1>5, <1>1 DEF OpenDesired
  <2> HIDE DEF x
  <2>3. calls'[c] = x /\ \A d \in Clients \ {c} : Same(calls'[d], calls[d])
    BY <2>2, GoesAlone
  <2>4. KeysKept /\ operations'[x.key] = "desired"
    BY <2>1, <2>2 DEF KeysKept, TypeOK
  <2> QED BY <1>5, <2>1, <2>3, <2>4, ClaimedOnce
<1>6. CASE OpenDesired(c) /\ operations[calls[c].key] # "none"
  <2>1. /\ [calls[c] EXCEPT !.at = "fleet"] \in CALLS
        /\ [calls[c] EXCEPT !.at = "fleet"].at = "fleet"
    BY <1>1 DEF CALLS
  <2>2. Goes(c, [calls[c] EXCEPT !.at = "fleet"]) /\ UNCHANGED operations
    BY <1>6 DEF OpenDesired
  <2> QED BY <2>1, <2>2, <1>3
<1>7. CASE MarkAbsent(c)
  <2> DEFINE r == calls[c].runner
  <2>1. calls' = [Outdated(r) EXCEPT ![c] = [calls[c] EXCEPT !.at = "fleet"]]
        /\ operations' = [operations EXCEPT ![calls[c].key] = "done"]
        /\ calls[c].key \in OpKeys
    BY <1>7, <1>1 DEF MarkAbsent
  <2> HIDE DEF r
  <2>2. [calls[c] EXCEPT !.at = "fleet"].at = "fleet"
    BY <1>1 DEF CALLS
  <2>3. /\ calls'[c].at = "fleet"
        /\ \A d \in Clients \ {c} : Same(calls'[d], calls[d])
    BY <2>1, <2>2, OutdatedSame, OutdatedTyped
  <2>4. KeysKept
    BY <2>1 DEF KeysKept, TypeOK
  <2> QED BY <2>3, <2>4, ClaimedOnce
<1>8. CASE Scale(c) \/ LowerCapacity(c) \/ AdoptLook(c)
  <2>1. UNCHANGED operations
    BY <1>8 DEF Scale, LowerCapacity, AdoptLook
  <2>2. \/ Answers(c) \/ Refuses(c)
        \/ \E n, k : Goes(c, [calls[c] EXCEPT !.at = "open", !.target = n, !.opkey = k])
        \/ \E n, to : to \in {"open", "adopt"}
                      /\ Goes(c, [calls[c] EXCEPT !.at = to, !.target = n])
    BY <1>8 DEF Scale, LowerCapacity, AdoptLook
  <2>3. ASSUME NEW n, NEW k,
               Goes(c, [calls[c] EXCEPT !.at = "open", !.target = n, !.opkey = k])
        PROVE  Claimed' /\ AppliedOnce'
    <3>1. [calls[c] EXCEPT !.at = "open", !.target = n, !.opkey = k].at = "open"
      BY <1>1 DEF CALLS
    <3> QED BY <3>1, <2>1, <2>3, GoesAlone, ClaimedOnce DEF KeysKept
  <2>4. ASSUME NEW n, NEW to \in {"open", "adopt"},
               Goes(c, [calls[c] EXCEPT !.at = to, !.target = n])
        PROVE  Claimed' /\ AppliedOnce'
    <3>1. [calls[c] EXCEPT !.at = to, !.target = n].at = to
      BY <1>1 DEF CALLS
    <3> QED BY <3>1, <2>1, <2>4, GoesAlone, ClaimedOnce DEF KeysKept
  <2> QED BY <2>2, <2>3, <2>4, <1>2
<1>9. CASE WriteCapacity(c) \/ Overtaken(c) \/ RequestDies(c)
           \/ (\E r \in Runners : Adopt(c, r))
           \/ (OpenCapacity(c) /\ operations[calls[c].opkey] # "none")
  BY <1>9, <1>2 DEF WriteCapacity, Overtaken, RequestDies, Adopt, OpenCapacity
<1> QED BY <1>4, <1>5, <1>6, <1>7, <1>8, <1>9 DEF Request

LEMMA StepClaims ==
  ASSUME FleetAssumption, TypeOK, CallsInOrder, Claimed, AppliedOnce, [Next]_vars
  PROVE  Claimed' /\ AppliedOnce'
<1>1. ASSUME UNCHANGED calls, KeysKept PROVE Claimed' /\ AppliedOnce'
  BY <1>1, ClaimedKept DEF Same
<1>2. ASSUME NEW r, calls' = Outdated(r), UNCHANGED operations
      PROVE  Claimed' /\ AppliedOnce'
  BY <1>2, ClaimedKept, OutdatedSame DEF KeysKept
<1>3. CASE Pass
  <2>1. CASE BeginPass \/ Converge \/ ListSpecs \/ EndPass \/ PlanRefused
             \/ (\E r \in Runners : PlanOne(r) \/ Held(r))
    BY <2>1, <1>1 DEF BeginPass, Converge, ListSpecs, EndPass, PlanRefused, PlanOne,
       Held, PassOnly, KeysKept
  <2>2. CASE CloseOperations
    BY <2>2, <1>1 DEF CloseOperations, PassOnly, KeysKept, TypeOK
  <2>3. ASSUME NEW r \in Runners, Mark(r) \/ Advance(r) \/ Drift(r)
        PROVE  Claimed' /\ AppliedOnce'
    <3>1. UNCHANGED operations /\ (UNCHANGED calls \/ calls' = Outdated(r))
      BY <2>3 DEF Mark, Advance, Drift, Steps
    <3> QED BY <3>1, <1>1, <1>2 DEF KeysKept
  <2> QED BY <1>3, <2>1, <2>2, <2>3 DEF Pass
<1>4. CASE PassDies
  BY <1>4, <1>1 DEF PassDies, PassOnly, KeysKept
<1>5. ASSUME NEW r \in Runners, Revive(r) PROVE Claimed' /\ AppliedOnce'
  BY <1>5, <1>2 DEF Revive
<1>6. ASSUME NEW c \in Clients, Request(c) \/ RequestDies(c)
      PROVE  Claimed' /\ AppliedOnce'
  BY <1>6, RequestClaims
<1>7. ASSUME NEW c \in Clients, NEW k \in Keys, NEW verb \in Verbs,
             NEW r \in Runners \cup {NoRunner}, Begin(c, k, verb, r)
      PROVE  Claimed' /\ AppliedOnce'
  <2> DEFINE x == [NoCall EXCEPT !.verb = verb, !.key = k, !.opkey = k,
                     !.runner = r, !.at = "look",
                     !.was = verb = "retire" /\ rows[r].stays]
  <2>1. x.at = "look"
    BY DEF NoCall
  <2>2. Goes(c, x) /\ UNCHANGED operations
    BY <1>7 DEF Begin
  <2> HIDE DEF x
  <2> QED BY <2>1, <2>2, GoesAlone, ClaimedOnce DEF KeysKept
<1>8. CASE UNCHANGED vars
  BY <1>8, <1>1 DEF vars, KeysKept
<1> QED BY <1>3, <1>4, <1>5, <1>6, <1>7, <1>8 DEF Next

-----------------------------------------------------------------------------
(***************************************************************************)
(* Counting.                                                               *)
(***************************************************************************)

LEMMA Grows ==
  ASSUME FleetAssumption, NEW S \in SUBSET Runners, NEW r \in Runners, r \notin S
  PROVE  Cardinality(S \cup {r}) = Cardinality(S) + 1
BY FiniteParts, FS_AddElement

LEMMA Contained ==
  ASSUME FleetAssumption, NEW S \in SUBSET Runners, NEW T \in SUBSET S
  PROVE  Cardinality(T) <= Cardinality(S)
BY FiniteParts, FS_Subset

LEMMA LosesOne ==
  ASSUME FleetAssumption, NEW S \in SUBSET Runners, NEW r,
         NEW T \in SUBSET Runners, S \ {r} \subseteq T
  PROVE  Cardinality(T) + 1 >= Cardinality(S)
<1>1. Cardinality(S \ {r}) <= Cardinality(T) /\ Cardinality(T) \in Nat
      /\ Cardinality(S) \in Nat
  BY Contained, FiniteParts
<1>2. CASE r \in S
  BY <1>1, <1>2, FiniteParts, FS_RemoveElement
<1>3. CASE r \notin S
  <2>1. S \ {r} = S
    BY <1>3
  <2>2. Cardinality(S) <= Cardinality(T)
    BY <2>1, <1>1
  <2> QED BY <2>2, <1>1
<1> QED BY <1>2, <1>3

\* A row that changes in the middle of a plan or a scale-down: a new one, one
\* that is marked, or one that is taken back.
LEMMA PresentAfter ==
  ASSUME TypeOK, NEW r \in Runners
  PROVE  /\ rows' = [rows EXCEPT ![r] = Planned] =>
              Present' = Present \cup {r} /\ Keepers' = Keepers \cup {r}
         /\ rows' = [rows EXCEPT ![r].stays = FALSE] =>
              Present' = Present /\ Keepers' = Keepers \ {r}
         /\ rows' = [rows EXCEPT ![r].stays = TRUE] =>
              Present' = Present /\ Keepers \subseteq Keepers'
<1>1. ASSUME rows' = [rows EXCEPT ![r] = Planned]
      PROVE  Present' = Present \cup {r} /\ Keepers' = Keepers \cup {r}
  BY <1>1 DEF TypeOK, Planned, Present, Keepers
<1>2. ASSUME rows' = [rows EXCEPT ![r].stays = FALSE]
      PROVE  Present' = Present /\ Keepers' = Keepers \ {r}
  <2>1. /\ rows'[r] = [rows[r] EXCEPT !.stays = FALSE]
        /\ \A q \in Runners \ {r} : rows'[q] = rows[q]
    BY <1>2 DEF TypeOK
  <2>2. rows'[r].at = rows[r].at /\ rows'[r].stays = FALSE
    BY <2>1 DEF TypeOK, ROWS
  <2> QED BY <2>1, <2>2 DEF Present, Keepers
<1>3. ASSUME rows' = [rows EXCEPT ![r].stays = TRUE]
      PROVE  Present' = Present /\ Keepers \subseteq Keepers'
  <2>1. /\ rows'[r] = [rows[r] EXCEPT !.stays = TRUE]
        /\ \A q \in Runners \ {r} : rows'[q] = rows[q]
    BY <1>3 DEF TypeOK
  <2>2. rows'[r].at = rows[r].at /\ rows'[r].stays = TRUE
    BY <2>1 DEF TypeOK, ROWS
  <2> QED BY <2>1, <2>2 DEF Present, Keepers
<1> QED BY <1>1, <1>2, <1>3

LEMMA Counts ==
  ASSUME FleetAssumption, TypeOK
  PROVE  /\ Present \in SUBSET Runners /\ Cardinality(Present) \in Nat
         /\ Keepers \in SUBSET Runners /\ Cardinality(Keepers) \in Nat
         /\ \A S : Keepers \ S \in SUBSET Runners /\ Cardinality(Keepers \ S) \in Nat
         /\ pass.capacity \in Nat /\ pass.missing \in Nat
         /\ pass.joined \in Nat /\ pass.left \in Nat /\ pass.victims \in SUBSET Runners
BY FiniteParts DEF Present, Keepers, TypeOK, PASSES, FleetAssumption

LEMMA RequestCounts ==
  ASSUME FleetAssumption, TypeOK, TypeOK', CallsInOrder, GapLeft, EnoughStay,
         NEW c \in Clients, Request(c)
  PROVE  GapLeft' /\ EnoughStay'
<1>1. CASE UNCHANGED <<rows, pass>>
  BY <1>1 DEF GapLeft, EnoughStay, Present, Keepers
<1>2. CASE MarkAbsent(c)
  <2> DEFINE r == calls[c].runner
             n == IF rows[r].stays THEN pass.left + 1 ELSE pass.left
  <2>1. r \in Runners
    BY <1>2 DEF MarkAbsent, CallsInOrder, InOrder
  <2>2. rows' = [rows EXCEPT ![r].stays = FALSE]
    BY <1>2 DEF MarkAbsent
  <2>3. Present' = Present /\ Keepers' = Keepers \ {r}
    BY <2>1, <2>2, PresentAfter
  <2>4. CASE pass.at = "off"
    BY <2>4, <1>2 DEF MarkAbsent, During, GapLeft, EnoughStay
  <2>5. CASE pass.at # "off"
    <3>1. pass' = [pass EXCEPT !.fresh = pass.fresh \ {r}, !.left = n]
      BY <2>5, <1>2 DEF MarkAbsent, During
    <3> HIDE DEF n
    <3>2. /\ pass'.at = pass.at /\ pass'.capacity = pass.capacity
          /\ pass'.missing = pass.missing /\ pass'.victims = pass.victims
          /\ pass'.joined = pass.joined /\ pass'.left = n
      BY <3>1 DEF TypeOK, PASSES
    <3>3. GapLeft'
      BY <2>3, <3>2 DEF GapLeft
    <3>4. ASSUME pass.at = "mark"
          PROVE  Cardinality(Keepers' \ pass.victims) + n >= pass.capacity
      <4>1. Cardinality(Keepers \ pass.victims) + pass.left >= pass.capacity
        BY <3>4 DEF EnoughStay
      <4>2. CASE rows[r].stays
        <5>1. Cardinality(Keepers' \ pass.victims) + 1 >= Cardinality(Keepers \ pass.victims)
          BY <2>3, LosesOne, Counts
        <5> QED BY <5>1, <4>1, <4>2, <2>3, Counts, FiniteParts DEF n
      <4>3. CASE ~rows[r].stays
        <5>1. Keepers' = Keepers
          BY <4>3, <2>3 DEF Keepers
        <5> QED BY <5>1, <4>1, <4>3 DEF n
      <4> QED BY <4>2, <4>3
    <3> QED BY <3>2, <3>3, <3>4 DEF EnoughStay
  <2> QED BY <2>4, <2>5
<1>3. ASSUME NEW r \in Runners, Adopt(c, r) PROVE GapLeft' /\ EnoughStay'
  <2>1. Present' = Present \cup {r} /\ Keepers' = Keepers \cup {r}
    BY <1>3, PresentAfter DEF Adopt
  <2>2. r \notin Present
    BY <1>3 DEF Adopt, Present
  <2>3. CASE pass.at = "off"
    BY <2>3, <1>3 DEF Adopt, During, GapLeft, EnoughStay
  <2>4. CASE pass.at # "off"
    <3>1. pass' = [pass EXCEPT !.joined = pass.joined + 1]
      BY <2>4, <1>3 DEF Adopt, During
    <3>2. /\ pass'.at = pass.at /\ pass'.capacity = pass.capacity
          /\ pass'.missing = pass.missing /\ pass'.victims = pass.victims
          /\ pass'.joined = pass.joined + 1 /\ pass'.left = pass.left
      BY <3>1 DEF TypeOK, PASSES
    <3>3. Cardinality(Present') = Cardinality(Present) + 1
      BY <2>1, <2>2, Grows, Counts
    <3>4. Cardinality(Keepers' \ pass.victims) >= Cardinality(Keepers \ pass.victims)
      <4>1. Keepers \ pass.victims \in SUBSET (Keepers' \ pass.victims)
        BY <2>1
      <4>2. Keepers' \ pass.victims \in SUBSET Runners
        BY <2>1, Counts
      <4> QED BY <4>1, <4>2, Contained, FiniteParts
    <3>5. GapLeft'
      BY <3>2, <3>3, Counts DEF GapLeft
    <3>6. EnoughStay'
      BY <3>2, <3>4, <2>1, Counts, FiniteParts DEF EnoughStay
    <3> QED BY <3>5, <3>6
  <2> QED BY <2>3, <2>4
<1> QED BY <1>1, <1>2, <1>3 DEF Request, Scale, OpenCapacity, WriteCapacity,
     OpenDesired, Overtaken, LowerCapacity, AdoptLook

LEMMA PassCounts ==
  ASSUME FleetAssumption, TypeOK, TypeOK', GapLeft, EnoughStay, Pass
  PROVE  GapLeft' /\ EnoughStay'
<1> DEFINE Elsewhere == pass'.at \notin {"plan", "mark"}
<1>1. Elsewhere => GapLeft' /\ EnoughStay'
  BY DEF GapLeft, EnoughStay
<1>2. CASE Converge
  <2>1. UNCHANGED rows
    BY <1>2 DEF Converge
  <2>2. Present' = Present /\ Keepers' = Keepers
    BY <2>1 DEF Present, Keepers
  <2>3. ASSUME Missing > 0,
               pass' = [pass EXCEPT !.at = "plan", !.missing = Missing]
        PROVE  GapLeft' /\ EnoughStay'
    <3>1. /\ pass'.at = "plan" /\ pass'.missing = Missing
          /\ pass'.capacity = pass.capacity /\ pass'.joined = pass.joined
      BY <2>3 DEF TypeOK, PASSES
    <3>2. GapLeft'
      BY <2>2, <2>3, <3>1, Counts DEF GapLeft, Missing
    <3> QED BY <3>1, <3>2 DEF EnoughStay
  <2>4. ASSUME NEW victims \in Cheapest(Excess),
               pass' = [pass EXCEPT !.at = "mark", !.victims = victims,
                                    !.fresh = victims]
        PROVE  GapLeft' /\ EnoughStay'
    <3>1. /\ pass'.at = "mark" /\ pass'.victims = victims
          /\ pass'.capacity = pass.capacity /\ pass'.left = pass.left
      BY <2>4 DEF TypeOK, PASSES
    <3>2. victims \subseteq Keepers /\ Cardinality(victims) = Excess
      BY DEF Cheapest
    <3>3. Cardinality(Keepers \ victims) = Cardinality(Keepers) - Cardinality(victims)
      <4>1. IsFiniteSet(Keepers)
        BY FiniteParts, Counts
      <4>2. Keepers \cap victims = victims
        BY <3>2
      <4>3. Cardinality(Keepers \ victims)
              = Cardinality(Keepers) - Cardinality(Keepers \cap victims)
        BY ONLY <4>1, FS_Difference
      <4> QED BY <4>2, <4>3
    <3>4. EnoughStay'
      BY <2>2, <3>1, <3>2, <3>3, Counts DEF EnoughStay, Excess
    <3> QED BY <3>1, <3>4 DEF GapLeft
  <2>5. ASSUME pass' = [pass EXCEPT !.at = IF Keepers \subseteq Serving
                                           THEN "close" ELSE "specs"]
        PROVE  Elsewhere
    <3> DEFINE to == IF Keepers \subseteq Serving THEN "close" ELSE "specs"
    <3>1. to \notin {"plan", "mark"}
      OBVIOUS
    <3>2. pass' = [pass EXCEPT !.at = to]
      BY <2>5
    <3> HIDE DEF to
    <3>3. pass'.at = to
      BY <3>2 DEF TypeOK, PASSES
    <3> QED BY <3>1, <3>3
  <2>6. \/ Missing > 0 /\ pass' = [pass EXCEPT !.at = "plan", !.missing = Missing]
        \/ \E victims \in Cheapest(Excess) :
             pass' = [pass EXCEPT !.at = "mark", !.victims = victims,
                                  !.fresh = victims]
        \/ pass' = [pass EXCEPT !.at = IF Keepers \subseteq Serving
                                       THEN "close" ELSE "specs"]
    BY <1>2, Zenon DEF Converge
  <2> QED BY <1>1, <2>3, <2>4, <2>5, <2>6, Zenon
<1>3. ASSUME NEW r \in Runners, PlanOne(r)
      PROVE  GapLeft' /\ EnoughStay'
  <2>1. /\ pass.at = "plan" /\ rows[r].at = "unborn"
        /\ rows' = [rows EXCEPT ![r] = Planned]
        /\ pass' = [pass EXCEPT !.missing = pass.missing - 1,
                      !.at = IF pass.missing = 1 THEN "specs" ELSE pass.at]
    BY <1>3 DEF PlanOne
  <2>2. CASE pass.missing = 1
    <3>1. pass'.at = "specs"
      BY <2>1, <2>2 DEF TypeOK, PASSES
    <3> QED BY <3>1, <1>1
  <2>3. CASE pass.missing # 1
    <3>1. /\ pass'.at = "plan" /\ pass'.missing = pass.missing - 1
          /\ pass'.capacity = pass.capacity /\ pass'.joined = pass.joined
      BY <2>1, <2>3 DEF TypeOK, PASSES
    <3>2. Present' = Present \cup {r} /\ r \notin Present
      BY <2>1, PresentAfter DEF Present
    <3>3. Cardinality(Present') = Cardinality(Present) + 1
      BY <3>2, Grows, Counts
    <3>4. GapLeft'
      BY <2>1, <2>3, <3>1, <3>3, Counts DEF GapLeft
    <3> QED BY <3>1, <3>4 DEF EnoughStay
  <2> QED BY <2>2, <2>3
<1>4. ASSUME NEW v \in Runners, Mark(v)
      PROVE  GapLeft' /\ EnoughStay'
  <2>1. pass.at = "mark" /\ v \in pass.victims
    BY <1>4 DEF Mark
  <2>2. CASE v \in pass.fresh
    <3>1. /\ rows' = [rows EXCEPT ![v].stays = FALSE]
          /\ pass' = [pass EXCEPT !.victims = pass.victims \ {v},
                        !.fresh = pass.fresh \ {v},
                        !.at = IF pass.victims = {v} THEN "specs" ELSE pass.at]
      BY <2>2, <1>4 DEF Mark
    <3>2. CASE pass.victims = {v}
      <4>1. pass'.at = "specs"
        BY <3>1, <3>2 DEF TypeOK, PASSES
      <4> QED BY <4>1, <1>1
    <3>3. CASE pass.victims # {v}
      <4>1. /\ pass'.victims = pass.victims \ {v} /\ pass'.at = "mark"
            /\ pass'.capacity = pass.capacity /\ pass'.left = pass.left
        BY <2>1, <3>1, <3>3 DEF TypeOK, PASSES
      <4>2. Keepers' = Keepers \ {v}
        BY <3>1, PresentAfter
      <4>3. Keepers' \ pass'.victims = Keepers \ pass.victims
        BY <2>1, <4>1, <4>2
      <4>4. EnoughStay'
        BY <2>1, <4>1, <4>3 DEF EnoughStay
      <4> QED BY <4>4, <4>1 DEF GapLeft
    <3> QED BY <3>2, <3>3
  <2>3. CASE v \notin pass.fresh
    <3>1. pass' = [pass EXCEPT !.victims = {}, !.at = "specs"]
      BY <2>3, <1>4 DEF Mark
    <3>2. pass'.at = "specs"
      BY <3>1 DEF TypeOK, PASSES
    <3> QED BY <3>2, <1>1
  <2> QED BY <2>2, <2>3
<1>5. ASSUME BeginPass \/ EndPass PROVE Elsewhere
  <2>1. [NoPass EXCEPT !.at = "fleet", !.capacity = capacity].at = "fleet"
        /\ NoPass.at = "off"
    BY DEF NoPass
  <2> QED BY <1>5, <2>1, Zenon DEF BeginPass, EndPass
<1>6. ASSUME CloseOperations \/ PlanRefused PROVE Elsewhere
  <2>1. ASSUME pass' = [pass EXCEPT !.at = "specs"]
               \/ pass' = [pass EXCEPT !.missing = 0, !.at = "specs"]
        PROVE  pass'.at = "specs"
    BY <2>1 DEF TypeOK, PASSES
  <2> QED BY <1>6, <2>1 DEF CloseOperations, PlanRefused
<1>7. ASSUME ListSpecs PROVE Elsewhere
  BY <1>7 DEF ListSpecs, TypeOK, PASSES
<1>8. ASSUME NEW r \in Runners, Advance(r) \/ Drift(r) \/ Held(r) PROVE Elsewhere
  <2>1. /\ pass.at = "step"
        /\ \/ pass' = [pass EXCEPT !.todo = pass.todo \ {r},
                                   !.fresh = pass.fresh \ {r}]
           \/ pass' = [pass EXCEPT !.todo = pass.todo \ {r}]
    BY <1>8 DEF Advance, Drift, Held, Steps
  <2>2. pass'.at = "step"
    BY <2>1 DEF TypeOK, PASSES
  <2> QED BY <2>2
<1> HIDE DEF Elsewhere
<1> QED BY <1>1, <1>2, <1>3, <1>4, <1>5, <1>6, <1>7, <1>8, Zenon DEF Pass

LEMMA StepCounts ==
  ASSUME FleetAssumption, TypeOK, TypeOK', CallsInOrder, GapLeft, EnoughStay,
         [Next]_vars
  PROVE  GapLeft' /\ EnoughStay'
<1>1. CASE UNCHANGED <<rows, pass>>
  BY <1>1 DEF GapLeft, EnoughStay, Present, Keepers
<1>2. CASE Pass
  BY <1>2, PassCounts
<1>3. CASE PassDies
  BY <1>3 DEF PassDies, NoPass, GapLeft, EnoughStay
<1>4. ASSUME NEW r \in Runners, Revive(r) PROVE GapLeft' /\ EnoughStay'
  <2>1. /\ rows' = [rows EXCEPT ![r].stays = TRUE]
        /\ pass' = [pass EXCEPT !.fresh = pass.fresh \ {r}]
    BY <1>4 DEF Revive
  <2>2. /\ pass'.at = pass.at /\ pass'.capacity = pass.capacity
        /\ pass'.missing = pass.missing /\ pass'.victims = pass.victims
        /\ pass'.joined = pass.joined /\ pass'.left = pass.left
    BY <2>1 DEF TypeOK, PASSES
  <2>3. Present' = Present /\ Keepers \subseteq Keepers'
    BY <2>1, PresentAfter
  <2>4. GapLeft'
    BY <2>2, <2>3 DEF GapLeft
  <2>5. Cardinality(Keepers' \ pass.victims) >= Cardinality(Keepers \ pass.victims)
    <3>1. Keepers \ pass.victims \in SUBSET (Keepers' \ pass.victims)
      BY <2>3
    <3>2. Keepers' \ pass.victims \in SUBSET Runners
      BY DEF Keepers, Present
    <3> QED BY <3>1, <3>2, Contained, FiniteParts
  <2>6. Cardinality(Keepers' \ pass.victims) \in Nat
    BY FiniteParts DEF Keepers, Present
  <2>7. EnoughStay'
    BY <2>2, <2>5, <2>6, Counts DEF EnoughStay
  <2> QED BY <2>4, <2>7
<1>5. ASSUME NEW c \in Clients, Request(c) PROVE GapLeft' /\ EnoughStay'
  BY <1>5, RequestCounts
<1>6. ASSUME NEW c \in Clients,
             \/ RequestDies(c)
             \/ \E k \in Keys, verb \in Verbs, r \in Runners \cup {NoRunner} :
                  Begin(c, k, verb, r)
      PROVE  GapLeft' /\ EnoughStay'
  BY <1>6, <1>1 DEF RequestDies, Begin
<1>7. CASE UNCHANGED vars
  BY <1>7, <1>1 DEF vars
<1> QED BY <1>2, <1>3, <1>4, <1>5, <1>6, <1>7 DEF Next

-----------------------------------------------------------------------------
(***************************************************************************)
(* The theorems.                                                           *)
(***************************************************************************)

\* A request leaves alone what a pass has still to plan and to withdraw.
LEMMA RequestKeepsPlan ==
  ASSUME TypeOK, NEW c \in Clients, Request(c)
  PROVE  pass'.missing = pass.missing /\ pass'.victims = pass.victims
<1>1. CASE MarkAbsent(c)
  <2> DEFINE r == calls[c].runner
             n == IF rows[r].stays THEN pass.left + 1 ELSE pass.left
  <2>1. pass' = pass \/ pass' = [pass EXCEPT !.fresh = pass.fresh \ {r}, !.left = n]
    BY <1>1 DEF MarkAbsent, During
  <2> HIDE DEF n, r
  <2> QED BY <2>1 DEF TypeOK, PASSES
<1>2. ASSUME NEW r \in Runners, Adopt(c, r)
      PROVE  pass'.missing = pass.missing /\ pass'.victims = pass.victims
  <2>1. pass' = pass \/ pass' = [pass EXCEPT !.joined = pass.joined + 1]
    BY <1>2 DEF Adopt, During
  <2> QED BY <2>1 DEF TypeOK, PASSES
<1> QED BY <1>1, <1>2 DEF Request, Scale, OpenCapacity, WriteCapacity,
     OpenDesired, Overtaken, LowerCapacity, AdoptLook

LEMMA InitIInv ==
  ASSUME FleetAssumption, Init
  PROVE  IInv
<1>1. NoCall \in CALLS /\ InOrder(NoCall) /\ NoCall.at = "idle"
  BY NoCallTyped DEF NoCall
<1>2. NoPass \in PASSES /\ NoPass.at = "off"
  BY NoPassTyped DEF NoPass
<1>3. Planned \in ROWS /\ Unborn \in ROWS
  BY DEF Planned, Unborn, ROWS, PLACES
<1>4. rows \in [Runners -> ROWS]
  BY <1>3 DEF Init
<1>5. NoIntent \in INTENTS
  BY DEF NoIntent, INTENTS
<1>6. TypeOK
  BY <1>1, <1>2, <1>4, <1>5 DEF Init, TypeOK, FleetAssumption
<1>7. CallsInOrder /\ Claimed /\ AppliedOnce
  BY <1>1 DEF Init, CallsInOrder, Claimed, AppliedOnce
<1>8. GapLeft /\ EnoughStay
  BY <1>2 DEF Init, GapLeft, EnoughStay
<1> QED BY <1>6, <1>7, <1>8 DEF IInv

\* Every reachable state satisfies the inductive invariant.
THEOREM FleetInvariance == Spec => []IInv
<1>1. Init => IInv
  BY InitIInv, FleetAssumption
<1>2. IInv /\ [Next]_vars => IInv'
  BY StepTyped, StepClaims, StepCounts, FleetAssumption DEF IInv
<1> QED BY <1>1, <1>2, PTL DEF Spec

\* The variables keep their shapes, and the capacity, the targets of requests
\* and what is left to plan stay within the fleet's maximum, whatever repeats,
\* crashes and passes do.
THEOREM FleetTypeCorrect == Spec => []TypeOK
<1>1. IInv => TypeOK
  BY DEF IInv
<1> QED BY <1>1, FleetInvariance, PTL

\* No two calls, of any number of clients, are ever applying the same key.
THEOREM KeysApplyOnce == Spec => []AppliedOnce
<1>1. IInv => AppliedOnce
  BY DEF IInv
<1> QED BY <1>1, FleetInvariance, PTL

\* The no-overshoot rule, for fleets of any size and under any interleaving of
\* a plan with requests.
THEOREM NeverOvershoots == Spec => PlansOnlyTheGap
<1>1. ASSUME IInv, [Next]_vars, pass.at = "plan",
             pass'.missing < pass.missing, rows' # rows
      PROVE  Cardinality(Present') <= pass.capacity + pass.joined
  <2>1. PICK r \in Runners : PlanOne(r)
    <3>1. ~ \E c \in Clients : Request(c)
      <4>1. SUFFICES ASSUME NEW c \in Clients, Request(c) PROVE FALSE
        OBVIOUS
      <4>2. pass'.missing = pass.missing
        BY <4>1, <1>1, RequestKeepsPlan DEF IInv
      <4> QED BY <4>2, <1>1, Counts, FleetAssumption DEF IInv
    <3>2. ~ \E r \in Runners : Revive(r)
      <4>1. SUFFICES ASSUME NEW r \in Runners, Revive(r) PROVE FALSE
        OBVIOUS
      <4>2. pass'.missing = pass.missing
        BY <4>1, <1>1 DEF Revive, IInv, TypeOK, PASSES
      <4> QED BY <4>2, <1>1, Counts, FleetAssumption DEF IInv
    <3>3. ~(BeginPass \/ Converge \/ CloseOperations \/ ListSpecs \/ EndPass)
      BY <1>1 DEF BeginPass, Converge, CloseOperations, ListSpecs, EndPass
    <3>4. ~PlanRefused /\ ~PassDies
      BY <1>1 DEF PlanRefused, PassDies
    <3>5. ~ \E r \in Runners : Mark(r) \/ Advance(r) \/ Drift(r) \/ Held(r)
      BY <1>1 DEF Mark, Advance, Drift, Steps, Held
    <3>6. ~ \E c \in Clients :
              \/ RequestDies(c)
              \/ \E k \in Keys, verb \in Verbs, r \in Runners \cup {NoRunner} :
                   Begin(c, k, verb, r)
      <4>1. \A c \in Clients : RequestDies(c) => UNCHANGED rows
        BY DEF RequestDies
      <4>2. \A c, k, verb, r : Begin(c, k, verb, r) => UNCHANGED rows
        BY DEF Begin
      <4> QED BY <1>1, <4>1, <4>2, Zenon
    <3>7. Next
      BY <1>1 DEF vars
    <3>8. Pass
      BY <3>1, <3>2, <3>4, <3>6, <3>7, Zenon DEF Next
    <3> QED BY <3>3, <3>4, <3>5, <3>8, Zenon DEF Pass
  <2>2. /\ rows[r].at = "unborn" /\ Present' = Present \cup {r}
    BY <1>1, <2>1, PresentAfter DEF PlanOne, IInv
  <2>3. Cardinality(Present') = Cardinality(Present) + 1
    BY <1>1, <2>2, Grows, Counts, FleetAssumption DEF Present, IInv
  <2> QED BY <1>1, <2>3, Counts, FleetAssumption DEF GapLeft, IInv
<1>2. IInv /\ [Next]_vars =>
        [pass.at = "plan" /\ pass'.missing < pass.missing /\ rows' # rows
         => Cardinality(Present') <= pass.capacity + pass.joined]_vars
  BY <1>1
<1> QED BY <1>2, FleetInvariance, PTL DEF Spec, PlansOnlyTheGap

\* A scale-down never takes more than the excess it found, for fleets of any
\* size and under any interleaving of its marks with requests.
THEOREM NeverUndershoots == Spec => MarksOnlyTheExcess
<1>1. ASSUME IInv, [Next]_vars, pass.at = "mark", rows' # rows,
             pass'.victims # pass.victims
      PROVE  Cardinality(Keepers') + pass.left >= pass.capacity
  <2>1. PICK v \in Runners : Mark(v)
    <3>1. ~ \E c \in Clients : Request(c)
      BY <1>1, RequestKeepsPlan DEF IInv
    <3>2. ~ \E r \in Runners : Revive(r)
      BY <1>1 DEF Revive, IInv, TypeOK, PASSES
    <3>3. ~(BeginPass \/ Converge \/ CloseOperations \/ ListSpecs \/ EndPass)
      BY <1>1 DEF BeginPass, Converge, CloseOperations, ListSpecs, EndPass
    <3>4. ~PlanRefused /\ ~PassDies
      BY <1>1 DEF PlanRefused, PassDies
    <3>5. ~ \E r \in Runners : PlanOne(r) \/ Advance(r) \/ Drift(r) \/ Held(r)
      BY <1>1 DEF PlanOne, Advance, Drift, Steps, Held
    <3>6. ~ \E c \in Clients :
              \/ RequestDies(c)
              \/ \E k \in Keys, verb \in Verbs, r \in Runners \cup {NoRunner} :
                   Begin(c, k, verb, r)
      <4>1. \A c \in Clients : RequestDies(c) => UNCHANGED rows
        BY DEF RequestDies
      <4>2. \A c, k, verb, r : Begin(c, k, verb, r) => UNCHANGED rows
        BY DEF Begin
      <4> QED BY <1>1, <4>1, <4>2, Zenon
    <3>7. Next
      BY <1>1 DEF vars
    <3>8. Pass
      BY <3>1, <3>2, <3>4, <3>6, <3>7, Zenon DEF Next
    <3> QED BY <3>3, <3>4, <3>5, <3>8, Zenon DEF Pass
  <2>2. v \in pass.victims /\ rows' = [rows EXCEPT ![v].stays = FALSE]
    BY <1>1, <2>1 DEF Mark
  <2>3. Keepers' = Keepers \ {v}
    BY <1>1, <2>2, PresentAfter DEF IInv
  <2>4. Cardinality(Keepers \ pass.victims) <= Cardinality(Keepers')
    <3>1. Keepers \ pass.victims \in SUBSET Keepers'
      BY <2>2, <2>3
    <3>2. Keepers' \in SUBSET Runners
      BY DEF Keepers, Present
    <3> QED BY <3>1, <3>2, Contained, FleetAssumption
  <2>5. Cardinality(Keepers') \in Nat
    BY FiniteParts, FleetAssumption DEF Keepers, Present
  <2> QED BY <1>1, <2>4, <2>5, Counts, FleetAssumption DEF EnoughStay, IInv
<1>2. IInv /\ [Next]_vars =>
        [pass.at = "mark" /\ rows' # rows /\ pass'.victims # pass.victims
         => Cardinality(Keepers') + pass.left >= pass.capacity]_vars
  BY <1>1
<1> QED BY <1>2, FleetInvariance, PTL DEF Spec, MarksOnlyTheExcess

\* Both rules at once, under any interleaving of a pass with requests.
THEOREM CapacityIsMet == Spec => MeetsTheCapacity
BY NeverOvershoots, NeverUndershoots DEF MeetsTheCapacity
=============================================================================
