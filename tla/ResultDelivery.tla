--------------------------- MODULE ResultDelivery ---------------------------
(***************************************************************************)
(* How the peer that asked for a runner learns what became of its request  *)
(* (control/federation_direct.py: submit, receive, publish, next_deadline; *)
(* the same between a receiver and the broker, control/federation_broker.py*)
(* and federation_outbound.py).                                            *)
(*                                                                         *)
(* The lender pushes each new state of the lease, with a number that grows,*)
(* until one is acknowledged; a push may be lost, late or doubled, and its *)
(* answer lost.  The answer to the request itself tells a state as well.   *)
(***************************************************************************)
EXTENDS Naturals, FiniteSets

CONSTANTS
  MaxSequence,      \* bound: pushes
  MaxDeliveryFaults \* bound: messages and answers lost or doubled, crashes

ASSUME DeliveryAssumption == MaxSequence \in Nat /\ MaxDeliveryFaults \in Nat

VARIABLES
  lent,      \* the state of the lease at the lender, as it is pushed
  receipt,   \* what the lender has of the peer: last number and state acknowledged,
             \* whether it still keeps the credential, whether it waits to retry
  pushing,   \* the push that waits for its answer
  pushes,    \* pushes on their way
  replies,   \* numbers of the pushes whose answer is on its way
  intent,    \* the request of the peer: "new", "sent", or what its answer told, "over"
  answer,    \* the answer to the request, on its way
  shown,     \* what the peer shows: state and number
  roused,    \* the database of the lender has changed since its thread looked
  deliveryFaults

deliveryVars == <<lent, receipt, pushing, pushes, replies, intent, answer, shown,
                  roused, deliveryFaults>>

ENDED == {"denied", "expired"}
\* How far a lease has come.
StageOf(s) ==
  CASE s \in {"queued", "delivery-unknown"} -> 0 [] s = "pending" -> 1 [] s = "active" -> 2
    [] s = "retiring" -> 3 [] s \in ENDED -> 4
NotLent == "none"
NoPush == [state |-> NotLent, seq |-> 0]

LENT == {"pending", "active", "retiring"} \cup ENDED

DeliveryTypeOK ==
  /\ lent \in LENT \cup {NotLent}
  /\ receipt \in [seq : 0 .. MaxSequence, last : LENT \cup {NotLent},
                  sealed : BOOLEAN, waits : BOOLEAN]
  /\ pushing \in [state : LENT \cup {NotLent}, seq : 0 .. MaxSequence]
  /\ pushes \subseteq [state : LENT, seq : 1 .. MaxSequence]
  /\ replies \subseteq 1 .. MaxSequence
  /\ intent \in {"new", "sent", "over"} /\ answer \subseteq {"pending", "denied"}
  /\ shown \in [state : {"queued", "delivery-unknown"} \cup LENT, seq : 0 .. MaxSequence]
  /\ roused \in BOOLEAN /\ deliveryFaults \in 0 .. MaxDeliveryFaults

DeliveryInit ==
  /\ lent = NotLent
  /\ receipt = [seq |-> 0, last |-> NotLent, sealed |-> FALSE, waits |-> FALSE]
  /\ pushing = NoPush /\ pushes = {} /\ replies = {}
  /\ intent = "new" /\ answer = {}
  /\ shown = [state |-> "queued", seq |-> 0]
  /\ roused = FALSE /\ deliveryFaults = 0

DeliveryFault == deliveryFaults < MaxDeliveryFaults /\ deliveryFaults' = deliveryFaults + 1
Fine == UNCHANGED deliveryFaults

\* The lease goes its way: FederationLeases.
NEXT_LENT == {<<"pending", "active">>, <<"pending", "denied">>, <<"pending", "retiring">>,
              <<"active", "retiring">>, <<"retiring", "expired">>}

LeaseGoes(s) ==
  /\ <<lent, s>> \in NEXT_LENT /\ lent' = s /\ roused' = TRUE
  /\ UNCHANGED <<receipt, pushing, pushes, replies, intent, answer, shown>> /\ Fine

-----------------------------------------------------------------------------
(* The request.                                                            *)

SendIntent ==
  /\ intent = "new" /\ intent' = "sent"
  /\ UNCHANGED <<lent, receipt, pushing, pushes, replies, answer, shown, roused>> /\ Fine

\* The lender takes it, perhaps long after the peer has given up on it, and
\* says how it stands.
TakeIntent ==
  /\ intent # "new" /\ lent = NotLent
  /\ lent' = "pending" /\ receipt' = [receipt EXCEPT !.sealed = TRUE] /\ roused' = TRUE
  /\ answer' = {"pending"}
  /\ UNCHANGED <<pushing, pushes, replies, intent, shown>> /\ Fine

\* The decision of a policy is made before the answer is given.
AnswerLater ==
  /\ answer # {} /\ lent = "denied" /\ answer' = {lent}
  /\ UNCHANGED <<lent, receipt, pushing, pushes, replies, intent, shown, roused>> /\ Fine

\* What was pushed is newer than any answer.
BelievesAnswer == shown.seq = 0

TakeAnswer ==
  /\ intent = "sent" /\ \E s \in answer :
       shown' = IF BelievesAnswer THEN [shown EXCEPT !.state = s] ELSE shown
  /\ intent' = "over" /\ answer' = {}
  /\ UNCHANGED <<lent, receipt, pushing, pushes, replies, roused>> /\ Fine

\* The answer does not come, or the request did not arrive yet.
NoAnswer ==
  /\ intent = "sent" /\ DeliveryFault
  /\ shown' = IF BelievesAnswer THEN [shown EXCEPT !.state = "delivery-unknown"] ELSE shown
  /\ intent' = "over" /\ answer' = {}
  /\ UNCHANGED <<lent, receipt, pushing, pushes, replies, roused>>

-----------------------------------------------------------------------------
(* The pushes.                                                             *)

ToPush == receipt.sealed /\ receipt.last # lent

\* Mutant: a push that failed is sent again when something else happens.
NeverDue == FALSE

\* What is to be pushed, now or when its retry comes, is a deadline.
PushDue == ToPush /\ ~receipt.waits

\* The number is kept before it is used.
BeginPush ==
  /\ pushing = NoPush /\ (roused \/ PushDue)
  /\ IF ToPush /\ ~receipt.waits
     THEN /\ receipt.seq < MaxSequence
          /\ receipt' = [receipt EXCEPT !.seq = @ + 1]
          /\ pushing' = [state |-> lent, seq |-> receipt'.seq]
          /\ pushes' = pushes \cup {pushing'} /\ roused' = TRUE
     ELSE roused' = FALSE /\ UNCHANGED <<receipt, pushing, pushes>>
  /\ UNCHANGED <<lent, replies, intent, answer, shown>> /\ Fine

\* Mutant: whatever arrives is shown.
Whatever(p) == TRUE

\* An old push, or a second one, tells nothing; an end is never taken back.
IsNews(p) == p.seq > shown.seq

TakePush(p) ==
  /\ p \in pushes
  /\ LET refused == IsNews(p) /\ shown.state \in ENDED /\ p.state # shown.state IN
       /\ shown' = IF IsNews(p) /\ ~refused THEN p ELSE shown
       /\ replies' = IF refused THEN replies ELSE replies \cup {p.seq}
  /\ \/ pushes' = pushes \ {p} /\ Fine
     \/ pushes' = pushes /\ DeliveryFault
  /\ UNCHANGED <<lent, receipt, pushing, intent, answer, roused>>

LosePush(p) ==
  /\ p \in pushes /\ DeliveryFault /\ pushes' = pushes \ {p}
  /\ UNCHANGED <<lent, receipt, pushing, replies, intent, answer, shown, roused>>

\* The credential goes with the end of the lease.
PushTaken ==
  /\ pushing.seq \in replies
  /\ receipt' = [receipt EXCEPT !.last = pushing.state, !.waits = FALSE,
                                !.sealed = pushing.state \notin ENDED]
  /\ pushing' = NoPush /\ replies' = {} /\ roused' = TRUE
  /\ UNCHANGED <<lent, pushes, intent, answer, shown>> /\ Fine

\* No answer, or none in time: it is tried again later, under a new number.
PutPushOff ==
  /\ receipt' = [receipt EXCEPT !.waits = TRUE]
  /\ pushing' = NoPush /\ replies' = {} /\ roused' = TRUE
  /\ UNCHANGED <<lent, pushes, intent, answer, shown>>

PushFails == pushing # NoPush /\ DeliveryFault /\ PutPushOff

PushUnanswered ==
  /\ pushing # NoPush /\ pushing \notin pushes /\ pushing.seq \notin replies
  /\ PutPushOff /\ Fine

\* The process of the lender dies: nothing waits, the number is kept.
PushDies ==
  /\ pushing # NoPush /\ DeliveryFault
  /\ pushing' = NoPush /\ replies' = {} /\ roused' = TRUE
  /\ UNCHANGED <<lent, receipt, pushes, intent, answer, shown>>

PushRetry ==
  /\ receipt.waits /\ receipt' = [receipt EXCEPT !.waits = FALSE]
  /\ UNCHANGED <<lent, pushing, pushes, replies, intent, answer, shown, roused>> /\ Fine

DeliveryNext ==
  \/ \E s \in {"active", "retiring"} \cup ENDED : LeaseGoes(s)
  \/ SendIntent \/ TakeIntent \/ AnswerLater \/ TakeAnswer \/ NoAnswer
  \/ BeginPush \/ PushTaken \/ PushFails \/ PushUnanswered \/ PushDies \/ PushRetry
  \/ \E p \in pushes : TakePush(p) \/ LosePush(p)

\* The lender goes on pushing, and what is on its way arrives.
DeliveryFairness ==
  /\ WF_deliveryVars(BeginPush) /\ WF_deliveryVars(PushTaken)
  /\ WF_deliveryVars(PushUnanswered) /\ WF_deliveryVars(PushRetry)
  /\ WF_deliveryVars(\E p \in pushes : p = pushing /\ TakePush(p))

DeliverySpec == DeliveryInit /\ [][DeliveryNext]_deliveryVars /\ DeliveryFairness

-----------------------------------------------------------------------------

\* Lost, late, doubled or overtaken, by each other or by the answer: what the
\* peer is shown never goes back, and is never ahead of the lease.
ResultsFollowTheLease ==
  [][StageOf(shown'.state) >= StageOf(shown.state)
     /\ StageOf(shown'.state) <= (IF lent' = NotLent THEN 0 ELSE StageOf(lent'))]_deliveryVars

\* The peer is shown how a lease ended.
ResultArrives == \A end \in ENDED : lent = end ~> shown.state = end
=============================================================================
