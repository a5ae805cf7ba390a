----------------------------- MODULE MCProgress -----------------------------
(***************************************************************************)
(* What must come to its end in the controller, apart from a runner's own  *)
(* lifecycle, for TLC: the passes, the turns of a fleet, the leases of     *)
(* lent runners and what their peer is told.  They share no state here, so *)
(* a behaviour is one of one of them: focus says which.                    *)
(***************************************************************************)
EXTENDS PassLease, RollingTurns, FederationLeases, ResultDelivery

VARIABLE focus

progressVars == <<leaseVars, turnVars, lendingVars, deliveryVars, focus>>

Idles(part, partVars) == IF focus = part THEN TRUE ELSE UNCHANGED partVars

TheRestIdles ==
  /\ Idles("passes", leaseVars) /\ Idles("turns", turnVars)
  /\ Idles("lending", lendingVars) /\ Idles("results", deliveryVars)
  /\ UNCHANGED focus

ProgressInit ==
  /\ focus \in {"passes", "turns", "lending", "results"}
  /\ LeaseInit /\ TurnsInit /\ LendingInit /\ DeliveryInit

ProgressNext ==
  \/ focus = "passes" /\ LeaseNext /\ TheRestIdles
  \/ focus = "turns" /\ TurnsNext /\ TheRestIdles
  \/ focus = "lending" /\ LendingNext /\ TheRestIdles
  \/ focus = "results" /\ DeliveryNext /\ TheRestIdles

\* The fairness of each, while it is the one that runs.
ProgressFairness ==
  /\ WF_leaseVars(focus = "passes" /\ LeaseTick)
  /\ \A p \in Controllers : /\ WF_leaseVars(focus = "passes" /\ PassStep(p))
                            /\ WF_leaseVars(focus = "passes" /\ Resumes(p))
  /\ WF_turnVars(focus = "turns" /\ BeginTurns)
  /\ WF_turnVars(focus = "turns" /\ \E r \in Fleet : TurnStep(r))
  /\ \A r \in Fleet : /\ SF_turnVars(focus = "turns" /\ Rebuilt(r))
                      /\ SF_turnVars(focus = "turns" /\ Cleared(r))
                      /\ SF_turnVars(focus = "turns" /\ ComeBack(r))
  /\ WF_lendingVars(focus = "lending" /\ TickStep)
  /\ \A q \in Requests : /\ WF_lendingVars(focus = "lending" /\ RetryComes(q))
                         /\ WF_lendingVars(focus = "lending" /\ Register(q))
                         /\ WF_lendingVars(focus = "lending" /\ Deregister(q))
                         /\ WF_lendingVars(focus = "lending" /\ Leave(q))
  /\ WF_deliveryVars(focus = "results" /\ BeginPush)
  /\ WF_deliveryVars(focus = "results" /\ PushTaken)
  /\ WF_deliveryVars(focus = "results" /\ PushUnanswered)
  /\ WF_deliveryVars(focus = "results" /\ PushRetry)
  /\ WF_deliveryVars(focus = "results" /\ \E p \in pushes : p = pushing /\ TakePush(p))

ProgressSpec == ProgressInit /\ [][ProgressNext]_progressVars /\ ProgressFairness
=============================================================================
