------------------------------ MODULE MCControl ------------------------------
(***************************************************************************)
(* What goes on among the processes and threads of the controller, for     *)
(* TLC: who may run a pass, the turns of the runners of a fleet, repeated  *)
(* requests, the leases of lent runners and what their peer is told, the   *)
(* alarms, where runners are placed, and the history of their jobs.  They  *)
(* share no state here, so a behaviour is one of one of them: focus says   *)
(* which.                                                                  *)
(***************************************************************************)
EXTENDS PassLease, RollingTurns, LimitRequests, FederationLeases, ResultDelivery, Alarms,
        Placements, RunHistory

VARIABLE focus

controlVars == <<leaseVars, turnVars, limitVars, lendingVars, deliveryVars, alarmVars,
                 placementVars, historyVars, focus>>

Idles(part, partVars) == IF focus = part THEN TRUE ELSE UNCHANGED partVars

TheRestIdles ==
  /\ Idles("passes", leaseVars) /\ Idles("turns", turnVars)
  /\ Idles("limits", limitVars) /\ Idles("lending", lendingVars)
  /\ Idles("results", deliveryVars) /\ Idles("alarms", alarmVars)
  /\ Idles("placing", placementVars)
  /\ Idles("history", historyVars)
  /\ UNCHANGED focus

ControlInit ==
  /\ focus \in {"passes", "turns", "limits", "lending", "results", "alarms", "placing",
              "history"}
  /\ LeaseInit /\ TurnsInit /\ LimitInit /\ LendingInit /\ DeliveryInit /\ AlarmsInit
  /\ PlacementInit /\ HistoryInit
  /\ focus = "placing" \/ defaults.memory = 1

ControlNext ==
  \/ focus = "passes" /\ LeaseNext /\ TheRestIdles
  \/ focus = "turns" /\ TurnsNext /\ TheRestIdles
  \/ focus = "limits" /\ LimitNext /\ TheRestIdles
  \/ focus = "lending" /\ LendingNext /\ TheRestIdles
  \/ focus = "results" /\ DeliveryNext /\ TheRestIdles
  \/ focus = "alarms" /\ AlarmsNext /\ TheRestIdles
  \/ focus = "placing" /\ PlacementNext /\ TheRestIdles
  \/ focus = "history" /\ HistoryNext /\ TheRestIdles

ControlSpec == ControlInit /\ [][ControlNext]_controlVars
=============================================================================
