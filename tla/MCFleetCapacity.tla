-------------------------- MODULE MCFleetCapacity --------------------------
(***************************************************************************)
(* Instances of FleetCapacity.  Its runners are interchangeable, and so    *)
(* are its keys and its clients.                                           *)
(***************************************************************************)
EXTENDS FleetCapacity, TLC

Alike == Permutations(Runners) \cup Permutations(Keys)
         \cup Permutations(Clients)
=============================================================================
