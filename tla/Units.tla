-------------------------------- MODULE Units --------------------------------
(***************************************************************************)
(* All that a runner can be made of: the four kinds of unit, and the two   *)
(* kinds of disk of its own.  They share no state; what they have in       *)
(* common are the promises each of them keeps.                             *)
(***************************************************************************)
EXTENDS LinuxUnit, WindowsUnit, MacUnit, MacPool, LinuxDisk, WindowsDisk

\* Whatever a runner is made of (a container, a Windows service, a launchd job
\* on a shared Mac or in a guest of its own), and wherever a call is cut off,
\* its unit keeps the promises of UnitContract: the controller sends the same
\* verbs to all of them and reads the same answers (agent/runtimes/contract.py).
EveryUnitKeepsTheContract ==
  /\ ContainerIsAUnit
  /\ ServiceIsAUnit
  /\ LaunchdJobIsAUnit
  /\ PoolGuestIsAUnit

\* Whatever its disk is made of, and wherever making or removing it is cut off,
\* the data of a runner is only destroyed by a removal (DiskContract).
EveryDiskKeepsItsData ==
  /\ ImageKeepsItsData
  /\ VhdKeepsItsData
=============================================================================
