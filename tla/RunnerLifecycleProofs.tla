----------------------- MODULE RunnerLifecycleProofs -----------------------
(***************************************************************************)
(* No step of the controller ends a job, and a cache is only cleared in a  *)
(* unit that has stopped, for every value of the constants.  Both follow   *)
(* from Safe, the invariant of RunnerLifecycleInvariant: this module       *)
(* proves that the initial state satisfies it and that every action keeps  *)
(* it, one step per action.  That the row only moves along the edges of    *)
(* the machine follows from Standing, and that a serving runner is         *)
(* registered from KeepsItsRecord, in the same way.                        *)
(*                                                                         *)
(* What an action does to the pass, the row and the world is stated first, *)
(* in terms of the few fields Safe reads; the steps then never unfold a    *)
(* record.                                                                 *)
(***************************************************************************)
EXTENDS RunnerLifecycleInvariant, RunnerLifecycleTypes, FiniteSetTheorems

\* The pass goes to `place` with its step, its registration and its purpose.
Carries(place) ==
  /\ run'.pc = place /\ run'.reg = run.reg
  /\ run'.action = run.action /\ run'.after = run.after

\* The pass goes to `place` with its registration and another purpose.
Turns(place, after) ==
  run'.pc = place /\ run'.reg = run.reg /\ run'.after = after

\* The pass is over.
Clears == run'.pc = "rest" /\ run'.reg = 0

-----------------------------------------------------------------------------
(* What each way of going on does to the pass and the row.                 *)

\* The identifiers are numbers, "no registration" among them, and the flags
\* are flags.
LEMMA Numbers ==
  ASSUME TypeOK
  PROVE  /\ world.issued \in Int /\ spec.reg \in Nat /\ run.reg \in Nat
         /\ world.live \subseteq Nat \ {0}
         /\ world.job \in BOOLEAN /\ world.late \in BOOLEAN
  BY ConstantsAssumption
     DEF TypeOK, Specs, Runs, Worlds, RegIds, ConstantsAssumption

\* Going on carries everything.
LEMMA GoFields ==
  ASSUME TypeOK, NEW place, Go(place)
  PROVE  Carries(place)
  BY DEF TypeOK, Runs, Go, Carries

\* Resting forgets everything.
LEMMA RestFields ==
  ASSUME Rest
  PROVE  Clears
  BY DEF Rest, IdleRun, Clears

\* A flow that fails carries everything to its rollback.
LEMMA UndoAfterFields ==
  ASSUME TypeOK, NEW step, UndoAfter(step)
  PROVE  Carries("undo")
  BY DEF TypeOK, Runs, UndoAfter, Carries

\* So does a rollback held back.
LEMMA HoldBackFields ==
  ASSUME TypeOK, NEW kind, HoldBack(kind)
  PROVE  Carries("hold")
  BY DEF TypeOK, Runs, HoldBack, Carries

\* A request leaves the pass where it is.
LEMMA OvertakenFields ==
  ASSUME TypeOK, Overtaken
  PROVE  Carries(run.pc)
  BY DEF TypeOK, Runs, Overtaken, Carries

\* Reading the row again and writing it carries everything.
LEMMA RewriteFields ==
  ASSUME TypeOK, NEW row, NEW place, Rewrite(row, place)
  PROVE  spec' = row /\ Carries(place)
  BY DEF TypeOK, Runs, Rewrite, Carries

\* Writing it against the version read does so or ends the step.
LEMMA WriteFields ==
  ASSUME TypeOK, NEW row, NEW place, Write(row, place)
  PROVE  \/ spec' = row /\ Carries(place)
         \/ UNCHANGED spec /\ Clears
  BY GoFields, RestFields DEF Write

\* A last write ends the step either way.
LEMMA WriteLastFields ==
  ASSUME TypeOK, NEW row, WriteLast(row)
  PROVE  spec' \in {row, spec} /\ Clears
  BY RestFields DEF WriteLast

\* A second look carries everything.
LEMMA AgainFields ==
  ASSUME TypeOK, NEW place, NEW d,
         run' = [run EXCEPT !.pc = place, !.fresh = TRUE, !.desired = d]
  PROVE  Carries(place)
  BY DEF TypeOK, Runs, Carries

\* A drain that stands in for something else turns the pass to that.
LEMMA AfterFields ==
  ASSUME TypeOK, NEW place, NEW a,
         run' = [run EXCEPT !.pc = place, !.after = a]
  PROVE  Turns(place, a)
  BY DEF TypeOK, Runs, Turns

\* A reading noted carries everything.
LEMMA SeenFields ==
  ASSUME TypeOK, NEW place, NEW s,
         run' = [run EXCEPT !.pc = place, !.seen = s]
  PROVE  Carries(place)
  BY DEF TypeOK, Runs, Carries

\* So does a compensation noted.
LEMMA UndoneFields ==
  ASSUME TypeOK, NEW place, NEW u,
         run' = [run EXCEPT !.pc = place, !.undone = u]
  PROVE  Carries(place)
  BY DEF TypeOK, Runs, Carries

\* So does news of the machine.
LEMMA NewsFields ==
  ASSUME TypeOK, NEW place, NEW s,
         run' = [run EXCEPT !.pc = place, !.news = s]
  PROVE  Carries(place)
  BY DEF TypeOK, Runs, Carries

\* A record that is gone sends a rollback to the unit and a removal on.
LEMMA DeregisteredFields ==
  ASSUME TypeOK, Deregistered
  PROVE  \/ run'.pc = "undo_unit" /\ run'.reg = run.reg
         \/ Carries("unregistered") /\ run.after # "rollback"
  BY GoFields DEF TypeOK, Runs, Deregistered

\* Giving the row its worker leaves its registration alone.
LEMMA PlacedFields ==
  ASSUME TypeOK
  PROVE  /\ [spec EXCEPT !.placed = TRUE].reg = spec.reg
         /\ [spec EXCEPT !.placed = TRUE].placed
  BY DEF TypeOK, Specs

\* Forgetting its registration leaves its worker alone.
LEMMA ForgottenFields ==
  ASSUME TypeOK
  PROVE  /\ [spec EXCEPT !.reg = 0].reg = 0
         /\ [spec EXCEPT !.reg = 0].placed = spec.placed
  BY DEF TypeOK, Specs

\* Recording one leaves its worker alone.
LEMMA RecordedFields ==
  ASSUME TypeOK
  PROVE  /\ [spec EXCEPT !.reg = run.reg].reg = run.reg
         /\ [spec EXCEPT !.reg = run.reg].placed = spec.placed
  BY DEF TypeOK, Specs

\* A unit rebuilt from nothing keeps its worker and forgets its registration.
LEMMA UnmovedFields ==
  ASSUME TypeOK, NEW to
  PROVE  LET row == [Moved(to) EXCEPT !.unitRef = FALSE, !.reg = 0]
         IN row.reg = 0 /\ row.placed = spec.placed
  BY DEF TypeOK, Specs, Moved

\* A move leaves the worker and the registration of the row alone.
LEMMA MovedFields ==
  ASSUME TypeOK
  PROVE  \A to : /\ Moved(to).reg = spec.reg
                 /\ Moved(to).placed = spec.placed
  BY DEF TypeOK, Specs, Moved

-----------------------------------------------------------------------------
(* What each call does to the world.                                       *)

\* Starting a unit changes nothing else.
LEMMA StartedFields ==
  ASSUME TypeOK
  PROVE  /\ Started.unit = "running" /\ Started.cred = world.cred
         /\ Started.job = world.job /\ Started.live = world.live
         /\ Started.issued = world.issued
         /\ Started.gated = world.gated
         /\ Started.late = world.late
  BY DEF TypeOK, Worlds, Started

\* Stopping one ends its job, and a registration it was making.
LEMMA StoppedFields ==
  ASSUME TypeOK
  PROVE  /\ Stopped.unit = "stopped" /\ Stopped.cred = world.cred
         /\ Stopped.job = FALSE /\ Stopped.live = world.live
         /\ Stopped.issued = world.issued
         /\ Stopped.gated = world.gated
         /\ Stopped.late = (world.late /\ RegistersStopped)
  BY DEF TypeOK, Worlds, Stopped

\* A created unit holds no credentials.
LEMMA CreatedFields ==
  ASSUME TypeOK
  PROVE  /\ Created.unit = "running" /\ Created.cred = 0
         /\ Created.job = world.job /\ Created.live = world.live
         /\ Created.issued = world.issued
         /\ Created.gated = world.gated
         /\ Created.late = world.late
  BY DEF TypeOK, Worlds, Created

\* A removed one leaves none.
LEMMA RemovedFields ==
  ASSUME TypeOK
  PROVE  /\ Removed.unit = "absent" /\ Removed.cred = 0
         /\ Removed.job = FALSE /\ Removed.live = world.live
         /\ Removed.issued = world.issued
         /\ Removed.gated = world.gated
         /\ Removed.late = (world.late /\ RegistersStopped)
  BY DEF TypeOK, Worlds, Removed

\* A unit told to finish is still up.
LEMMA TerminatedFields ==
  ASSUME TypeOK
  PROVE  /\ Terminated.unit = "ending" /\ Terminated.cred = world.cred
         /\ Terminated.job = world.job /\ Terminated.live = world.live
         /\ Terminated.issued = world.issued
         /\ Terminated.gated = world.gated
         /\ Terminated.late = world.late
  BY DEF TypeOK, Worlds, Terminated

\* Deleting a record does nothing to the unit, and ends the job of the record.
LEMMA DeletedFields ==
  ASSUME TypeOK, NEW id
  PROVE  /\ Deleted(id).unit = world.unit /\ Deleted(id).cred = world.cred
         /\ Deleted(id).job = (world.job /\ world.cred # id)
         /\ Deleted(id).live = world.live \ {id}
         /\ Deleted(id).issued = world.issued
         /\ Deleted(id).gated = world.gated /\ Deleted(id).late = world.late
  BY DEF TypeOK, Worlds, Deleted

\* A registration is a new one, and replaces the old one at GitHub.
LEMMA RegisteredFields ==
  ASSUME TypeOK
  PROVE  /\ Registered.unit = world.unit /\ Registered.job = world.job
         /\ Registered.issued = world.issued + 1
         /\ Registered.gated = FALSE /\ Registered.late = FALSE
         /\ Registered.cred = (IF Exists THEN world.issued + 1 ELSE 0)
         /\ Registered.live = (IF Provider = "github" THEN {} ELSE world.live)
                              \cup {world.issued + 1}
  BY DEF TypeOK, Worlds, Registered

\* What leaves the records alone leaves them unique.
LEMMA SameRecords ==
  ASSUME ReplacedByName, world'.live = world.live
  PROVE  ReplacedByName'
  BY DEF ReplacedByName

-----------------------------------------------------------------------------
(* What a reading proves.                                                  *)

\* Quiescence is proof of a unit that is not up, or of none.
LEMMA ProvenQuiet ==
  ASSUME Quiescent(TRUE)
  PROVE  ~spec.placed \/ ~Up
  BY DEF Quiescent

\* A list that was read and does not hold a record proves that it is gone.
LEMMA SeenMissing ==
  ASSUME NEW id, Reads(id, "missing")
  PROVE  id \notin world.live
  BY DEF Reads, Mistaken, Truth

\* A GitHub runner seen idle behind its closed gate has no job.
LEMMA SeenIdle ==
  ASSUME TypeOK, Safe, Provider = "github", At("sample"),
         Reads(run.reg, "idle")
  PROVE  ~world.job
  <1>1. Truth(run.reg) # "busy"
    BY DEF Reads, Mistaken, Truth
  <1> QED
    BY <1>1 DEF Safe, GateHolds, ReplacedByName, JobHasItsRunner, Truth

-----------------------------------------------------------------------------
(* One step per action.                                                    *)

\* What the reconciler does keeps the invariant.
LEMMA ReconcileKeepsSafe ==
  ASSUME TypeOK, Safe, Reconcile
  PROVE  Safe'
  <1> USE DEF OnlyIssued, ReplacedByName, JobHasItsRunner, PlacedFirst,
          VoidsWhatIsGone, PastTheFence, StoppedPastTheFence, RollbackIsSafe,
          GateHolds, NamesNoLiveRecord, UnseenIsUnnamed, UsesTheRow,
          WorksOnTheRow, TakesOff, EndsTheRunner, Safe, At, Up, Exists,
          FENCED, DESTRUCTIVE, ENDS_WORK
  <1>1. CASE ForgetClosed
    BY <1>1, GoFields, Numbers
       DEF ForgetClosed, Resting, Carries
  <1>2. CASE ResumeRecreate

    <2>1. spec'.reg = spec.reg /\ spec'.placed = spec.placed
      BY <1>2 DEF ResumeRecreate, TypeOK, Specs
    <2>2. UNCHANGED run \/ Carries("fail")
      BY <1>2, GoFields DEF ResumeRecreate
    <2> QED BY <1>2, <2>1, <2>2, Numbers DEF Carries, ResumeRecreate
  <1>3. CASE RefuseReplacement
    BY <1>3, GoFields, Numbers
       DEF RefuseReplacement, Resting, Carries
  <1>4. CASE CloseFulfilled
    BY <1>4, GoFields, RestFields, Numbers
       DEF CloseFulfilled, Resting, TERMINAL, Carries, Clears
  <1>5. CASE Unpoint
    BY <1>5, RestFields, Numbers
       DEF Unpoint, Clears
  <1>6. CASE PeekBeforeClear

    <2>1. spec'.reg = spec.reg /\ spec'.placed = spec.placed
      BY <1>6, MovedFields DEF PeekBeforeClear
    <2>2. Carries("decide") \/ Carries("unpoint")
      BY <1>6, GoFields DEF PeekBeforeClear
    <2> QED BY <1>6, <2>1, <2>2, Numbers DEF Carries, PeekBeforeClear
  <1>7. CASE DecideStep
    BY <1>7, Numbers
       DEF DecideStep, MayDecide, Resting, RollbackHeld
  <1>8. CASE LookAgain

    <2>1. spec'.reg = spec.reg /\ spec'.placed = spec.placed
      BY <1>8, MovedFields DEF LookAgain
    <2>2. Clears \/ Carries("admit")
      <3>1. \/ Rest
            \/ run' = [run EXCEPT !.pc = "admit", !.fresh = TRUE,
                                  !.desired = spec.desired]
        BY <1>8 DEF LookAgain
      <3> QED BY <3>1, AgainFields, RestFields
    <2> QED BY <1>8, <2>1, <2>2, Numbers DEF Carries, Clears, LookAgain
  <1>9. CASE Admit

    <2>1. \/ Clears
          \/ Carries("act") /\ (run.action \in FENCED => ~spec.placed \/ ~Up)
          \/ Turns("gate", "quiesce")
      <3>1. \/ Rest
            \/ Go("act") /\ (run.action \in FENCED => ~spec.placed \/ ~Up)
            \/ run' = [run EXCEPT !.pc = "gate", !.after = "quiesce"]
        BY <1>9, ProvenQuiet DEF Admit
      <3> QED BY <3>1, AfterFields, GoFields, RestFields
    <2>2. At("admit") /\ UNCHANGED <<spec, world>>
      BY <1>9 DEF Admit
    <2>3. CASE Clears
      BY <2>2, <2>3, Numbers DEF Clears
    <2>4. CASE Turns("gate", "quiesce")
      BY <2>2, <2>4, Numbers DEF Turns
    <2>5. CASE Carries("act") /\ (run.action \in FENCED => ~spec.placed \/ ~Up)
      BY <2>2, <2>5, Numbers DEF Carries
    <2> QED BY <2>1, <2>3, <2>4, <2>5
  <1>10. CASE Fail
    BY <1>10, RestFields, MovedFields, Numbers
       DEF Fail, Clears
  <1>11. CASE Hold
    BY <1>11, RestFields, MovedFields, Numbers
       DEF Hold, Clears
  <1>12. CASE OpenProvision

    <2>1. Carries("act") \/ Clears
      <3>1. run' = [run EXCEPT !.verb = "provision"] \/ Rest
        BY <1>12 DEF OpenProvision
      <3>2. run' = [run EXCEPT !.verb = "provision"] => Carries(run.pc)
        BY DEF Carries, TypeOK, Runs
      <3> QED BY <1>12, <3>1, <3>2, RestFields DEF OpenProvision, Acting, At
    <2> QED BY <1>12, <2>1, Numbers DEF Carries, Clears, OpenProvision, Acting
  <1>13. CASE DoProvision
    BY <1>13, GoFields, MovedFields, RestFields, WriteFields, Numbers
       DEF Acting, DoProvision, Carries, Clears
  <1>14. CASE Place

    <2>1. /\ spec'.reg = spec.reg
          /\ \/ Carries("create") /\ spec'.placed
             \/ Carries("undo") /\ spec'.placed = spec.placed
      <3>1. CASE spec.placed
        BY <1>14, <3>1, GoFields DEF Place
      <3>2. CASE ~spec.placed /\ world.healthy
        <4>1. Rewrite([spec EXCEPT !.placed = TRUE], "create")
          BY <1>14, <3>2 DEF Place
        <4>2. spec' = [spec EXCEPT !.placed = TRUE] /\ Carries("create")
          BY <4>1, RewriteFields
        <4> QED BY <4>2, PlacedFields
      <3>3. CASE ~spec.placed /\ ~world.healthy
        BY <1>14, <3>3, UndoAfterFields DEF Place
      <3> QED BY <3>1, <3>2, <3>3
    <2> QED BY <1>14, <2>1, Numbers DEF Carries, Place
  <1>15. CASE CreateUnit

    <2>1. At("create") /\ UNCHANGED spec
      BY <1>15 DEF CreateUnit
    <2>2. \/ Carries("hold") /\ UNCHANGED world
          \/ Exists /\ Carries("made") /\ UNCHANGED world
          \/ ~Exists /\ Carries("void") /\ UNCHANGED world
          \/ /\ ~Exists
             /\ UNCHANGED world \/ world' = Created
             /\ Carries("made") \/ Carries("undo")
      BY <1>15, GoFields, HoldBackFields, UndoAfterFields DEF CreateUnit
    <2> QED BY <2>1, <2>2, CreatedFields, Numbers DEF Carries
  <1>16. CASE VoidRegistration
    BY <1>16, DeletedFields, GoFields, HoldBackFields, Numbers
       DEF Idle, Reads, Truth, VoidRegistration, Carries
  <1>17. CASE ForgetVoided

    <2>1. spec'.reg = 0 /\ spec'.placed = spec.placed /\ Carries("create")
      BY <1>17, RewriteFields, ForgottenFields DEF ForgetVoided
    <2> QED BY <1>17, <2>1, Numbers DEF Carries, ForgetVoided
  <1>18. CASE Provisioned

    <2>1. spec'.reg = spec.reg /\ spec'.placed = spec.placed
      BY <1>18 DEF Provisioned, Moved, TypeOK, Specs
    <2> QED BY <1>18, <2>1, RestFields, Numbers DEF Clears, Provisioned
  <1>19. CASE DoRegister
    BY <1>19, MovedFields, WriteFields, Numbers
       DEF Acting, DoRegister, Carries, Clears
  <1>20. CASE StillRegistered

    <2>1. \/ /\ UNCHANGED world
             /\ \/ Carries("fail") \/ Carries("verify")
                \/ run'.pc = "mint" /\ run'.reg = 0 /\ spec.reg \notin world.live
          \/ /\ world.unit = "stopped"
             /\ world' = Started \/ world' = [Started EXCEPT !.gated = FALSE]
             /\ Carries("fail") \/ Carries("verify")
      <3>1. ASSUME spec.reg = 0, Go("mint")
            PROVE  run'.pc = "mint" /\ run'.reg = 0 /\ spec.reg \notin world.live
        <4>1. At("still") /\ Carries("mint")
          BY <1>20, <3>1, GoFields DEF StillRegistered
        <4> QED BY <3>1, <4>1, Numbers DEF Carries
      <3>2. ASSUME NEW seen, Reads(spec.reg, seen), seen = "missing",
                   run' = [run EXCEPT !.pc = "mint", !.reg = 0]
            PROVE  run'.pc = "mint" /\ run'.reg = 0 /\ spec.reg \notin world.live
        BY <3>2, SeenMissing DEF TypeOK, Runs
      <3>3. \/ spec.reg = 0 /\ Go("mint") /\ UNCHANGED world
            \/ \E seen : /\ Reads(spec.reg, seen) /\ seen = "missing"
                         /\ run' = [run EXCEPT !.pc = "mint", !.reg = 0]
                         /\ UNCHANGED world
            \/ UNCHANGED world /\ (Go("fail") \/ Go("verify"))
            \/ /\ world.unit = "stopped"
               /\ world' = Started \/ world' = [Started EXCEPT !.gated = FALSE]
               /\ Go("fail") \/ Go("verify")
        BY <1>20, Zenon DEF StillRegistered
      <3> QED BY <3>1, <3>2, <3>3, GoFields
    <2>2. world' = [Started EXCEPT !.gated = FALSE] =>
            /\ world'.unit = "running" /\ world'.cred = world.cred
            /\ world'.job = world.job /\ world'.live = world.live
            /\ world'.issued = world.issued /\ world'.late = world.late
      BY StartedFields, Effects DEF Worlds
    <2>3. At("still") /\ UNCHANGED spec
      BY <1>20 DEF StillRegistered
    <2> QED BY <2>1, <2>2, <2>3, StartedFields, Numbers DEF Carries
  <1>21. CASE MintToken
    BY <1>21, GoFields, UndoAfterFields, Numbers
       DEF MintToken, Carries
  <1>22. CASE RecordAttempt
    BY <1>22, Numbers
       DEF RecordAttempt
  <1>23. CASE Register

    <2>1. At("enrolling") /\ UNCHANGED spec
      BY <1>23 DEF Register
    <2>2. CASE /\ world' = Registered /\ CanRegister
               /\ \/ run'.pc = "record" /\ run'.reg = world.issued + 1
                  \/ Carries("undo")
      <3>1. OnlyIssued' /\ ReplacedByName' /\ JobHasItsRunner'
        BY <2>1, <2>2, RegisteredFields, Numbers DEF CanRegister, Carries
      <3>2. PlacedFirst' /\ VoidsWhatIsGone'
        BY <2>1, <2>2, RegisteredFields, Numbers DEF CanRegister, Carries
      <3>3. StoppedPastTheFence' /\ RollbackIsSafe' /\ GateHolds'
        BY <2>1, <2>2, RegisteredFields, Numbers DEF CanRegister, Carries
      <3>4. UnseenIsUnnamed' /\ WorksOnTheRow' /\ EndsTheRunner'
        BY <2>1, <2>2, RegisteredFields, Numbers DEF CanRegister, Carries
      <3> QED BY <3>1, <3>2, <3>3, <3>4
    <2>3. CASE UNCHANGED world /\ Carries("undo")
      BY <2>1, <2>3, Numbers DEF Carries
    <2>4. CASE world' = [world EXCEPT !.late = TRUE] /\ Carries("undo")
      <3>1. /\ world'.unit = world.unit /\ world'.cred = world.cred
            /\ world'.job = world.job /\ world'.live = world.live
            /\ world'.issued = world.issued
        BY <2>4 DEF TypeOK, Worlds
      <3> QED BY <2>1, <2>4, <3>1, Numbers DEF Carries
    <2>5. \/ /\ world' = Registered /\ CanRegister
             /\ \/ run'.pc = "record" /\ run'.reg = world.issued + 1
                \/ Carries("undo")
          \/ UNCHANGED world /\ Carries("undo")
          \/ world' = [world EXCEPT !.late = TRUE] /\ Carries("undo")
      BY <1>23, UndoAfterFields DEF Register, TypeOK, Runs
    <2> QED BY <2>2, <2>3, <2>4, <2>5
  <1>24. CASE RecordRegistration

    <2>1. /\ spec'.reg = run.reg /\ spec'.placed = spec.placed
          /\ Carries("verify")
      <3>1. Rewrite([spec EXCEPT !.reg = run.reg], "verify")
        BY <1>24 DEF RecordRegistration
      <3>2. spec' = [spec EXCEPT !.reg = run.reg] /\ Carries("verify")
        BY ONLY TypeOK, <3>1, RewriteFields
      <3> QED BY ONLY TypeOK, <3>2, RecordedFields
    <2> QED BY <1>24, <2>1, Numbers DEF Carries, RecordRegistration
  <1>25. CASE VerifyOnline
    BY <1>25, GoFields, UndoAfterFields, Numbers
       DEF SERVING, Truth, VerifyOnline, Carries
  <1>26. CASE Online
    BY <1>26, MovedFields, RestFields, Numbers
       DEF Online, Clears
  <1>27. CASE RollbackPreflight

    <2>1. \/ Carries("fail") \/ Carries("undo_quiet") \/ Carries("hold")
          \/ /\ Carries("undo_record") /\ run.reg = 0
             /\ ~world.late /\ world.live = {}
      <3>1. \/ Go("fail") \/ HoldBack("hard") \/ Go("undo_quiet")
            \/ \E seen : run' = [run EXCEPT !.pc = "undo_quiet", !.seen = seen]
            \/ Go("undo_record") /\ run.reg = 0 /\ ProvenUnregistered
        BY <1>27, Zenon DEF RollbackPreflight
      <3> QED BY <3>1, GoFields, HoldBackFields, SeenFields
              DEF ProvenUnregistered
    <2> QED BY <1>27, <2>1, Numbers DEF Carries, RollbackPreflight
  <1>28. CASE RollbackQuiet

    <2>1. \/ Carries("undo_record") /\ (~spec.placed \/ ~Up)
          \/ Carries("hold")
          \/ Turns("gate", "rollback")
      <3>1. \/ Go("undo_record") /\ (~spec.placed \/ ~Up)
            \/ HoldBack("hard")
            \/ run' = [run EXCEPT !.pc = "gate", !.after = "rollback"]
        BY <1>28, ProvenQuiet DEF RollbackQuiet
      <3> QED BY <3>1, GoFields, HoldBackFields, AfterFields
    <2> QED BY <1>28, <2>1, Numbers DEF Carries, Turns, RollbackQuiet
  <1>29. CASE UndoRecord

    <2>1. \/ run.reg # 0 /\ Turns("unregister", "rollback")
          \/ Carries("undo_unit")
      <3>1. \/ /\ run.reg # 0
               /\ run' = [run EXCEPT !.pc = "unregister", !.after = "rollback"]
            \/ \E u : run' = [run EXCEPT !.pc = "undo_unit", !.undone = u]
        BY <1>29, Zenon DEF UndoRecord
      <3> QED BY <3>1, AfterFields, UndoneFields
    <2> QED BY <1>29, <2>1, Numbers DEF Carries, Turns, UndoRecord
  <1>30. CASE UndoUnit

    <2>1. Carries("fail")
      <3>1. \/ run' = [run EXCEPT !.pc = "fail",
                                  !.undone = @ \cup {"remove_unit"}]
            \/ Go("fail")
        BY <1>30 DEF UndoUnit
      <3> QED BY <3>1, GoFields, UndoneFields
    <2> QED BY <1>30, <2>1, RemovedFields, Numbers DEF Carries, UndoUnit
  <1>31. CASE Sweep

    <2>1. spec'.reg = spec.reg /\ spec'.placed = spec.placed
      BY <1>31, MovedFields DEF Sweep
    <2>2. UNCHANGED run \/ (run'.pc = "undo" /\ run'.reg = spec.reg)
      <3>1. \/ UNCHANGED run
            \/ \E t : run' = [IdleRun EXCEPT
                                !.pc = "undo", !.verb = op.verb,
                                !.step = "verify_online",
                                !.reg = spec.reg, !.tried = t]
        BY <1>31, Zenon DEF Sweep
      <3>2. ASSUME NEW t, run' = [IdleRun EXCEPT
                                !.pc = "undo", !.verb = op.verb,
                                !.step = "verify_online",
                                !.reg = spec.reg, !.tried = t]
            PROVE  run'.pc = "undo" /\ run'.reg = spec.reg
        BY <3>2, IdleType DEF Runs
      <3> QED BY <3>1, <3>2
    <2> QED BY <1>31, <2>1, <2>2, Numbers DEF Sweep, Resting
  <1>32. CASE DoStart
    BY <1>32, GoFields, MovedFields, WriteFields, Numbers
       DEF Acting, DoStart, Carries, Clears
  <1>33. CASE DoCancelDrain
    BY <1>33, GoFields, Numbers
       DEF Acting, DoCancelDrain, Carries
  <1>34. CASE Boot
    BY <1>34, GoFields, StartedFields, Numbers
       DEF Boot, Call, Carries
  <1>35. CASE Ungate

    <2>1. /\ Carries("booted") \/ Carries("fail")
          /\ UNCHANGED world \/ world' = Gated(FALSE)
      BY <1>35, GoFields DEF Ungate, Call
    <2>2. world' = Gated(FALSE) =>
            /\ world'.unit = world.unit /\ world'.cred = world.cred
            /\ world'.job = world.job /\ world'.live = world.live
            /\ world'.issued = world.issued /\ world'.late = world.late
      BY DEF Gated, TypeOK, Worlds
    <2>3. At("ungate") /\ UNCHANGED spec
      BY <1>35 DEF Ungate
    <2>4. CASE UNCHANGED world
      BY <2>1, <2>3, <2>4, Numbers DEF Carries
    <2>5. CASE world' = Gated(FALSE) /\ Carries("booted")
      <3>1. ReplacedByName'
        BY <2>2, <2>3, <2>5, SameRecords
      <3>2. OnlyIssued' /\ JobHasItsRunner' /\ PlacedFirst'
        BY <2>2, <2>3, <2>5, Numbers DEF Carries
      <3>3. VoidsWhatIsGone' /\ StoppedPastTheFence'
        BY <2>2, <2>3, <2>5, Numbers DEF Carries
      <3>4. RollbackIsSafe' /\ GateHolds'
        BY <2>2, <2>3, <2>5, Numbers DEF Carries
      <3>5. UnseenIsUnnamed' /\ WorksOnTheRow' /\ EndsTheRunner'
        BY <2>2, <2>3, <2>5, Numbers DEF Carries
      <3> QED BY <3>1, <3>2, <3>3, <3>4, <3>5
    <2>6. CASE world' = Gated(FALSE) /\ Carries("fail")
      <3>1. ReplacedByName'
        BY <2>2, <2>3, <2>6, SameRecords
      <3>2. OnlyIssued' /\ JobHasItsRunner' /\ PlacedFirst'
        BY <2>2, <2>3, <2>6, Numbers DEF Carries
      <3>3. VoidsWhatIsGone' /\ StoppedPastTheFence'
        BY <2>2, <2>3, <2>6, Numbers DEF Carries
      <3>4. RollbackIsSafe' /\ GateHolds'
        BY <2>2, <2>3, <2>6, Numbers DEF Carries
      <3>5. UnseenIsUnnamed' /\ WorksOnTheRow' /\ EndsTheRunner'
        BY <2>2, <2>3, <2>6, Numbers DEF Carries
      <3> QED BY <3>1, <3>2, <3>3, <3>4, <3>5
    <2> QED BY <2>1, <2>4, <2>5, <2>6
  <1>36. CASE Booted
    BY <1>36, MovedFields, WriteFields, WriteLastFields, Numbers
       DEF Booted, Carries, Clears
  <1>37. CASE Advance
    BY <1>37, RestFields, Numbers
       DEF Advance, Clears
  <1>38. CASE DoStop
    BY <1>38, GoFields, MovedFields, WriteFields, Numbers
       DEF Acting, DoStop, Carries, Clears
  <1>39. CASE Halt

    <2>1. /\ Carries("halted") \/ Carries("fail")
          /\ UNCHANGED world \/ world' = Stopped
      BY <1>39, GoFields DEF Halt, Call
    <2> QED BY <1>39, <2>1, StoppedFields, Numbers DEF Carries, Halt
  <1>40. CASE Halted
    BY <1>40, MovedFields, WriteFields, Numbers
       DEF Halted, Carries, Clears
  <1>41. CASE DoDrain
    BY <1>41, GoFields, MovedFields, WriteFields, Numbers
       DEF Acting, DoDrain, Carries, Clears
  <1>42. CASE CloseGate

    <2>1. Carries("sample") \/ Carries("fail") \/ Carries("hold")
      BY <1>42, GoFields, HoldBackFields DEF CloseGate, DrainRaises
    <2>2. At("gate") /\ UNCHANGED spec
      BY <1>42 DEF CloseGate
    <2>3. CASE Provider = "github"
      <3>1. /\ UNCHANGED world \/ world' = Gated(TRUE)
            /\ \/ world' = Gated(TRUE) /\ run.reg \in world.live
               \/ Carries("fail") \/ Carries("hold")
        BY <1>42, <2>3, GoFields, HoldBackFields DEF CloseGate, DrainRaises
      <3>2. world' = Gated(TRUE) =>
              /\ world'.unit = world.unit /\ world'.cred = world.cred
              /\ world'.job = world.job /\ world'.live = world.live
              /\ world'.issued = world.issued /\ world'.late = world.late
              /\ world'.gated
        BY DEF Gated, TypeOK, Worlds
      <3>3. CASE UNCHANGED world /\ (Carries("fail") \/ Carries("hold"))
        BY <2>2, <3>3, Numbers DEF Carries
      <3>4. CASE world' = Gated(TRUE) /\ Carries("sample") /\ run.reg \in world.live
        BY <2>2, <2>3, <3>2, <3>4, Numbers DEF Carries
      <3>5. CASE world' = Gated(TRUE) /\ (Carries("fail") \/ Carries("hold"))
        <4>1. ReplacedByName'
          BY <2>2, <2>3, <3>2, <3>5, SameRecords
        <4>2. OnlyIssued' /\ JobHasItsRunner' /\ PlacedFirst'
          BY <2>2, <2>3, <3>2, <3>5, Numbers DEF Carries
        <4>3. VoidsWhatIsGone' /\ StoppedPastTheFence'
          BY <2>2, <2>3, <3>2, <3>5, Numbers DEF Carries
        <4>4. RollbackIsSafe' /\ GateHolds'
          BY <2>2, <2>3, <3>2, <3>5, Numbers DEF Carries
        <4>5. UnseenIsUnnamed' /\ WorksOnTheRow' /\ EndsTheRunner'
          BY <2>2, <2>3, <3>2, <3>5, Numbers DEF Carries
        <4> QED BY <4>1, <4>2, <4>3, <4>4, <4>5
      <3>6. CASE UNCHANGED world /\ world' = Gated(TRUE) /\ Carries("sample")
                 /\ run.reg \in world.live
        BY <3>4, <3>6
      <3> QED BY <2>1, <3>1, <3>3, <3>4, <3>5, <3>6
    <2>4. CASE Provider # "github"
      <3>1. UNCHANGED world \/ (world' = Terminated /\ Up)
        BY <1>42, <2>4 DEF CloseGate
      <3> QED BY <2>1, <2>2, <2>4, <3>1, TerminatedFields, Numbers DEF Carries
    <2> QED BY <2>3, <2>4
  <1>43. CASE Sample

    <2>1. /\ run'.reg = run.reg
          /\ \/ run'.pc = "prove"
             \/ run'.pc = "hush" /\ Provider = "github" /\ ~world.job
      <3>1. PICK seen \in READINGS :
              /\ Reads(run.reg, seen)
              /\ run' = [run EXCEPT !.seen = seen,
                           !.pc = IF Provider = "github" /\ seen = "idle"
                                  THEN "hush" ELSE "prove"]
        BY <1>43, Zenon DEF Sample
      <3>2. /\ run'.reg = run.reg
            /\ run'.pc = IF Provider = "github" /\ seen = "idle"
                         THEN "hush" ELSE "prove"
        BY <3>1 DEF TypeOK, Runs
      <3>3. Provider = "github" /\ seen = "idle" => ~world.job
        BY <1>43, <3>1, SeenIdle DEF Sample
      <3> QED BY <3>2, <3>3
    <2> QED BY <1>43, <2>1, Numbers DEF Sample
  <1>44. CASE Hush

    <2>1. /\ Carries("prove") \/ Carries("fail") \/ Carries("hold")
          /\ UNCHANGED world \/ world' = Stopped
      BY <1>44, GoFields, HoldBackFields DEF Hush, DrainRaises
    <2>2. At("hush") /\ UNCHANGED spec /\ (Exists \/ UNCHANGED world)
      BY <1>44 DEF Hush
    <2>3. CASE UNCHANGED world
      BY <2>1, <2>2, <2>3, Numbers DEF Carries
    <2>4. CASE world' = Stopped /\ Carries("prove")
      <3>1. ReplacedByName'
        BY <2>2, <2>4, StoppedFields, SameRecords
      <3>2. OnlyIssued' /\ JobHasItsRunner' /\ PlacedFirst'
        BY <2>2, <2>4, StoppedFields, Numbers DEF Carries
      <3>3. VoidsWhatIsGone' /\ StoppedPastTheFence'
        BY <2>2, <2>4, StoppedFields, Numbers DEF Carries
      <3>4. RollbackIsSafe' /\ GateHolds'
        BY <2>2, <2>4, StoppedFields, Numbers DEF Carries
      <3>5. UnseenIsUnnamed' /\ WorksOnTheRow' /\ EndsTheRunner'
        BY <2>2, <2>4, StoppedFields, Numbers DEF Carries
      <3> QED BY <3>1, <3>2, <3>3, <3>4, <3>5
    <2>5. CASE world' = Stopped /\ (Carries("fail") \/ Carries("hold"))
      <3>1. ReplacedByName'
        BY <2>2, <2>5, StoppedFields, SameRecords
      <3>2. OnlyIssued' /\ JobHasItsRunner' /\ PlacedFirst'
        BY <2>2, <2>5, StoppedFields, Numbers DEF Carries
      <3>3. VoidsWhatIsGone' /\ StoppedPastTheFence'
        BY <2>2, <2>5, StoppedFields, Numbers DEF Carries
      <3>4. RollbackIsSafe' /\ GateHolds'
        BY <2>2, <2>5, StoppedFields, Numbers DEF Carries
      <3>5. UnseenIsUnnamed' /\ WorksOnTheRow' /\ EndsTheRunner'
        BY <2>2, <2>5, StoppedFields, Numbers DEF Carries
      <3> QED BY <3>1, <3>2, <3>3, <3>4, <3>5
    <2> QED BY <2>1, <2>3, <2>4, <2>5
  <1>45. CASE Prove

    <2>1. \/ Clears \/ Carries("proven") \/ Carries("hold")
          \/ Carries("undo_quiet")
      <3>1. run.after \in {"step", "quiesce", "rollback"}
        BY DEF TypeOK, Runs
      <3>2. \/ Go("proven") \/ Rest \/ HoldBack("hard")
            \/ run' = [run EXCEPT !.pc = "undo_quiet", !.seen = "offline"]
        BY <1>45, <3>1 DEF Prove
      <3> QED BY <3>2, GoFields, RestFields, HoldBackFields, SeenFields
    <2> QED BY <1>45, <2>1, Numbers DEF Carries, Clears, Prove
  <1>46. CASE Proven
    BY <1>46, MovedFields, WriteLastFields, Numbers
       DEF Proven, Clears
  <1>47. CASE DoDeregister
    BY <1>47, GoFields, MovedFields, WriteFields, Numbers
       DEF Acting, DoDeregister, Carries, Clears
  <1>48. CASE Unregister

    <2>1. \/ /\ UNCHANGED world
             /\ Carries("disown") \/ Carries("fail")
          \/ /\ world' = Deleted(run.reg)
             /\ \/ Carries("fail")
                \/ run'.pc = "undo_unit" /\ run'.reg = run.reg
                \/ Carries("unregistered") /\ run.after # "rollback"
      BY <1>48, GoFields, DeregisteredFields DEF Unregister
    <2> QED BY <1>48, <2>1, DeletedFields, Numbers DEF Carries, Unregister
  <1>49. CASE DeleteRecordInstead

    <2>1. \/ UNCHANGED world /\ Carries("fail")
          \/ /\ world' = Deleted(run.reg)
             /\ \/ Carries("fail")
                \/ run'.pc = "undo_unit" /\ run'.reg = run.reg
                \/ Carries("unregistered") /\ run.after # "rollback"
      BY <1>49, GoFields, DeregisteredFields DEF DeleteRecordInstead
    <2> QED BY <1>49, <2>1, DeletedFields, Numbers
       DEF Carries, DeleteRecordInstead
  <1>50. CASE Unregistered

    <2>1. \/ Clears
          \/ Carries("act") /\ run.action # "deregister"
      BY <1>50, RestFields, GoFields DEF Unregistered, Write, WriteLast
    <2>2. spec'.reg \in {0, spec.reg} /\ spec'.placed = spec.placed
      BY <1>50 DEF Unregistered, Write, WriteLast, Moved, TypeOK, Specs
    <2>3. At("unregistered") /\ UNCHANGED world
      BY <1>50 DEF Unregistered
    <2>4. CASE Clears
      BY <2>2, <2>3, <2>4, Numbers DEF Clears
    <2>5. CASE Carries("act") /\ run.action # "deregister"
      BY <2>2, <2>3, <2>5, Numbers DEF Carries
    <2> QED BY <2>1, <2>4, <2>5
  <1>51. CASE DoRemove

    <2>1. spec'.reg = spec.reg /\ spec'.placed = spec.placed
      BY <1>51, MovedFields DEF DoRemove, Write
    <2>2. \/ Clears
          \/ Carries("unregister") \/ Carries("erase") \/ Carries("act")
      BY <1>51, GoFields, RestFields DEF DoRemove, Write
    <2> QED BY <1>51, <2>1, <2>2, Numbers
       DEF Carries, Clears, DoRemove, Acting
  <1>52. CASE Erase

    <2>1. /\ Carries("erased") \/ Carries("fail")
          /\ UNCHANGED world \/ world' = Removed
      BY <1>52, GoFields DEF Erase, Call
    <2> QED BY <1>52, <2>1, RemovedFields, Numbers DEF Carries, Erase
  <1>53. CASE Erased

    <2>1. spec'.reg \in {0, spec.reg} /\ spec'.placed = spec.placed
      <3>1. \/ spec' = [Moved("provisioning") EXCEPT !.unitRef = FALSE, !.reg = 0]
            \/ UNCHANGED spec
            \/ spec' = Moved("absent")
        BY <1>53, RewriteFields, WriteFields DEF Erased
      <3>2. CASE spec' = [Moved("provisioning") EXCEPT !.unitRef = FALSE, !.reg = 0]
        BY ONLY TypeOK, <3>2, UnmovedFields
      <3>3. CASE spec' = Moved("absent")
        BY ONLY TypeOK, <3>3, MovedFields
      <3> QED BY <3>1, <3>2, <3>3
    <2>2. \/ Clears \/ Carries("fail") \/ Carries("finish")
          \/ Carries("advance")
      BY <1>53, GoFields, RestFields, RewriteFields DEF Erased, Write
    <2> QED BY <1>53, <2>1, <2>2, Numbers DEF Carries, Clears, Erased
  <1>54. CASE DoWithdraw
    BY <1>54, MovedFields, WriteFields, Numbers
       DEF Acting, DoWithdraw, Carries, Clears
  <1>55. CASE SoftDelete
    BY <1>55, GoFields, MovedFields, Numbers
       DEF SoftDelete, Carries
  <1>56. CASE CloseFinished
    BY <1>56, RestFields, Numbers
       DEF CloseFinished, Clears
  <1>57. CASE DoRepair

    <2>1. spec'.reg = spec.reg /\ spec'.placed = spec.placed
      BY <1>57 DEF DoRepair, WriteLast, Moved, TypeOK, Specs
    <2> QED BY <1>57, <2>1, RestFields, Numbers
       DEF Clears, DoRepair, WriteLast
  <1>58. CASE DoClearCache
    BY <1>58, GoFields, Numbers
       DEF Acting, DoClearCache, Carries
  <1>59. CASE ClearCache
    BY <1>59, GoFields, Numbers
       DEF ClearCache, Carries
  <1>60. CASE DoObserve

    <2>1. Clears \/ Carries("observed")
      <3>1. \/ Rest
            \/ \E n : run' = [run EXCEPT !.pc = "observed", !.news = n]
        BY <1>60, Zenon DEF DoObserve
      <3> QED BY <3>1, RestFields, NewsFields
    <2> QED BY <1>60, <2>1, Numbers DEF Carries, Clears, DoObserve
  <1>61. CASE RecordObservation
    BY <1>61, MovedFields, WriteLastFields, Numbers
       DEF RecordObservation, Clears
  <1> QED
    BY <1>1, <1>2, <1>3, <1>4, <1>5, <1>6, <1>7, <1>8, <1>9, <1>10,
       <1>11, <1>12, <1>13, <1>14, <1>15, <1>16, <1>17, <1>18, <1>19, <1>20,
       <1>21, <1>22, <1>23, <1>24, <1>25, <1>26, <1>27, <1>28, <1>29, <1>30,
       <1>31, <1>32, <1>33, <1>34, <1>35, <1>36, <1>37, <1>38, <1>39, <1>40,
       <1>41, <1>42, <1>43, <1>44, <1>45, <1>46, <1>47, <1>48, <1>49, <1>50,
       <1>51, <1>52, <1>53, <1>54, <1>55, <1>56, <1>57, <1>58, <1>59, <1>60,
       <1>61
       DEF Reconcile

\* So does what happens without the controller.
LEMMA EnvironmentKeepsSafe ==
  ASSUME TypeOK, Safe, Environment
  PROVE  Safe'
  <1> USE DEF OnlyIssued, ReplacedByName, JobHasItsRunner, PlacedFirst,
          VoidsWhatIsGone, PastTheFence, StoppedPastTheFence, RollbackIsSafe,
          GateHolds, NamesNoLiveRecord, UnseenIsUnnamed, UsesTheRow,
          WorksOnTheRow, TakesOff, EndsTheRunner, Safe, At, Up, Exists,
          FENCED, DESTRUCTIVE, ENDS_WORK
  <1>1. CASE Crash

    <2>1. \/ UNCHANGED world
          \/ /\ At("enrolling")
             /\ world'.unit = world.unit /\ world'.cred = world.cred
             /\ world'.job = world.job /\ world'.live = world.live
             /\ world'.issued = world.issued
      BY <1>1 DEF Crash, TypeOK, Worlds
    <2> QED BY <1>1, <2>1, RestFields, Numbers DEF Clears, Crash
  <1>2. CASE DeadlinePasses
    BY <1>2, Numbers
       DEF DeadlinePasses
  <1>3. CASE JobStarts
    BY <1>3, Numbers
       DEF JobStarts, Untouched
  <1>4. CASE JobEnds
    BY <1>4, Numbers
       DEF JobEnds, Untouched
  <1>5. CASE UnitExits

    <2> QED BY <1>5, StoppedFields, Numbers DEF UnitExits, Untouched
  <1>6. CASE HostReboots
    BY <1>6, Numbers
       DEF HostReboots, Untouched
  <1>7. CASE WorkerDegrades
    BY <1>7, Numbers
       DEF Untouched, WorkerDegrades
  <1>8. CASE WorkerRecovers
    BY <1>8, Numbers
       DEF Untouched, WorkerRecovers
  <1>9. CASE LateRegistration

    <2>1. CASE world' = Registered
      BY <1>9, <2>1, RegisteredFields, Numbers DEF LateRegistration, Untouched
    <2>2. CASE world' = [world EXCEPT !.late = FALSE]
      <3>1. /\ world'.unit = world.unit /\ world'.cred = world.cred
            /\ world'.job = world.job /\ world'.live = world.live
            /\ world'.issued = world.issued /\ world'.gated = world.gated
            /\ ~world'.late
        BY <2>2 DEF TypeOK, Worlds
      <3> QED BY <1>9, <3>1, Numbers DEF LateRegistration, Untouched
    <2> QED BY <1>9, <2>1, <2>2 DEF LateRegistration
  <1>10. CASE SignedEvent
    <2>1. /\ spec'.reg = spec.reg /\ spec'.placed = spec.placed
          /\ UNCHANGED world
      BY <1>10 DEF SignedEvent, TypeOK, Specs
    <2>2. /\ run'.pc = run.pc /\ run'.reg = run.reg
          /\ run'.action = run.action /\ run'.after = run.after
      <3>1. run' = [run EXCEPT !.fresh = FALSE] \/ run' = run
        BY <1>10 DEF SignedEvent
      <3> QED BY <3>1 DEF TypeOK, Runs
    <2> QED BY <2>1, <2>2, Numbers
  <1> QED
    BY <1>1, <1>2, <1>3, <1>4, <1>5, <1>6, <1>7, <1>8, <1>9, <1>10
       DEF Environment

\* So does a request: the pass, its registration and the row's stay.
LEMMA ServiceKeepsSafe ==
  ASSUME TypeOK, Safe, Service
  PROVE  Safe'
  <1> USE DEF OnlyIssued, ReplacedByName, JobHasItsRunner, PlacedFirst,
          VoidsWhatIsGone, PastTheFence, StoppedPastTheFence, RollbackIsSafe,
          GateHolds, NamesNoLiveRecord, UnseenIsUnnamed, UsesTheRow,
          WorksOnTheRow, TakesOff, EndsTheRunner, Safe, At, Up, Exists,
          FENCED, DESTRUCTIVE, ENDS_WORK
  <1>1. /\ spec'.reg = spec.reg /\ spec'.placed = spec.placed
        /\ Overtaken /\ UNCHANGED world
    BY DEF Service, Act, Retire, TypeOK, Specs
  <1> QED BY <1>1, OvertakenFields, Numbers DEF Carries

\* A runner that was only just described satisfies it.
LEMMA InitSafe == Init => Safe
  BY DEF Init, NoOp, IdleRun, Safe, OnlyIssued, ReplacedByName,
         JobHasItsRunner, PlacedFirst, VoidsWhatIsGone, PastTheFence,
         StoppedPastTheFence, RollbackIsSafe, GateHolds, UnseenIsUnnamed,
         UsesTheRow, WorksOnTheRow, TakesOff, EndsTheRunner, At, Exists, Up

\* Every step keeps the invariant.
LEMMA Inductive ==
  ASSUME IInv, [Next]_vars
  PROVE  IInv'
  <1>1. TypeOK'
    BY NextTypes DEF IInv
  <1>2. CASE Next
    BY <1>1, <1>2, ReconcileKeepsSafe, ServiceKeepsSafe, EnvironmentKeepsSafe
       DEF Next, IInv
  <1>3. CASE UNCHANGED vars
    <2>1. Safe'
      BY <1>3
         DEF vars, IInv, Safe, OnlyIssued, ReplacedByName, JobHasItsRunner,
             PlacedFirst, VoidsWhatIsGone, PastTheFence, StoppedPastTheFence,
             RollbackIsSafe, GateHolds, NamesNoLiveRecord, UnseenIsUnnamed,
             UsesTheRow, WorksOnTheRow, TakesOff, EndsTheRunner, At, Exists,
             Up
    <2> QED BY <1>1, <2>1 DEF IInv
  <1> QED BY <1>2, <1>3

\* The invariant that carries the two theorems below: the fences in front of
\* the steps that end work, the voiding of registrations and the rollback hold
\* between any two writes or calls, whoever else acts in between.
THEOREM Invariance == Spec => []IInv
  <1>1. Init => IInv
    BY InitTypes, InitSafe DEF IInv
  <1> QED BY <1>1, Inductive, PTL DEF Spec

\* When a cache is cleared the runner's process has stopped, whatever was read
\* wrongly, lost or asked for since the clear was decided.
THEOREM CacheClearedAtRest == Spec => []ClearedAtRest
  <1>1. IInv => ClearedAtRest
    BY DEF IInv, Safe, StoppedPastTheFence, PastTheFence, ClearedAtRest
  <1> QED BY <1>1, Invariance, PTL

-----------------------------------------------------------------------------
(* No step of the controller ends a job.                                   *)

\* A job is only ever running in a unit that is up.
LEMMA NoJobAtRest ==
  ASSUME Safe, ~Up
  PROVE  ~world.job
  BY DEF Safe, JobHasItsRunner

\* What the reconciler does ends no job: every call that would is behind a
\* fence that proves there is none.
LEMMA ReconcileEndsNoJob ==
  ASSUME TypeOK, Safe, Reconcile, world.job
  PROVE  world'.job
  <1>1. Up
    BY NoJobAtRest
  <1>2. CASE UNCHANGED world
    BY <1>2
  <1>3. CASE CreateUnit
    BY <1>3, CreatedFields DEF CreateUnit
  <1>4. CASE VoidRegistration
    BY <1>4, <1>1 DEF VoidRegistration, Safe, VoidsWhatIsGone, At, Exists, Up
  <1>5. CASE StillRegistered
    <2>1. [Started EXCEPT !.gated = FALSE].job = world.job
      BY StartedFields, Effects DEF Worlds
    <2>2. \/ UNCHANGED world \/ world' = Started
          \/ world' = [Started EXCEPT !.gated = FALSE]
      BY <1>5 DEF StillRegistered
    <2> QED BY <2>1, <2>2, StartedFields
  <1>6. CASE Register
    <2>1. [world EXCEPT !.late = TRUE].job = world.job
      BY DEF TypeOK, Worlds
    <2>2. \/ UNCHANGED world \/ world' = Registered
          \/ world' = [world EXCEPT !.late = TRUE]
      BY <1>6 DEF Register
    <2> QED BY <2>1, <2>2, RegisteredFields
  <1>7. CASE UndoUnit
    BY <1>7, <1>1 DEF UndoUnit, Safe, RollbackIsSafe, JobHasItsRunner, At
  <1>8. CASE Boot
    BY <1>8, StartedFields DEF Boot, Call
  <1>9. CASE Ungate
    BY <1>9 DEF Ungate, Call, Gated, TypeOK, Worlds
  <1>10. CASE Halt
    BY <1>10, <1>1 DEF Halt, Safe, StoppedPastTheFence, PastTheFence
  <1>11. CASE CloseGate
    BY <1>11, TerminatedFields DEF CloseGate, Gated, TypeOK, Worlds
  <1>12. CASE Hush
    BY <1>12 DEF Hush, Safe, GateHolds
  <1>13. CASE Unregister
    BY <1>13, <1>1 DEF Unregister, Safe, StoppedPastTheFence, PastTheFence
  <1>14. CASE DeleteRecordInstead
    BY <1>14, <1>1
       DEF DeleteRecordInstead, Safe, StoppedPastTheFence, PastTheFence
  <1>15. CASE Erase
    BY <1>15, <1>1 DEF Erase, Safe, StoppedPastTheFence, PastTheFence
  <1> QED
    BY <1>2, <1>3, <1>4, <1>5, <1>6, <1>7, <1>8, <1>9, <1>10,
       <1>11, <1>12, <1>13, <1>14, <1>15
       DEF Reconcile, ForgetClosed, ResumeRecreate, RefuseReplacement,
           CloseFulfilled, Unpoint, PeekBeforeClear, DecideStep, LookAgain,
           Admit, Fail, Hold, OpenProvision, DoProvision, Place,
           ForgetVoided, Provisioned, DoRegister, MintToken, RecordAttempt,
           RecordRegistration, VerifyOnline, Online, RollbackPreflight,
           RollbackQuiet, UndoRecord, Sweep, DoStart, DoCancelDrain, Booted,
           Advance, DoStop, Halted, DoDrain, Sample, Prove, Proven,
           DoDeregister, Unregistered, DoRemove, Erased, DoWithdraw,
           SoftDelete, CloseFinished, DoRepair, DoClearCache, ClearCache,
           DoObserve, RecordObservation

\* Nor does anything else but its own end and a reboot of its host.
LEMMA EnvironmentEndsNoJob ==
  ASSUME TypeOK, Safe, Environment, world.job, ~world'.job
  PROVE  JobEnds \/ HostReboots
  <1>1. CASE Crash
    BY <1>1 DEF Crash, TypeOK, Worlds
  <1>2. CASE DeadlinePasses
    BY <1>2 DEF DeadlinePasses
  <1>3. CASE JobStarts
    BY <1>3 DEF JobStarts
  <1>4. CASE UnitExits
    BY <1>4 DEF UnitExits
  <1>5. CASE WorkerDegrades
    BY <1>5 DEF WorkerDegrades, TypeOK, Worlds
  <1>6. CASE WorkerRecovers
    BY <1>6 DEF WorkerRecovers, TypeOK, Worlds
  <1>7. CASE LateRegistration
    BY <1>7, RegisteredFields DEF LateRegistration, TypeOK, Worlds
  <1>8. CASE SignedEvent
    BY <1>8 DEF SignedEvent
  <1> QED BY <1>1, <1>2, <1>3, <1>4, <1>5, <1>6, <1>7, <1>8 DEF Environment

\* decide itself never names a step that ends work where a runner may have a
\* job, whatever it is asked for and whatever was done: the refusal in front
\* of the step is a second lock, never the one that holds.
THEOREM DecideSparesJobs ==
  ASSUME NEW actual, NEW desired, NEW verb, NEW done, NEW err, NEW drainFirst
  PROVE  ~AbortsAJob(Decide(actual, desired, verb, done, err, drainFirst),
                     actual)
  BY DEF AbortsAJob, ENDS_WORK, AT_WORK, Decide, Stranded, ForClear, ForVerb,
         ForRestart, ForRecreate, Interrupted, Toward, TowardAbsent,
         TowardStopped, TowardDrained, TowardRunning, TERMINAL

\* No step of the controller ends a job: whatever it last saw of the runner,
\* whatever call or answer was lost, whoever wrote the row in between and
\* however many faults there were.
THEOREM JobsAreSafe == Spec => NeverAbortsAJob
  <1>1. ASSUME IInv, [Next]_vars
        PROVE  [world.job /\ ~world'.job => JobEnds \/ HostReboots]_vars
    <2>1. CASE UNCHANGED vars
      BY <2>1
    <2>2. CASE Reconcile
      BY <1>1, <2>2, ReconcileEndsNoJob DEF IInv
    <2>3. CASE Service
      BY <2>3 DEF Service, Act, Retire
    <2>4. CASE Environment
      BY <1>1, <2>4, EnvironmentEndsNoJob DEF IInv
    <2> QED BY <1>1, <2>1, <2>2, <2>3, <2>4 DEF Next
  <1> QED BY <1>1, Invariance, PTL DEF Spec, NeverAbortsAJob

-----------------------------------------------------------------------------
(* The row only moves along the edges of the machine.                      *)

\* The places of a pass that say nothing of the row.
Elsewhere ==
  {"rest", "decide", "undo", "undo_quiet", "undo_record", "undo_unit",
   "advance", "fail", "hold", "finish", "closing", "clear", "unpoint"}

\* The row stays where it is or moves along an edge.
Legal ==
  spec'.actual = spec.actual \/ <<spec.actual, spec'.actual>> \in TRANSITIONS

\* What is asked of the row at the place a pass goes to.
LEMMA OnItsWay ==
  /\ \A r, a : r.pc \in Elsewhere => StandsAt(r, a)
  /\ Clears => \A a : StandsAt(run', a)
  /\ \A p \in Elsewhere : Carries(p) => \A a : StandsAt(run', a)
  /\ run'.pc \in {"place", "create", "void", "voided", "made"} => StandsAt(run', "provisioning")
  /\ run'.pc \in {"still", "mint", "enroll", "enrolling", "record", "verify", "online"} =>
       StandsAt(run', "registering")
  /\ \A p \in {"boot", "ungate", "booted"} :
       Carries(p) => /\ run.action = "start" => StandsAt(run', "starting")
                     /\ run.action = "cancel_drain" => StandsAt(run', "drained")
  /\ run'.pc \in {"halt", "halted"} => StandsAt(run', "stopping")
  /\ \A p \in {"gate", "sample", "hush", "prove"} : Carries(p) =>
       /\ StandsAt(run', "draining")
       /\ run.after # "step" => \A a : StandsAt(run', a)
  /\ Carries("proven") => StandsAt(run', "draining")
  /\ \A p \in {"unregister", "disown", "unregistered"} : Carries(p) =>
       /\ run.action = "deregister" => StandsAt(run', "deregistering")
       /\ run.action = "remove" =>
            StandsAt(run', "removing") /\ StandsAt(run', "failed")
       /\ run.after = "rollback" /\ p # "unregistered" => \A a : StandsAt(run', a)
  /\ run'.pc \in {"erase", "erased"} => StandsAt(run', "removing")
  /\ \A p \in {"admit", "act"} : Carries(p) /\ run.action \in STEPS =>
       \A a \in BEFORE[run.action] : StandsAt(run', a)
  /\ Turns("gate", "quiesce") \/ Turns("gate", "rollback") \/ Turns("unregister", "rollback") =>
       \A a : StandsAt(run', a)
  BY DEF StandsAt, Elsewhere, Clears, Carries, Turns

\* What Standing says of where a pass is.
LEMMA WhereItStands ==
  ASSUME Standing
  PROVE  /\ At("look") => spec.actual = "drained"
         /\ run.pc \in {"look", "admit", "act"} =>
              run.action \in STEPS /\ spec.actual \in BEFORE[run.action]
         /\ run.pc \in {"place", "create", "void", "voided", "made"} =>
              spec.actual = "provisioning"
         /\ run.pc \in {"still", "mint", "enroll", "enrolling", "record", "verify", "online"} =>
              spec.actual = "registering"
         /\ run.pc \in {"boot", "ungate", "booted"} =>
              \/ run.action = "start" /\ spec.actual = "starting"
              \/ run.action = "cancel_drain" /\ spec.actual = "drained"
         /\ run.pc \in {"halt", "halted"} => spec.actual = "stopping"
         /\ run.pc \in {"gate", "sample", "hush", "prove"} =>
              run.after # "step" \/ spec.actual = "draining"
         /\ At("proven") => spec.actual = "draining"
         /\ run.pc \in {"unregister", "disown", "unregistered"} =>
              \/ run.after = "rollback" /\ run.pc # "unregistered"
              \/ run.action = "deregister" /\ spec.actual = "deregistering"
              \/ run.action = "remove" /\ spec.actual \in {"removing", "failed"}
         /\ run.pc \in {"erase", "erased"} => spec.actual = "removing"
         /\ At("observed") /\ run.fresh => <<spec.actual, run.news>> \in TRANSITIONS
  BY DEF Standing, StandsAt, At

\* Where the runner is when a step is taken.
LEMMA TakenFrom ==
  ASSUME Standing, At("act")
  PROVE  /\ run.action = "provision" => spec.actual \in {"planned", "provisioning"}
         /\ run.action = "register" => spec.actual = "provisioned"
         /\ run.action = "start" => spec.actual \in {"stopped", "starting"}
         /\ run.action = "stop" => spec.actual \in {"drained", "stopping"}
         /\ run.action = "drain" => spec.actual \in {"idle", "busy", "draining"}
         /\ run.action = "cancel_drain" => spec.actual = "drained"
         /\ run.action = "withdraw" => spec.actual = "planned"
         /\ run.action = "deregister" => spec.actual \in {"drained", "stopped", "deregistering"}
         /\ run.action = "remove" => spec.actual \in {"removing", "failed"}
         /\ run.action = "repair" => spec.actual = "failed"
  BY WhereItStands DEF BEFORE, At

\* A move is a move.
LEMMA MovesTo ==
  ASSUME TypeOK
  PROVE  /\ \A to : Moved(to).actual = to
         /\ \A to : [Moved(to) EXCEPT !.unitRef = FALSE, !.reg = 0].actual = to
         /\ \A to : [Moved(to) EXCEPT !.reg = 0].actual = to
         /\ \A to : [Moved(to) EXCEPT !.reg = run.reg].actual = to
         /\ \A to : [Moved(to) EXCEPT !.unitRef = TRUE].actual = to
         /\ \A to : [Moved(to) EXCEPT !.err = FALSE].actual = to
  BY DEF TypeOK, Specs, Moved

\* The rest of a row is no matter of where it stands.
LEMMA StandsStill ==
  ASSUME TypeOK
  PROVE  /\ \A d : [spec EXCEPT !.desired = d].actual = spec.actual
         /\ \A p : [spec EXCEPT !.placed = p].actual = spec.actual
         /\ \A reg : [spec EXCEPT !.reg = reg].actual = spec.actual
         /\ \A err : [spec EXCEPT !.err = err].actual = spec.actual
         /\ \A l : [spec EXCEPT !.listed = l].actual = spec.actual
  BY DEF TypeOK, Specs

\* decide names a step for a runner that can take it.
LEMMA DecidesWhereItStands ==
  ASSUME NEW actual \in STATES, NEW desired, NEW verb, NEW done, NEW err, NEW drainFirst,
         Decide(actual, desired, verb, done, err, drainFirst) # "none"
  PROVE  actual \in BEFORE[Decide(actual, desired, verb, done, err, drainFirst)]
<1> DEFINE step == Decide(actual, desired, verb, done, err, drainFirst)
<1>1. /\ step = "provision" => actual \in {"planned", "provisioning"}
      /\ step = "register" => actual = "provisioned"
      /\ step = "start" => actual \in {"stopped", "starting"}
      /\ step = "stop" => actual \in {"drained", "stopping"}
      /\ step = "drain" => actual \in {"idle", "busy", "draining"}
      /\ step = "cancel_drain" => actual = "drained"
      /\ step = "withdraw" => actual = "planned"
      /\ step = "deregister" => actual \in {"drained", "stopped", "deregistering"}
      /\ step = "remove" => actual \in {"removing", "failed"}
      /\ step = "repair" => actual = "failed"
  BY DEF Decide, Stranded, ForClear, ForVerb, ForRestart, ForRecreate,
         Interrupted, Toward, TowardAbsent, TowardStopped, TowardDrained,
         TowardRunning, TERMINAL
<1>2. step \in STEPS \cup {"none"}
  BY DecidesAStep
<1> HIDE DEF step
<1>3. step # "none" => actual \in BEFORE[step]
  BY <1>1, <1>2 DEF BEFORE, STEPS
<1> QED BY <1>3 DEF step

\* What the reconciler does moves the row along the edges, and to where the next place of
\* the pass takes it to be.
LEMMA ReconcileMovesLegally ==
  ASSUME TypeOK, Standing, Reconcile
  PROVE  Legal /\ Standing'
  <1> USE DEF At, Resting, Acting
  <1>1. CASE ForgetClosed
    BY <1>1, GoFields, OnItsWay
       DEF ForgetClosed, Legal, Standing, Elsewhere, Carries
  <1>2. CASE ResumeRecreate
    <2>1. \/ spec' = [spec EXCEPT !.desired = "running"] /\ UNCHANGED run
          \/ UNCHANGED spec /\ Carries("fail")
      BY <1>2, GoFields DEF ResumeRecreate
    <2>2. run.pc = "rest"
      BY <1>2 DEF ResumeRecreate
    <2> QED BY <2>1, <2>2, OnItsWay, StandsStill DEF Legal, Standing, Elsewhere, Carries
  <1>3. CASE RefuseReplacement
    BY <1>3, GoFields, OnItsWay
       DEF RefuseReplacement, Legal, Standing, Elsewhere, Carries
  <1>4. CASE CloseFulfilled
    BY <1>4, GoFields, RestFields, OnItsWay
       DEF CloseFulfilled, Legal, Standing, Elsewhere, Carries
  <1>5. CASE Unpoint
    BY <1>5, RestFields, OnItsWay
       DEF Unpoint, Legal, Standing, Elsewhere, Carries
  <1>6. CASE PeekBeforeClear
    BY <1>6, GoFields, OnItsWay, MovesTo
       DEF PeekBeforeClear, Legal, Standing, Elsewhere, MustPeek, SERVING, TRANSITIONS, Carries
  <1>7. CASE Fail
    BY <1>7, RestFields, OnItsWay
       DEF Fail, Legal, Standing, Elsewhere, FailedFrom, TypeOK, Specs, Carries
  <1>8. CASE Hold
    BY <1>8, RestFields, OnItsWay, StandsStill
       DEF Hold, Legal, Standing, Elsewhere, Carries
  <1>9. CASE Place
    <2>1. /\ \/ UNCHANGED spec /\ Carries("create")
             \/ spec' = [spec EXCEPT !.placed = TRUE] /\ Carries("create")
             \/ UNCHANGED spec /\ Carries("undo")
          /\ spec.actual = "provisioning"
      BY <1>9, GoFields, UndoAfterFields, RewriteFields, WhereItStands DEF Place
    <2>2. spec'.actual = "provisioning" /\ Legal
      BY <2>1, StandsStill DEF Legal
    <2>3. run'.pc \in {"create", "undo"}
      BY <2>1 DEF Carries
    <2> QED BY <2>2, <2>3, OnItsWay DEF Standing, Elsewhere
  <1>10. CASE CreateUnit
    BY <1>10, GoFields, UndoAfterFields, HoldBackFields, OnItsWay, WhereItStands
       DEF CreateUnit, Legal, Standing, Elsewhere, Carries
  <1>11. CASE VoidRegistration
    BY <1>11, GoFields, HoldBackFields, OnItsWay, WhereItStands
       DEF VoidRegistration, Legal, Standing, Elsewhere, Carries
  <1>12. CASE ForgetVoided
    <2>1. spec' = [spec EXCEPT !.reg = 0] /\ Carries("create") /\ spec.actual = "provisioning"
      BY <1>12, RewriteFields, WhereItStands DEF ForgetVoided
    <2> QED BY <2>1, OnItsWay, StandsStill DEF Legal, Standing, Carries
  <1>13. CASE MintToken
    BY <1>13, GoFields, UndoAfterFields, OnItsWay, WhereItStands
       DEF MintToken, Legal, Standing, Elsewhere, Carries
  <1>14. CASE RecordRegistration
    <2>1. spec' = [spec EXCEPT !.reg = run.reg] /\ Carries("verify")
          /\ spec.actual = "registering"
      BY <1>14, RewriteFields, WhereItStands DEF RecordRegistration
    <2> QED BY <2>1, OnItsWay, StandsStill DEF Legal, Standing, Carries
  <1>15. CASE VerifyOnline
    BY <1>15, GoFields, UndoAfterFields, OnItsWay, WhereItStands
       DEF VerifyOnline, Legal, Standing, Elsewhere, Carries
  <1>16. CASE Advance
    BY <1>16, RestFields, OnItsWay
       DEF Advance, Legal, Standing, Elsewhere, Carries
  <1>17. CASE Proven
    BY <1>17, WriteLastFields, OnItsWay, WhereItStands, MovesTo
       DEF Proven, Legal, Standing, Elsewhere, TRANSITIONS, Carries
  <1>18. CASE SoftDelete
    BY <1>18, GoFields, OnItsWay, StandsStill
       DEF SoftDelete, Legal, Standing, Elsewhere, Carries
  <1>19. CASE CloseFinished
    BY <1>19, RestFields, OnItsWay
       DEF CloseFinished, Legal, Standing, Elsewhere, Carries
  <1>20. CASE ClearCache
    BY <1>20, GoFields, OnItsWay
       DEF ClearCache, Legal, Standing, Elsewhere, Carries
  <1>21. CASE DoCancelDrain
    BY <1>21, GoFields, OnItsWay, TakenFrom
       DEF DoCancelDrain, Legal, Standing, Elsewhere, Carries
  <1>22. CASE Provisioned
    BY <1>22, RestFields, OnItsWay, WhereItStands, MovesTo
       DEF Provisioned, Legal, Standing, Elsewhere, TRANSITIONS, Carries
  <1>23. CASE Online
    BY <1>23, RestFields, OnItsWay, WhereItStands, MovesTo
       DEF Online, Legal, Standing, Elsewhere, TRANSITIONS, Carries
  <1>24. CASE DoProvision
    BY <1>24, GoFields, RestFields, WriteFields, OnItsWay, TakenFrom, MovesTo
       DEF DoProvision, Legal, Standing, Elsewhere, TRANSITIONS, Carries
  <1>25. CASE DoRegister
    BY <1>25, WriteFields, OnItsWay, TakenFrom, MovesTo
       DEF DoRegister, Legal, Standing, Elsewhere, TRANSITIONS, Carries
  <1>26. CASE StillRegistered
    <2>1. Carries("mint") \/ Carries("fail") \/ Carries("verify")
          \/ run' = [run EXCEPT !.pc = "mint", !.reg = 0]
      BY <1>26, GoFields DEF StillRegistered
    <2>2. UNCHANGED spec /\ spec.actual = "registering"
      BY <1>26, WhereItStands DEF StillRegistered
    <2>3. run'.pc \in {"mint", "fail", "verify"}
      BY <2>1 DEF Carries, TypeOK, Runs
    <2> QED BY <2>2, <2>3, OnItsWay DEF Legal, Standing, Elsewhere
  <1>27. CASE Register
    <2>1. Carries("undo") \/ run' = [run EXCEPT !.pc = "record", !.reg = world.issued + 1]
      BY <1>27, UndoAfterFields DEF Register
    <2>2. UNCHANGED spec /\ spec.actual = "registering"
      BY <1>27, WhereItStands DEF Register
    <2>3. run'.pc \in {"undo", "record"}
      BY <2>1 DEF Carries, TypeOK, Runs
    <2> QED BY <2>2, <2>3, OnItsWay DEF Legal, Standing, Elsewhere
  <1>28. CASE UndoUnit
    <2>1. UNCHANGED spec /\ run'.pc = "fail"
      BY <1>28 DEF UndoUnit, Go, TypeOK, Runs
    <2> QED BY <2>1, OnItsWay DEF Legal, Standing, Elsewhere
  <1>29. CASE DoStart
    BY <1>29, GoFields, WriteFields, OnItsWay, TakenFrom, MovesTo
       DEF DoStart, Legal, Standing, Elsewhere, TRANSITIONS, Carries
  <1>30. CASE Boot
    BY <1>30, GoFields, OnItsWay, WhereItStands
       DEF Boot, Legal, Standing, Elsewhere, Call, Carries
  <1>31. CASE Ungate
    BY <1>31, GoFields, OnItsWay, WhereItStands
       DEF Ungate, Legal, Standing, Elsewhere, Call, Carries
  <1>32. CASE Booted
    BY <1>32, WriteFields, WriteLastFields, OnItsWay, WhereItStands, MovesTo
       DEF Booted, Legal, Standing, Elsewhere, TRANSITIONS, Carries
  <1>33. CASE DoStop
    BY <1>33, GoFields, WriteFields, OnItsWay, TakenFrom, MovesTo
       DEF DoStop, Legal, Standing, Elsewhere, TRANSITIONS, Carries
  <1>34. CASE Halt
    BY <1>34, GoFields, OnItsWay, WhereItStands
       DEF Halt, Legal, Standing, Elsewhere, Call, Carries
  <1>35. CASE Halted
    BY <1>35, WriteFields, OnItsWay, WhereItStands, MovesTo
       DEF Halted, Legal, Standing, Elsewhere, TRANSITIONS, Carries
  <1>36. CASE DoDrain
    BY <1>36, GoFields, WriteFields, OnItsWay, TakenFrom, MovesTo
       DEF DoDrain, Legal, Standing, Elsewhere, TRANSITIONS, Carries
  <1>37. CASE CloseGate
    BY <1>37, GoFields, HoldBackFields, OnItsWay, WhereItStands
       DEF CloseGate, Legal, Standing, Elsewhere, DrainRaises, Carries
  <1>38. CASE Hush
    BY <1>38, GoFields, HoldBackFields, OnItsWay, WhereItStands
       DEF Hush, Legal, Standing, Elsewhere, DrainRaises, Carries
  <1>39. CASE Sample
    <2>1. UNCHANGED spec /\ (Carries("hush") \/ Carries("prove"))
      BY <1>39 DEF Sample, Carries, TypeOK, Runs
    <2> QED BY <1>39, <2>1, OnItsWay, WhereItStands DEF Sample, Legal, Standing
  <1>40. CASE DoDeregister
    BY <1>40, GoFields, WriteFields, OnItsWay, TakenFrom, MovesTo
       DEF DoDeregister, Legal, Standing, Elsewhere, TRANSITIONS, Carries
  <1>41. CASE Unregister
    BY <1>41, GoFields, DeregisteredFields, OnItsWay, WhereItStands
       DEF Unregister, Legal, Standing, Elsewhere, Carries
  <1>42. CASE DeleteRecordInstead
    BY <1>42, GoFields, DeregisteredFields, OnItsWay, WhereItStands
       DEF DeleteRecordInstead, Legal, Standing, Elsewhere, Carries
  <1>43. CASE Unregistered
    <2>1. \/ /\ run.action = "deregister" /\ spec.actual = "deregistering" /\ Clears
             /\ spec' \in {spec, [Moved("removing") EXCEPT !.reg = 0]}
          \/ /\ run.action = "remove" /\ spec.actual \in {"removing", "failed"}
             /\ \/ UNCHANGED spec /\ Clears
                \/ spec' = [spec EXCEPT !.reg = 0] /\ Carries("act")
      BY <1>43, WhereItStands, WriteFields, WriteLastFields DEF Unregistered
    <2>2. \/ Clears /\ Legal
          \/ /\ spec'.actual = spec.actual /\ run.action = "remove" /\ Carries("act")
             /\ spec.actual \in {"removing", "failed"}
      <3>1. \/ Clears /\ spec'.actual = spec.actual
            \/ Clears /\ spec.actual = "deregistering" /\ spec'.actual = "removing"
            \/ /\ spec'.actual = spec.actual /\ run.action = "remove" /\ Carries("act")
               /\ spec.actual \in {"removing", "failed"}
        <4>1. [spec EXCEPT !.reg = 0].actual = spec.actual
          BY StandsStill
        <4>2. [Moved("removing") EXCEPT !.reg = 0].actual = "removing"
          BY MovesTo
        <4> QED BY <2>1, <4>1, <4>2
      <3> QED BY <3>1 DEF Legal, TRANSITIONS
    <2>3. "remove" \in STEPS /\ BEFORE["remove"] = {"removing", "failed"}
      BY DEF BEFORE, STEPS
    <2> QED BY <2>2, <2>3, OnItsWay DEF Legal, Standing
  <1>44. CASE DoRemove
    <2>1. run.action = "remove" /\ spec.actual \in {"removing", "failed"}
      BY <1>44, TakenFrom DEF DoRemove
    <2>2. \/ UNCHANGED spec /\ (Carries("unregister") \/ Clears)
          \/ spec.actual = "failed" /\ spec' = Moved("removing") /\ Carries("act")
          \/ UNCHANGED spec /\ spec.actual = "removing" /\ Carries("erase")
      BY <1>44, <2>1, GoFields, WriteFields DEF DoRemove
    <2>3. \/ spec'.actual = spec.actual
          \/ spec.actual = "failed" /\ spec'.actual = "removing" /\ Carries("act")
      BY <2>2, MovesTo
    <2>4. "remove" \in STEPS /\ BEFORE["remove"] = {"removing", "failed"}
      BY DEF BEFORE, STEPS
    <2>5. Legal
      BY <2>3 DEF Legal, TRANSITIONS
    <2>6. Standing'
      BY <2>1, <2>2, <2>3, <2>4, OnItsWay DEF Standing, Carries
    <2> QED BY <2>5, <2>6
  <1>45. CASE Erase
    BY <1>45, GoFields, OnItsWay, WhereItStands
       DEF Erase, Legal, Standing, Elsewhere, Call, Carries
  <1>46. CASE Erased
    <2>1. spec.actual = "removing"
      BY <1>46, WhereItStands DEF Erased
    <2>2. \/ /\ spec' = [Moved("provisioning") EXCEPT !.unitRef = FALSE, !.reg = 0]
             /\ Carries("advance")
          \/ UNCHANGED spec /\ (Carries("fail") \/ Clears)
          \/ spec' = Moved("absent") /\ Carries("finish")
      BY <1>46, GoFields, WriteFields, RewriteFields DEF Erased
    <2>3. spec'.actual \in {"removing", "provisioning", "absent"}
      BY <2>1, <2>2, MovesTo
    <2>4. Clears \/ run'.pc \in {"advance", "fail", "finish"}
      BY <2>2 DEF Carries
    <2>5. Legal
      BY <2>1, <2>3 DEF Legal, TRANSITIONS
    <2> QED BY <2>4, <2>5, OnItsWay DEF Standing, Elsewhere
  <1>47. CASE DoWithdraw
    BY <1>47, WriteFields, OnItsWay, TakenFrom, MovesTo
       DEF DoWithdraw, Legal, Standing, Elsewhere, TRANSITIONS, Carries
  <1>48. CASE DoRepair
    <2>1. spec.actual = "failed" /\ Clears
          /\ spec' \in {spec, [Moved("provisioning") EXCEPT !.err = FALSE]}
      BY <1>48, TakenFrom, WriteLastFields DEF DoRepair
    <2>2. spec'.actual \in {"failed", "provisioning"}
      BY <2>1, MovesTo
    <2>3. Legal
      BY <2>1, <2>2 DEF Legal, TRANSITIONS
    <2> QED BY <2>1, <2>3, OnItsWay DEF Standing
  <1>49. CASE DoClearCache
    <2>1. UNCHANGED spec /\ (Carries("clear") \/ Carries("unpoint"))
      BY <1>49, GoFields DEF DoClearCache
    <2> QED BY <2>1, OnItsWay DEF Legal, Standing, Elsewhere
  <1>50. CASE DecideStep
    <2>1. UNCHANGED spec /\ run'.action = Decided /\ Decided # "none"
          /\ \/ run'.pc = "fail" \/ run'.pc = "admit"
             \/ run'.pc = "look" /\ spec.actual = "drained"
      BY <1>50 DEF DecideStep, IdleRun
    <2>2. spec.actual \in BEFORE[Decided] /\ Decided \in STEPS
      BY <2>1, DecidesWhereItStands, DecidesAStep DEF Decided, TypeOK, Specs
    <2> QED BY <2>1, <2>2 DEF Legal, Standing, StandsAt
  <1>51. CASE LookAgain
    <2>1. /\ spec.actual = "drained" /\ run.action \in STEPS
          /\ spec.actual \in BEFORE[run.action]
      BY <1>51, WhereItStands DEF LookAgain
    <2>2. \/ spec' = Moved("draining") /\ Clears
          \/ /\ UNCHANGED spec
             /\ run' = [run EXCEPT !.pc = "admit", !.fresh = TRUE, !.desired = spec.desired]
      BY <1>51, RestFields DEF LookAgain
    <2>3. \/ spec' = Moved("draining") /\ Clears
          \/ UNCHANGED spec /\ Carries("admit")
      BY <2>2, AgainFields
    <2> QED BY <2>1, <2>3, OnItsWay, MovesTo DEF Legal, Standing, TRANSITIONS
  <1>52. CASE Admit
    <2>1. UNCHANGED spec /\ run.action \in STEPS /\ spec.actual \in BEFORE[run.action]
      BY <1>52, WhereItStands DEF Admit
    <2>2. Clears \/ Carries("act") \/ Turns("gate", "quiesce")
      <3>1. Rest \/ Go("act") \/ run' = [run EXCEPT !.pc = "gate", !.after = "quiesce"]
        BY <1>52 DEF Admit
      <3> QED BY <3>1, RestFields, GoFields, AfterFields
    <2> QED BY <2>1, <2>2, OnItsWay DEF Legal, Standing
  <1>53. CASE OpenProvision
    <2>1. UNCHANGED spec /\ run.action \in STEPS /\ spec.actual \in BEFORE[run.action]
      BY <1>53, WhereItStands DEF OpenProvision
    <2>2. Clears \/ Carries("act")
      BY <1>53, RestFields DEF OpenProvision, Carries, TypeOK, Runs
    <2> QED BY <2>1, <2>2, OnItsWay DEF Legal, Standing
  <1>54. CASE RecordAttempt
    <2>1. UNCHANGED spec /\ spec.actual = "registering" /\ run'.pc = "enrolling"
      BY <1>54, WhereItStands DEF RecordAttempt, TypeOK, Runs
    <2> QED BY <2>1, OnItsWay DEF Legal, Standing
  <1>55. CASE RollbackPreflight
    <2>1. UNCHANGED spec /\ run'.pc \in {"fail", "undo_quiet", "undo_record", "hold"}
      BY <1>55 DEF RollbackPreflight, Go, HoldBack, TypeOK, Runs
    <2> QED BY <2>1, OnItsWay DEF Legal, Standing, Elsewhere
  <1>56. CASE RollbackQuiet
    <2>1. /\ UNCHANGED spec
          /\ run'.pc \in {"undo_record", "hold"} \/ Turns("gate", "rollback")
      BY <1>56 DEF RollbackQuiet, Go, HoldBack, Turns, TypeOK, Runs
    <2> QED BY <2>1, OnItsWay DEF Legal, Standing, Elsewhere
  <1>57. CASE UndoRecord
    <2>1. UNCHANGED spec /\ (run'.pc = "undo_unit" \/ Turns("unregister", "rollback"))
      BY <1>57 DEF UndoRecord, Turns, TypeOK, Runs
    <2> QED BY <2>1, OnItsWay DEF Legal, Standing, Elsewhere
  <1>58. CASE Sweep
    <2>1. \/ spec.actual = "registering" /\ spec' = Moved("idle") /\ UNCHANGED run
          \/ UNCHANGED spec /\ run'.pc = "undo"
      BY <1>58 DEF Sweep, CREATING, SERVING, IdleRun
    <2>2. run.pc \in Elsewhere
      BY <1>58 DEF Sweep, Elsewhere
    <2> QED BY <2>1, <2>2, OnItsWay, MovesTo DEF Legal, Standing, Elsewhere, TRANSITIONS
  <1>59. CASE Prove
    <2>1. UNCHANGED spec
      BY <1>59 DEF Prove
    <2>2. \/ Clears \/ run'.pc \in {"undo_quiet", "hold"}
          \/ run.after = "step" /\ Carries("proven")
      BY <1>59, RestFields, GoFields DEF Prove, HoldBack, TypeOK, Runs
    <2> QED BY <1>59, <2>1, <2>2, OnItsWay, WhereItStands DEF Prove, Legal, Standing, Elsewhere
  <1>60. CASE DoObserve
    <2>1. UNCHANGED spec
      BY <1>60 DEF DoObserve
    <2>2. Clears \/ (run'.pc = "observed" /\ <<spec.actual, run'.news>> \in OBSERVED)
      BY <1>60, RestFields DEF DoObserve, TypeOK, Runs
    <2>3. OBSERVED \subseteq TRANSITIONS
      BY DEF OBSERVED, TRANSITIONS
    <2> QED BY <2>1, <2>2, <2>3, OnItsWay DEF Legal, Standing, StandsAt
  <1>61. CASE RecordObservation
    <2>1. Clears /\ spec' = (IF run.fresh THEN Moved(run.news) ELSE spec)
      BY <1>61, RestFields DEF RecordObservation, WriteLast
    <2>2. run.fresh => <<spec.actual, run.news>> \in TRANSITIONS
      BY <1>61, WhereItStands DEF RecordObservation
    <2> QED BY <2>1, <2>2, OnItsWay, MovesTo DEF Legal, Standing
  <1> QED
    BY <1>1, <1>2, <1>3, <1>4, <1>5, <1>6, <1>7, <1>8, <1>9, <1>10, <1>11,
       <1>12, <1>13, <1>14, <1>15, <1>16, <1>17, <1>18, <1>19, <1>20, <1>21,
       <1>22, <1>23, <1>24, <1>25, <1>26, <1>27, <1>28, <1>29, <1>30, <1>31,
       <1>32, <1>33, <1>34, <1>35, <1>36, <1>37, <1>38, <1>39, <1>40, <1>41,
       <1>42, <1>43, <1>44, <1>45, <1>46, <1>47, <1>48, <1>49, <1>50, <1>51,
       <1>52, <1>53, <1>54, <1>55, <1>56, <1>57, <1>58, <1>59, <1>60, <1>61 DEF
       Reconcile

\* Nor does anything else move it otherwise: a signed event changes idle and busy, and takes
\* the ground from an observation that was read before it.
LEMMA EnvironmentMovesLegally ==
  ASSUME TypeOK, Standing, Environment
  PROVE  Legal /\ Standing'
  <1>1. CASE Crash
    BY <1>1, RestFields, OnItsWay DEF Crash, Legal, Standing
  <1>2. CASE SignedEvent
    <2>1. spec.actual \in SERVING /\ spec'.actual \in SERVING
      BY <1>2 DEF SignedEvent, TypeOK, Specs
    <2>2. \/ UNCHANGED run /\ ~At("observed")
          \/ At("observed") /\ run'.pc = "observed" /\ ~run'.fresh
      BY <1>2 DEF SignedEvent, At, TypeOK, Runs
    <2>3. Legal
      BY <2>1 DEF Legal, SERVING, TRANSITIONS
    <2>4. \A r, a, b : /\ StandsAt(r, a) /\ r.pc # "observed"
                       /\ a \in SERVING /\ b \in SERVING
                       => StandsAt(r, b)
      <3>1. \A x \in STEPS, a, b \in SERVING : a \in BEFORE[x] => b \in BEFORE[x]
        BY DEF STEPS, BEFORE, SERVING, STATES
      <3> QED BY <3>1 DEF StandsAt, SERVING
    <2>5. \A r, a : r.pc = "observed" /\ ~r.fresh => StandsAt(r, a)
      BY DEF StandsAt
    <2>6. CASE UNCHANGED run /\ ~At("observed")
      BY <2>1, <2>3, <2>4, <2>6 DEF Standing, At
    <2>7. CASE At("observed") /\ run'.pc = "observed" /\ ~run'.fresh
      BY <2>3, <2>5, <2>7 DEF Standing
    <2> QED BY <2>2, <2>3, <2>6, <2>7
  <1>3. CASE UNCHANGED <<spec, run>>
    BY <1>3 DEF Legal, Standing
  <1> QED
    BY <1>1, <1>2, <1>3
       DEF Environment, Untouched, DeadlinePasses, JobStarts, JobEnds, UnitExits,
           HostReboots, WorkerDegrades, WorkerRecovers, LateRegistration

\* A request changes what is meant, never where the runner is.
LEMMA ServiceMovesNothing ==
  ASSUME TypeOK, Standing, Service
  PROVE  Legal /\ Standing'
  <1>1. spec'.actual = spec.actual
    BY StandsStill DEF Service, Act, Retire
  <1>2. UNCHANGED run \/ run' = [run EXCEPT !.fresh = FALSE]
    BY DEF Service, Act, Retire, Overtaken
  <1>3. /\ run'.pc = run.pc /\ run'.action = run.action /\ run'.after = run.after
        /\ run'.news = run.news /\ (run'.fresh => run.fresh)
    BY <1>2 DEF TypeOK, Runs
  <1> QED BY <1>1, <1>3 DEF Legal, Standing, StandsAt

\* The row only ever moves along the edges of the machine, whoever writes it and whatever
\* failed, was lost, read wrongly or asked for in between.
THEOREM MovesAreLegal == Spec => OnlyLegalMoves
  <1>1. Init => Standing
    BY DEF Init, IdleRun, Standing, StandsAt
  <1>2. TypeOK /\ Standing /\ [Next]_vars => Standing'
    <2>1. ASSUME UNCHANGED vars, Standing
          PROVE  Standing'
      BY <2>1 DEF vars, Standing
    <2> QED BY <2>1, ReconcileMovesLegally, ServiceMovesNothing, EnvironmentMovesLegally DEF Next
  <1>3. ASSUME TypeOK, Standing, [Next]_vars
        PROVE  [spec'.actual # spec.actual
                  => <<spec.actual, spec'.actual>> \in TRANSITIONS]_vars
    BY <1>3, ReconcileMovesLegally, ServiceMovesNothing, EnvironmentMovesLegally DEF Next, Legal
  <1> QED BY <1>1, <1>2, <1>3, TypeCorrect, PTL DEF Spec, OnlyLegalMoves

-----------------------------------------------------------------------------
(* A runner that serves is registered.                                     *)

\* What has been undone is forgotten with the pass and otherwise carried on.
LEMMA UndoneKept ==
  ASSUME TypeOK
  PROVE  /\ \A p : Go(p) => run'.undone = run.undone
         /\ \A k : HoldBack(k) => run'.undone = run.undone
         /\ \A s : UndoAfter(s) => run'.undone = run.undone
         /\ \A row, p : Rewrite(row, p) => run'.undone = run.undone
         /\ \A row, p : Write(row, p) => run'.undone \in {run.undone, {}}
         /\ \A row : WriteLast(row) => run'.undone = {}
         /\ Rest => run'.undone = {}
<1>1. \A p : Go(p) => run'.undone = run.undone
  BY DEF TypeOK, Runs, Go
<1>2. Rest => run'.undone = {}
  BY DEF Rest, IdleRun
<1>3. /\ \A k : HoldBack(k) => run'.undone = run.undone
      /\ \A s : UndoAfter(s) => run'.undone = run.undone
      /\ \A row, p : Rewrite(row, p) => run'.undone = run.undone
  BY DEF TypeOK, Runs, HoldBack, UndoAfter, Rewrite
<1> QED BY <1>1, <1>2, <1>3 DEF Write, WriteLast

\* The places that no rollback goes through.
Onward ==
  {"rest", "decide", "place", "create", "void", "voided", "made", "still", "mint",
   "enroll", "enrolling", "record", "verify", "online",
   "boot", "ungate", "booted", "advance", "halt", "halted", "proven",
   "erase", "erased", "finish", "closing", "clear", "unpoint",
   "fail", "hold", "observed"}

\* Where a pass goes that is in no rollback, and that is in one.
LEMMA UndoWays ==
  /\ run'.undone = {} /\ run'.pc \in Onward => \A a : UndoesAt(run', a)
  /\ run'.undone = {} /\ run'.after # "rollback"
     /\ run'.pc \in {"look", "admit", "act", "gate", "sample", "hush", "prove", "unregister",
                   "disown", "unregistered"} =>
       \A a : UndoesAt(run', a)
  /\ run'.undone = {} /\ run'.pc \notin {"look", "admit", "act", "unregistered"} =>
       \A a \in CREATING : UndoesAt(run', a)
  /\ run'.pc \in {"undo_unit", "fail"} => \A a \in CREATING : UndoesAt(run', a)
  BY DEF UndoesAt, Onward

\* Nothing has been undone but in the last steps of a rollback.
LEMMA NothingUndone ==
  ASSUME UndoesCreations
  PROVE  /\ run.pc \notin {"undo_unit", "fail"} => run.undone = {}
         /\ run.undone # {} => spec.actual \in CREATING
         /\ run.pc \in {"undo", "undo_quiet", "undo_record", "undo_unit"} =>
              spec.actual \in CREATING
         /\ run.pc \in {"look", "admit", "act", "unregistered"} => run.after # "rollback"
         /\ run.pc \in {"gate", "sample", "hush", "prove", "unregister", "disown"}
            /\ run.after = "rollback" => spec.actual \in CREATING
  BY DEF UndoesCreations, UndoesAt

\* What the reconciler does rolls back creations only.
LEMMA ReconcileUndoesCreations ==
  ASSUME TypeOK, Standing, UndoesCreations, Reconcile
  PROVE  UndoesCreations'
  <1> USE DEF At, Resting, Acting
  <1>1. CASE ForgetClosed
    <2>1. run'.undone = {} /\ run'.pc \in Onward
      BY <1>1, NothingUndone, GoFields, RestFields, HoldBackFields, RewriteFields,
         WriteFields, WriteLastFields, UndoneKept
         DEF ForgetClosed, Onward, Carries, Clears
    <2> QED BY <2>1, UndoWays DEF UndoesCreations
  <1>2. CASE ResumeRecreate
    <2>1. run.undone = {} /\ run.pc = "rest"
      BY <1>2, NothingUndone DEF ResumeRecreate
    <2>2. CASE UNCHANGED run
      BY <2>1, <2>2, UndoWays DEF UndoesCreations, Onward
    <2>3. CASE Go("fail")
      BY <2>1, <2>3, UndoneKept, GoFields, UndoWays DEF UndoesCreations, Onward, Carries
    <2> QED BY <1>2, <2>2, <2>3 DEF ResumeRecreate
  <1>3. CASE RefuseReplacement
    <2>1. run'.undone = {} /\ run'.pc \in Onward
      BY <1>3, NothingUndone, GoFields, RestFields, HoldBackFields, RewriteFields,
         WriteFields, WriteLastFields, UndoneKept
         DEF RefuseReplacement, Onward, Carries, Clears
    <2> QED BY <2>1, UndoWays DEF UndoesCreations
  <1>4. CASE CloseFulfilled
    <2>1. run'.undone = {} /\ run'.pc \in Onward
      BY <1>4, NothingUndone, GoFields, RestFields, HoldBackFields, RewriteFields,
         WriteFields, WriteLastFields, UndoneKept
         DEF CloseFulfilled, Onward, Carries, Clears
    <2> QED BY <2>1, UndoWays DEF UndoesCreations
  <1>5. CASE Unpoint
    <2>1. run'.undone = {} /\ run'.pc \in Onward
      BY <1>5, NothingUndone, GoFields, RestFields, HoldBackFields, RewriteFields,
         WriteFields, WriteLastFields, UndoneKept
         DEF Unpoint, Onward, Carries, Clears
    <2> QED BY <2>1, UndoWays DEF UndoesCreations
  <1>6. CASE PeekBeforeClear
    <2>1. run'.undone = {} /\ run'.pc \in Onward
      BY <1>6, NothingUndone, GoFields, RestFields, HoldBackFields, RewriteFields,
         WriteFields, WriteLastFields, UndoneKept
         DEF PeekBeforeClear, Onward, Carries, Clears
    <2> QED BY <2>1, UndoWays DEF UndoesCreations
  <1>7. CASE DecideStep
    <2>1. /\ run'.undone = {} /\ run'.after = "step"
          /\ run'.pc \in {"look", "admit", "fail"}
      BY <1>7 DEF DecideStep, IdleRun
    <2> QED BY <2>1, UndoWays DEF UndoesCreations, Onward
  <1>8. CASE LookAgain
    <2>1. Rest \/ run' = [run EXCEPT !.pc = "admit", !.fresh = TRUE, !.desired = spec.desired]
      BY <1>8 DEF LookAgain
    <2>2. run.undone = {} /\ run.after # "rollback"
      BY <1>8, NothingUndone DEF LookAgain
    <2>3. \/ Clears /\ run'.undone = {}
          \/ run'.undone = {} /\ run'.after # "rollback" /\ run'.pc = "admit"
      BY <2>1, <2>2, RestFields, UndoneKept DEF TypeOK, Runs
    <2> QED BY <2>3, UndoWays DEF UndoesCreations, Onward, Clears
  <1>9. CASE Admit
    <2>1. \/ Rest \/ Go("act") \/ run' = [run EXCEPT !.pc = "gate", !.after = "quiesce"]
      BY <1>9 DEF Admit
    <2>2. run.undone = {} /\ run.after # "rollback"
      BY <1>9, NothingUndone DEF Admit
    <2>3. \/ Clears /\ run'.undone = {}
          \/ run'.undone = {} /\ run'.after # "rollback" /\ run'.pc \in {"act", "gate"}
      BY <2>1, <2>2, RestFields, UndoneKept DEF Go, TypeOK, Runs
    <2> QED BY <2>3, UndoWays DEF UndoesCreations, Onward, Clears
  <1>10. CASE Fail
    <2>1. run'.undone = {} /\ run'.pc \in Onward
      BY <1>10, NothingUndone, GoFields, RestFields, HoldBackFields, RewriteFields,
         WriteFields, WriteLastFields, UndoneKept
         DEF Fail, Onward, Carries, Clears
    <2> QED BY <2>1, UndoWays DEF UndoesCreations
  <1>11. CASE Hold
    <2>1. run'.undone = {} /\ run'.pc \in Onward
      BY <1>11, NothingUndone, GoFields, RestFields, HoldBackFields, RewriteFields,
         WriteFields, WriteLastFields, UndoneKept
         DEF Hold, Onward, Carries, Clears
    <2> QED BY <2>1, UndoWays DEF UndoesCreations
  <1>12. CASE OpenProvision
    <2>1. run.undone = {} /\ run.after # "rollback"
      BY <1>12, NothingUndone DEF OpenProvision
    <2>2. Rest \/ run' = [run EXCEPT !.verb = "provision"]
      BY <1>12 DEF OpenProvision
    <2>3. \/ Clears /\ run'.undone = {}
          \/ run'.undone = {} /\ run'.after # "rollback" /\ run'.pc = "act"
      BY <1>12, <2>1, <2>2, RestFields, UndoneKept DEF OpenProvision, TypeOK, Runs
    <2> QED BY <2>3, UndoWays DEF UndoesCreations, Onward, Clears
  <1>13. CASE DoProvision
    <2>1. run'.undone = {} /\ run'.pc \in Onward
      BY <1>13, NothingUndone, GoFields, RestFields, HoldBackFields, RewriteFields,
         WriteFields, WriteLastFields, UndoneKept
         DEF DoProvision, Onward, Carries, Clears
    <2> QED BY <2>1, UndoWays DEF UndoesCreations
  <1>14. CASE Place
    <2>1. \/ UNCHANGED spec \/ spec' = [spec EXCEPT !.placed = TRUE]
      BY <1>14 DEF Place, Rewrite
    <2>2. run'.undone = {} /\ run'.pc \in {"create", "undo"}
      <3>1. run.undone = {}
        BY <1>14, NothingUndone DEF Place
      <3>2. \/ Go("create") \/ UndoAfter("place")
            \/ run' = [run EXCEPT !.pc = "create", !.fresh = TRUE]
        BY <1>14 DEF Place, Rewrite
      <3> QED BY <3>1, <3>2 DEF Go, UndoAfter, TypeOK, Runs
    <2>3. spec'.actual \in CREATING
      BY <1>14, <2>1, WhereItStands, StandsStill DEF Place, CREATING
    <2> QED BY <2>2, <2>3, UndoWays DEF UndoesCreations
  <1>15. CASE CreateUnit
    <2>1. /\ run'.undone = {} /\ spec'.actual \in CREATING
          /\ run'.pc \notin {"look", "admit", "act", "unregistered"}
      BY <1>15, NothingUndone, WhereItStands, StandsStill, UndoneKept
         DEF CreateUnit, CREATING, Rewrite, HoldBack, Go, UndoAfter, HoldBack, TypeOK, Runs
    <2> QED BY <2>1, UndoWays DEF UndoesCreations
  <1>16. CASE VoidRegistration
    <2>1. run'.undone = {} /\ run'.pc \in Onward
      BY <1>16, NothingUndone, GoFields, RestFields, HoldBackFields, RewriteFields,
         WriteFields, WriteLastFields, UndoneKept
         DEF VoidRegistration, Onward, Carries, Clears
    <2> QED BY <2>1, UndoWays DEF UndoesCreations
  <1>17. CASE ForgetVoided
    <2>1. run'.undone = {} /\ run'.pc \in Onward
      BY <1>17, NothingUndone, GoFields, RestFields, HoldBackFields, RewriteFields,
         WriteFields, WriteLastFields, UndoneKept
         DEF ForgetVoided, Onward, Carries, Clears
    <2> QED BY <2>1, UndoWays DEF UndoesCreations
  <1>18. CASE Provisioned
    <2>1. run'.undone = {} /\ run'.pc \in Onward
      BY <1>18, NothingUndone, GoFields, RestFields, HoldBackFields, RewriteFields,
         WriteFields, WriteLastFields, UndoneKept
         DEF Provisioned, Onward, Carries, Clears
    <2> QED BY <2>1, UndoWays DEF UndoesCreations
  <1>19. CASE DoRegister
    <2>1. run'.undone = {} /\ run'.pc \in Onward
      BY <1>19, NothingUndone, GoFields, RestFields, HoldBackFields, RewriteFields,
         WriteFields, WriteLastFields, UndoneKept
         DEF DoRegister, Onward, Carries, Clears
    <2> QED BY <2>1, UndoWays DEF UndoesCreations
  <1>20. CASE StillRegistered
    <2>1. \/ Go("mint") \/ Go("fail") \/ Go("verify")
          \/ run' = [run EXCEPT !.pc = "mint", !.reg = 0]
      BY <1>20 DEF StillRegistered
    <2>2. run.undone = {}
      BY <1>20, NothingUndone DEF StillRegistered
    <2>3. run'.undone = {} /\ run'.pc \in {"mint", "fail", "verify"}
      BY <2>1, <2>2 DEF Go, TypeOK, Runs
    <2> QED BY <2>3, UndoWays DEF UndoesCreations, Onward
  <1>21. CASE MintToken
    <2>1. /\ run'.undone = {} /\ spec'.actual \in CREATING
          /\ run'.pc \notin {"look", "admit", "act", "unregistered"}
      BY <1>21, NothingUndone, WhereItStands, StandsStill, UndoneKept
         DEF MintToken, CREATING, Rewrite, Go, UndoAfter, HoldBack, TypeOK, Runs
    <2> QED BY <2>1, UndoWays DEF UndoesCreations
  <1>22. CASE RecordAttempt
    <2>1. run'.undone = {} /\ run'.pc \in Onward
      BY <1>22, NothingUndone, GoFields, RestFields, HoldBackFields, RewriteFields,
         WriteFields, WriteLastFields, UndoneKept
         DEF RecordAttempt, Onward, Carries, Clears, TypeOK, Runs
    <2> QED BY <2>1, UndoWays DEF UndoesCreations
  <1>23. CASE Register
    <2>1. /\ run'.undone = {} /\ spec'.actual \in CREATING
          /\ run'.pc \notin {"look", "admit", "act", "unregistered"}
      BY <1>23, NothingUndone, WhereItStands, StandsStill, UndoneKept
         DEF Register, CREATING, Rewrite, TypeOK, Runs, Go, UndoAfter, HoldBack, TypeOK, Runs
    <2> QED BY <2>1, UndoWays DEF UndoesCreations
  <1>24. CASE RecordRegistration
    <2>1. run'.undone = {} /\ run'.pc \in Onward
      BY <1>24, NothingUndone, GoFields, RestFields, HoldBackFields, RewriteFields,
         WriteFields, WriteLastFields, UndoneKept
         DEF RecordRegistration, Onward, Carries, Clears
    <2> QED BY <2>1, UndoWays DEF UndoesCreations
  <1>25. CASE VerifyOnline
    <2>1. /\ run'.undone = {} /\ spec'.actual \in CREATING
          /\ run'.pc \notin {"look", "admit", "act", "unregistered"}
      BY <1>25, NothingUndone, WhereItStands, StandsStill, UndoneKept
         DEF VerifyOnline, CREATING, Rewrite, Go, UndoAfter, HoldBack, TypeOK, Runs
    <2> QED BY <2>1, UndoWays DEF UndoesCreations
  <1>26. CASE Online
    <2>1. run'.undone = {} /\ run'.pc \in Onward
      BY <1>26, NothingUndone, GoFields, RestFields, HoldBackFields, RewriteFields,
         WriteFields, WriteLastFields, UndoneKept
         DEF Online, Onward, Carries, Clears
    <2> QED BY <2>1, UndoWays DEF UndoesCreations
  <1>27. CASE RollbackPreflight
    <2>1. UNCHANGED spec /\ spec.actual \in CREATING /\ run.undone = {}
      BY <1>27, NothingUndone DEF RollbackPreflight
    <2>2. run'.undone = run.undone /\ run'.pc \in {"fail", "undo_quiet", "undo_record", "hold"}
      BY <1>27 DEF RollbackPreflight, Go, HoldBack, TypeOK, Runs
    <2> QED BY <2>1, <2>2, UndoWays DEF UndoesCreations
  <1>28. CASE RollbackQuiet
    <2>1. UNCHANGED spec /\ spec.actual \in CREATING /\ run.undone = {}
      BY <1>28, NothingUndone DEF RollbackQuiet
    <2>2. run'.undone = run.undone /\ run'.pc \in {"undo_record", "hold", "gate"}
      BY <1>28 DEF RollbackQuiet, Go, HoldBack, TypeOK, Runs
    <2> QED BY <2>1, <2>2, UndoWays DEF UndoesCreations
  <1>29. CASE UndoRecord
    <2>1. UNCHANGED spec /\ spec.actual \in CREATING /\ run.undone = {}
      BY <1>29, NothingUndone DEF UndoRecord
    <2>2. \/ run'.pc = "unregister" /\ run'.undone = run.undone
          \/ run'.pc = "undo_unit"
      BY <1>29 DEF UndoRecord, TypeOK, Runs
    <2> QED BY <2>1, <2>2, UndoWays DEF UndoesCreations
  <1>30. CASE UndoUnit
    BY <1>30, NothingUndone, WhereItStands, GoFields, RestFields, HoldBackFields, UndoWays,
       UndoneKept, WriteFields, AfterFields, SeenFields
       DEF UndoUnit, UndoesCreations, Carries, Clears, Turns, Onward, TypeOK,
           Runs, DrainRaises, Deregistered
  <1>31. CASE Sweep
    <2>1. run.undone = {} /\ run.pc \in Onward
      BY <1>31, NothingUndone DEF Sweep, Onward
    <2>2. \/ UNCHANGED run
          \/ /\ run'.undone = {} /\ run'.pc = "undo"
             /\ UNCHANGED spec /\ spec.actual \in CREATING
      BY <1>31 DEF Sweep, IdleRun
    <2> QED BY <2>1, <2>2, UndoWays DEF UndoesCreations
  <1>32. CASE DoStart
    <2>1. run'.undone = {} /\ run'.pc \in Onward
      BY <1>32, NothingUndone, GoFields, RestFields, HoldBackFields, RewriteFields,
         WriteFields, WriteLastFields, UndoneKept
         DEF DoStart, Onward, Carries, Clears
    <2> QED BY <2>1, UndoWays DEF UndoesCreations
  <1>33. CASE DoCancelDrain
    <2>1. run'.undone = {} /\ run'.pc \in Onward
      BY <1>33, NothingUndone, GoFields, RestFields, HoldBackFields, RewriteFields,
         WriteFields, WriteLastFields, UndoneKept
         DEF DoCancelDrain, Onward, Carries, Clears
    <2> QED BY <2>1, UndoWays DEF UndoesCreations
  <1>34. CASE Boot
    <2>1. run'.undone = {} /\ run'.pc \in Onward
      BY <1>34, NothingUndone, GoFields, RestFields, HoldBackFields, RewriteFields,
         WriteFields, WriteLastFields, UndoneKept
         DEF Boot, Onward, Carries, Clears, Call
    <2> QED BY <2>1, UndoWays DEF UndoesCreations
  <1>35. CASE Ungate
    <2>1. run'.undone = {} /\ run'.pc \in Onward
      BY <1>35, NothingUndone, GoFields, RestFields, HoldBackFields, RewriteFields,
         WriteFields, WriteLastFields, UndoneKept
         DEF Ungate, Onward, Carries, Clears, Call
    <2> QED BY <2>1, UndoWays DEF UndoesCreations
  <1>36. CASE Booted
    <2>1. run'.undone = {} /\ run'.pc \in Onward
      BY <1>36, NothingUndone, GoFields, RestFields, HoldBackFields, RewriteFields,
         WriteFields, WriteLastFields, UndoneKept
         DEF Booted, Onward, Carries, Clears
    <2> QED BY <2>1, UndoWays DEF UndoesCreations
  <1>37. CASE Advance
    <2>1. run'.undone = {} /\ run'.pc \in Onward
      BY <1>37, NothingUndone, GoFields, RestFields, HoldBackFields, RewriteFields,
         WriteFields, WriteLastFields, UndoneKept
         DEF Advance, Onward, Carries, Clears
    <2> QED BY <2>1, UndoWays DEF UndoesCreations
  <1>38. CASE DoStop
    <2>1. run'.undone = {} /\ run'.pc \in Onward
      BY <1>38, NothingUndone, GoFields, RestFields, HoldBackFields, RewriteFields,
         WriteFields, WriteLastFields, UndoneKept
         DEF DoStop, Onward, Carries, Clears
    <2> QED BY <2>1, UndoWays DEF UndoesCreations
  <1>39. CASE Halt
    <2>1. run'.undone = {} /\ run'.pc \in Onward
      BY <1>39, NothingUndone, GoFields, RestFields, HoldBackFields, RewriteFields,
         WriteFields, WriteLastFields, UndoneKept
         DEF Halt, Onward, Carries, Clears, Call
    <2> QED BY <2>1, UndoWays DEF UndoesCreations
  <1>40. CASE Halted
    <2>1. run'.undone = {} /\ run'.pc \in Onward
      BY <1>40, NothingUndone, GoFields, RestFields, HoldBackFields, RewriteFields,
         WriteFields, WriteLastFields, UndoneKept
         DEF Halted, Onward, Carries, Clears
    <2> QED BY <2>1, UndoWays DEF UndoesCreations
  <1>41. CASE DoDrain
    <2>1. run.undone = {} /\ run.after # "rollback"
      BY <1>41, NothingUndone DEF DoDrain
    <2>2. (\E row : Write(row, "gate")) \/ Go("gate")
      BY <1>41 DEF DoDrain
    <2>3. run'.undone = {} /\ (Clears \/ Carries("gate"))
      BY <2>1, <2>2, GoFields, WriteFields, UndoneKept
    <2> QED BY <2>1, <2>3, UndoWays DEF UndoesCreations, Onward, Clears, Carries
  <1>42. CASE CloseGate
    <2>1. UNCHANGED spec /\ run.undone = {} /\ At("gate")
      BY <1>42, NothingUndone DEF CloseGate
    <2>2. \/ Go("sample") \/ DrainRaises
      BY <1>42 DEF CloseGate
    <2>3. /\ run'.undone = {} /\ run'.after = run.after
          /\ run'.pc \in {"sample", "hold", "fail"}
      BY <2>1, <2>2 DEF DrainRaises, Go, HoldBack, TypeOK, Runs
    <2>4. CASE run.after = "rollback"
      BY <2>1, <2>3, <2>4, NothingUndone, UndoWays DEF UndoesCreations
    <2>5. CASE run.after # "rollback"
      BY <2>3, <2>5, UndoWays DEF UndoesCreations, Onward
    <2> QED BY <2>4, <2>5
  <1>43. CASE Sample
    <2>1. UNCHANGED spec /\ run.undone = {} /\ At("sample")
      BY <1>43, NothingUndone DEF Sample
    <2>2. PICK seen : run' = [run EXCEPT !.seen = seen,
                               !.pc = IF Provider = "github" /\ seen = "idle"
                                      THEN "hush" ELSE "prove"]
      BY <1>43 DEF Sample
    <2>3. /\ run'.undone = {} /\ run'.after = run.after
          /\ run'.pc \in {"hush", "prove"}
      BY <2>1, <2>2 DEF TypeOK, Runs
    <2>4. CASE run.after = "rollback"
      BY <2>1, <2>3, <2>4, NothingUndone, UndoWays DEF UndoesCreations
    <2>5. CASE run.after # "rollback"
      BY <2>3, <2>5, UndoWays DEF UndoesCreations, Onward
    <2> QED BY <2>4, <2>5
  <1>44. CASE Hush
    <2>1. UNCHANGED spec /\ run.undone = {} /\ At("hush")
      BY <1>44, NothingUndone DEF Hush
    <2>2. \/ Go("prove") \/ DrainRaises
      BY <1>44 DEF Hush
    <2>3. /\ run'.undone = {} /\ run'.after = run.after
          /\ run'.pc \in {"prove", "hold", "fail"}
      BY <2>1, <2>2 DEF DrainRaises, Go, HoldBack, TypeOK, Runs
    <2>4. CASE run.after = "rollback"
      BY <2>1, <2>3, <2>4, NothingUndone, UndoWays DEF UndoesCreations
    <2>5. CASE run.after # "rollback"
      BY <2>3, <2>5, UndoWays DEF UndoesCreations, Onward
    <2> QED BY <2>4, <2>5
  <1>45. CASE Prove
    <2>1. UNCHANGED spec /\ run.undone = {} /\ At("prove")
      BY <1>45, NothingUndone DEF Prove
    <2>2. \/ Go("proven") /\ run.after = "step"
          \/ Rest
          \/ /\ run.after = "rollback"
             /\ \/ run' = [run EXCEPT !.pc = "undo_quiet", !.seen = "offline"]
                \/ HoldBack("hard")
      <3>1. PICK gone \in BOOLEAN :
              LET done == run.seen \in {"idle", "offline"} /\ gone
              IN CASE run.after = "step"     -> IF done THEN Go("proven") ELSE Rest
                   [] run.after = "quiesce"  -> Rest
                   [] run.after = "rollback" ->
                        IF done THEN run' = [run EXCEPT !.pc = "undo_quiet",
                                                        !.seen = "offline"]
                        ELSE HoldBack("hard")
        BY <1>45 DEF Prove
      <3>2. run.after \in {"step", "quiesce", "rollback"}
        BY DEF TypeOK, Runs
      <3> QED BY <3>1, <3>2
    <2>3. \/ run'.undone = {} /\ run'.pc \in Onward
          \/ /\ run.after = "rollback" /\ run'.after = run.after
             /\ run'.undone = {} /\ run'.pc \in {"undo_quiet", "hold"}
      BY <2>1, <2>2, RestFields, UndoneKept
         DEF Go, HoldBack, Clears, Onward, TypeOK, Runs
    <2>4. CASE run.after = "rollback"
      BY <2>1, <2>3, <2>4, NothingUndone, UndoWays DEF UndoesCreations
    <2>5. CASE run.after # "rollback"
      BY <2>3, <2>5, UndoWays DEF UndoesCreations
    <2> QED BY <2>4, <2>5
  <1>46. CASE Proven
    <2>1. run'.undone = {} /\ run'.pc \in Onward
      BY <1>46, NothingUndone, GoFields, RestFields, HoldBackFields, RewriteFields,
         WriteFields, WriteLastFields, UndoneKept
         DEF Proven, Onward, Carries, Clears
    <2> QED BY <2>1, UndoWays DEF UndoesCreations
  <1>47. CASE DoDeregister
    <2>1. run.undone = {} /\ run.after # "rollback"
      BY <1>47, NothingUndone DEF DoDeregister
    <2>2. (\E row : Write(row, "unregister")) \/ Go("unregister")
      BY <1>47 DEF DoDeregister
    <2>3. run'.undone = {} /\ (Clears \/ Carries("unregister"))
      BY <2>1, <2>2, GoFields, WriteFields, UndoneKept
    <2> QED BY <2>1, <2>3, UndoWays DEF UndoesCreations, Onward, Clears, Carries
  <1>48. CASE Unregister
    <2>1. UNCHANGED spec /\ run.undone = {}
      BY <1>48, NothingUndone DEF Unregister
    <2>2. Deregistered \/ Go("disown") \/ Go("fail")
      BY <1>48 DEF Unregister
    <2>3. CASE run.after = "rollback"
      <3>1. /\ run'.pc \in {"undo_unit", "disown", "fail"}
            /\ run'.undone # {} => run'.pc = "undo_unit"
        BY <2>1, <2>2, <2>3 DEF Deregistered, Go, TypeOK, Runs
      <3> QED BY <1>48, <2>1, <2>3, <3>1, NothingUndone, UndoWays DEF Unregister, UndoesCreations
    <2>4. CASE run.after # "rollback"
      <3>1. /\ run'.undone = {} /\ run'.after # "rollback"
            /\ run'.pc \in {"unregistered", "disown", "fail"}
        BY <2>1, <2>2, <2>4 DEF Deregistered, Go, TypeOK, Runs
      <3> QED BY <3>1, UndoWays DEF UndoesCreations, Onward
    <2> QED BY <2>3, <2>4
  <1>49. CASE DeleteRecordInstead
    <2>1. UNCHANGED spec /\ run.undone = {} /\ At("disown")
      BY <1>49, NothingUndone DEF DeleteRecordInstead
    <2>2. Deregistered \/ Go("fail")
      BY <1>49 DEF DeleteRecordInstead
    <2>3. CASE run.after = "rollback"
      <3>1. /\ run'.pc \in {"undo_unit", "fail"}
            /\ run'.undone # {} => run'.pc = "undo_unit"
        BY <2>1, <2>2, <2>3 DEF Deregistered, Go, TypeOK, Runs
      <3> QED BY <2>1, <2>3, <3>1, NothingUndone, UndoWays DEF UndoesCreations
    <2>4. CASE run.after # "rollback"
      <3>1. /\ run'.undone = {} /\ run'.after # "rollback"
            /\ run'.pc \in {"unregistered", "fail"}
        BY <2>1, <2>2, <2>4 DEF Deregistered, Go, TypeOK, Runs
      <3> QED BY <3>1, UndoWays DEF UndoesCreations, Onward
    <2> QED BY <2>3, <2>4
  <1>50. CASE Unregistered
    <2>1. run'.undone = {} /\ (Clears \/ Carries("act"))
      BY <1>50, NothingUndone, WriteFields, WriteLastFields, UndoneKept DEF Unregistered
    <2>2. run.after # "rollback"
      BY <1>50, NothingUndone DEF Unregistered
    <2> QED BY <2>1, <2>2, UndoWays DEF UndoesCreations, Onward, Clears, Carries
  <1>51. CASE DoRemove
    <2>1. run.undone = {} /\ run.after # "rollback"
      BY <1>51, NothingUndone DEF DoRemove
    <2>2. (\E row : Write(row, "act")) \/ Go("unregister") \/ Go("erase")
      BY <1>51 DEF DoRemove
    <2>3. run'.undone = {} /\ (Clears \/ \E p \in {"act", "unregister", "erase"} : Carries(p))
      BY <2>1, <2>2, GoFields, WriteFields, UndoneKept
    <2> QED BY <2>1, <2>3, UndoWays DEF UndoesCreations, Onward, Clears, Carries
  <1>52. CASE Erase
    <2>1. run'.undone = {} /\ run'.pc \in Onward
      BY <1>52, NothingUndone, GoFields, RestFields, HoldBackFields, RewriteFields,
         WriteFields, WriteLastFields, UndoneKept
         DEF Erase, Onward, Carries, Clears, Call
    <2> QED BY <2>1, UndoWays DEF UndoesCreations
  <1>53. CASE Erased
    <2>1. run'.undone = {} /\ run'.pc \in Onward
      BY <1>53, NothingUndone, GoFields, RestFields, HoldBackFields, RewriteFields,
         WriteFields, WriteLastFields, UndoneKept
         DEF Erased, Onward, Carries, Clears
    <2> QED BY <2>1, UndoWays DEF UndoesCreations
  <1>54. CASE DoWithdraw
    <2>1. run'.undone = {} /\ run'.pc \in Onward
      BY <1>54, NothingUndone, GoFields, RestFields, HoldBackFields, RewriteFields,
         WriteFields, WriteLastFields, UndoneKept
         DEF DoWithdraw, Onward, Carries, Clears
    <2> QED BY <2>1, UndoWays DEF UndoesCreations
  <1>55. CASE SoftDelete
    <2>1. run'.undone = {} /\ run'.pc \in Onward
      BY <1>55, NothingUndone, GoFields, RestFields, HoldBackFields, RewriteFields,
         WriteFields, WriteLastFields, UndoneKept
         DEF SoftDelete, Onward, Carries, Clears
    <2> QED BY <2>1, UndoWays DEF UndoesCreations
  <1>56. CASE CloseFinished
    <2>1. run'.undone = {} /\ run'.pc \in Onward
      BY <1>56, NothingUndone, GoFields, RestFields, HoldBackFields, RewriteFields,
         WriteFields, WriteLastFields, UndoneKept
         DEF CloseFinished, Onward, Carries, Clears
    <2> QED BY <2>1, UndoWays DEF UndoesCreations
  <1>57. CASE DoRepair
    <2>1. run'.undone = {} /\ run'.pc \in Onward
      BY <1>57, NothingUndone, GoFields, RestFields, HoldBackFields, RewriteFields,
         WriteFields, WriteLastFields, UndoneKept
         DEF DoRepair, Onward, Carries, Clears
    <2> QED BY <2>1, UndoWays DEF UndoesCreations
  <1>58. CASE DoClearCache
    <2>1. run'.undone = {} /\ run'.pc \in Onward
      BY <1>58, NothingUndone, GoFields, RestFields, HoldBackFields, RewriteFields,
         WriteFields, WriteLastFields, UndoneKept
         DEF DoClearCache, Onward, Carries, Clears
    <2> QED BY <2>1, UndoWays DEF UndoesCreations
  <1>59. CASE ClearCache
    <2>1. run'.undone = {} /\ run'.pc \in Onward
      BY <1>59, NothingUndone, GoFields, RestFields, HoldBackFields, RewriteFields,
         WriteFields, WriteLastFields, UndoneKept
         DEF ClearCache, Onward, Carries, Clears
    <2> QED BY <2>1, UndoWays DEF UndoesCreations
  <1>60. CASE DoObserve
    <2>1. run'.undone = {} /\ run'.pc \in Onward
      BY <1>60, NothingUndone, GoFields, RestFields, HoldBackFields, RewriteFields,
         WriteFields, WriteLastFields, UndoneKept
         DEF DoObserve, Onward, Carries, Clears, TypeOK, Runs
    <2> QED BY <2>1, UndoWays DEF UndoesCreations
  <1>61. CASE RecordObservation
    <2>1. run'.undone = {} /\ run'.pc \in Onward
      BY <1>61, NothingUndone, GoFields, RestFields, HoldBackFields, RewriteFields,
         WriteFields, WriteLastFields, UndoneKept
         DEF RecordObservation, Onward, Carries, Clears
    <2> QED BY <2>1, UndoWays DEF UndoesCreations
  <1> QED
    BY <1>1, <1>2, <1>3, <1>4, <1>5, <1>6, <1>7, <1>8, <1>9, <1>10, <1>11,
       <1>12, <1>13, <1>14, <1>15, <1>16, <1>17, <1>18, <1>19, <1>20, <1>21,
       <1>22, <1>23, <1>24, <1>25, <1>26, <1>27, <1>28, <1>29, <1>30, <1>31,
       <1>32, <1>33, <1>34, <1>35, <1>36, <1>37, <1>38, <1>39, <1>40, <1>41,
       <1>42, <1>43, <1>44, <1>45, <1>46, <1>47, <1>48, <1>49, <1>50, <1>51,
       <1>52, <1>53, <1>54, <1>55, <1>56, <1>57, <1>58, <1>59, <1>60, <1>61 DEF
       Reconcile

\* While a runner is in service no record is deleted, replaced or forgotten: not at the forge,
LEMMA KeptAtTheForge ==
  ASSUME TypeOK, Standing, UndoesCreations, Reconcile, spec.actual \in KEPT
  PROVE  world'.live = world.live
  <1> USE DEF At, Resting, Acting
  <1>1. spec.actual \notin CREATING \cup {"deregistering", "removing", "failed"}
    BY DEF KEPT, CREATING
  <1>2. CASE UNCHANGED world
    BY <1>2
  <1>3. CASE CreateUnit
    BY <1>3, CreatedFields DEF CreateUnit
  <1>4. CASE VoidRegistration \/ StillRegistered \/ Register
    <2>1. spec.actual \in CREATING
      BY <1>4, WhereItStands DEF VoidRegistration, StillRegistered, Register, CREATING
    <2> QED BY <1>1, <2>1
  <1>5. CASE UndoUnit
    BY <1>1, <1>5, NothingUndone DEF UndoUnit
  <1>6. CASE Boot
    BY <1>6, StartedFields DEF Boot, Call
  <1>7. CASE Ungate
    BY <1>7 DEF Ungate, Call, Gated, TypeOK, Worlds
  <1>8. CASE Halt
    BY <1>8, StoppedFields DEF Halt, Call
  <1>9. CASE CloseGate
    BY <1>9, TerminatedFields DEF CloseGate, Gated, TypeOK, Worlds
  <1>10. CASE Hush
    BY <1>10, StoppedFields DEF Hush
  <1>11. CASE Unregister \/ DeleteRecordInstead
    <2>1. run.pc \in {"unregister", "disown"}
      BY <1>11 DEF Unregister, DeleteRecordInstead
    <2>2. \/ spec.actual \in CREATING
          \/ spec.actual \in {"deregistering", "removing", "failed"}
      BY <2>1, WhereItStands, NothingUndone
    <2> QED BY <1>1, <2>2
  <1>12. CASE Erase
    BY <1>12, RemovedFields DEF Erase, Call
  <1> QED
    BY <1>2, <1>3, <1>4, <1>5, <1>6, <1>7, <1>8, <1>9, <1>10, <1>11, <1>12
       DEF Reconcile, ForgetClosed, ResumeRecreate, RefuseReplacement,
           CloseFulfilled, Unpoint, PeekBeforeClear, DecideStep, LookAgain, Admit,
           Fail, Hold, OpenProvision, DoProvision, Place, ForgetVoided, Provisioned,
           DoRegister, MintToken, RecordAttempt, RecordRegistration, VerifyOnline,
           Online, RollbackPreflight, RollbackQuiet, UndoRecord, Sweep, DoStart,
           DoCancelDrain, Booted, Advance, DoStop, Halted, DoDrain, Sample, Prove,
           Proven, DoDeregister, Unregistered, DoRemove, Erased, DoWithdraw,
           SoftDelete, CloseFinished, DoRepair, DoClearCache, ClearCache, DoObserve,
           RecordObservation

\* and not in the row.
LEMMA KeptInTheRow ==
  ASSUME TypeOK, Standing, UndoesCreations, Reconcile, spec.actual \in KEPT
  PROVE  spec'.reg = spec.reg
  <1> USE DEF At, Resting, Acting
  <1>1. spec.actual \notin CREATING \cup {"deregistering", "removing", "failed"}
    BY DEF KEPT, CREATING
  <1>2. CASE UNCHANGED spec
    BY <1>2
  <1>3. CASE \E to \in STATES : spec' = Moved(to)
    BY <1>3, MovedFields
  <1>4. CASE Fail
    <2>1. run.undone = {}
      BY <1>1, NothingUndone
    <2> QED BY <1>4, <2>1 DEF Fail, Undone, TypeOK, Specs
  <1>5. CASE ForgetVoided \/ RecordRegistration \/ Online \/ Provisioned \/ Erased \/ Place
    <2>1. spec.actual \in CREATING \cup {"removing"}
      BY <1>5, WhereItStands
         DEF ForgetVoided, RecordRegistration, Online, Provisioned, Erased, Place, CREATING
    <2> QED BY <1>1, <2>1
  <1>6. CASE Unregistered
    <2>1. spec.actual \in {"deregistering", "removing", "failed"}
      BY <1>6, WhereItStands DEF Unregistered
    <2> QED BY <1>1, <2>1
  <1>7. CASE DoRepair
    <2>1. spec.actual = "failed"
      BY <1>7, TakenFrom DEF DoRepair
    <2> QED BY <1>1, <2>1
  <1>8. CASE Hold
    BY <1>8 DEF Hold, TypeOK, Specs
  <1>9. CASE ResumeRecreate
    BY <1>9 DEF ResumeRecreate, TypeOK, Specs
  <1>10. CASE SoftDelete
    BY <1>10 DEF SoftDelete, TypeOK, Specs
  <1>11. UNCHANGED spec \/ \E to \in STATES : spec' = Moved(to)
         \/ Fail \/ ForgetVoided \/ RecordRegistration \/ Online \/ Provisioned \/ Erased \/ Place
         \/ Unregistered \/ DoRepair \/ Hold \/ ResumeRecreate \/ SoftDelete
    <2>1. {"provisioning", "registering", "idle", "busy", "draining", "drained", "stopping",
           "stopped", "starting", "deregistering", "removing", "absent"} \subseteq STATES
      BY DEF STATES
    <2>2. run.news \in STATES
      BY DEF TypeOK, Runs
    <2> QED
      BY <2>1, <2>2
       DEF Reconcile, ForgetClosed, RefuseReplacement, CloseFulfilled, Unpoint,
           PeekBeforeClear, DecideStep, LookAgain, Admit, OpenProvision,
           DoProvision, CreateUnit, VoidRegistration, DoRegister, StillRegistered,
           MintToken, RecordAttempt, Register, VerifyOnline, RollbackPreflight,
           RollbackQuiet, UndoRecord, UndoUnit, Sweep, DoStart, DoCancelDrain, Boot,
           Ungate, Booted, Advance, DoStop, Halt, Halted, DoDrain, CloseGate,
           Sample, Hush, Prove, Proven, DoDeregister, Unregister,
           DeleteRecordInstead, DoRemove, Erase, DoWithdraw, CloseFinished,
           DoClearCache, ClearCache, DoObserve, RecordObservation,
           Write, WriteLast, SERVING
  <1> QED
    BY <1>2, <1>3, <1>4, <1>5, <1>6, <1>7, <1>8, <1>9, <1>10, <1>11

\* A runner that registers comes to serve when it was verified, observed or swept.
LEMMA ComesToServe ==
  ASSUME TypeOK, Standing, Reconcile, spec.actual = "registering", spec'.actual = "idle"
  PROVE  Online \/ RecordObservation \/ Sweep
  <1> USE DEF At, Resting, Acting
  <1>1. \/ UNCHANGED spec \/ \E to \in STATES \ {"idle"} : spec' = Moved(to)
        \/ Fail \/ ForgetVoided \/ RecordRegistration \/ Online \/ Provisioned \/ Erased \/ Place
        \/ Unregistered \/ DoRepair \/ Hold \/ ResumeRecreate \/ SoftDelete
        \/ Booted \/ PeekBeforeClear \/ Sweep \/ RecordObservation
    <2>1. {"provisioning", "registering", "busy", "draining", "drained", "stopping",
           "stopped", "starting", "deregistering", "removing", "absent"} \subseteq STATES \ {"idle"}
      BY DEF STATES
    <2> QED
      BY <2>1
       DEF Reconcile, ForgetClosed, RefuseReplacement, CloseFulfilled, Unpoint,
           DecideStep, LookAgain, Admit, OpenProvision,
           DoProvision, CreateUnit, VoidRegistration, DoRegister, StillRegistered,
           MintToken, RecordAttempt, Register, VerifyOnline, RollbackPreflight,
           RollbackQuiet, UndoRecord, UndoUnit, DoStart, DoCancelDrain, Boot,
           Ungate, Advance, DoStop, Halt, Halted, DoDrain, CloseGate,
           Sample, Hush, Prove, Proven, DoDeregister, Unregister,
           DeleteRecordInstead, DoRemove, Erase, DoWithdraw, CloseFinished,
           DoClearCache, ClearCache, DoObserve, Write, WriteLast
  <1>2. spec \in Specs
    BY DEF TypeOK
  <1>3. ASSUME NEW to, spec' = Moved(to)
        PROVE  to = "idle"
    BY <1>2, <1>3 DEF Moved, Specs
  <1>4. ~ Fail
    BY <1>2 DEF Fail, FailedFrom, Specs
  <1>5. ~ Booted /\ ~ PeekBeforeClear
    BY WhereItStands DEF Booted, PeekBeforeClear, MustPeek, SERVING
  <1>6. ~ Unregistered /\ ~ DoRepair /\ ~ Erased /\ ~ Provisioned /\ ~ ForgetVoided
    BY <1>2 DEF Unregistered, DoRepair, Erased, Provisioned, ForgetVoided, Write, WriteLast,
                Rewrite, Moved, Specs
  <1>7. ~ RecordRegistration /\ ~ Place /\ ~ Hold /\ ~ ResumeRecreate /\ ~ SoftDelete
    BY <1>2 DEF RecordRegistration, Place, Hold, ResumeRecreate, SoftDelete, Rewrite, Specs
  <1> QED BY <1>1, <1>3, <1>4, <1>5, <1>6, <1>7

\* What is written as online was verified, what is written as observed was observed.
LEMMA NewsIsFresh ==
  ASSUME TypeOK, Reconcile, run'.pc \in {"online", "observed"}
  PROVE  VerifyOnline \/ DoObserve
  <1> USE DEF At, Resting, Acting, Go, Rest, IdleRun, UndoAfter, HoldBack, Write, WriteLast,
          Rewrite, Call, DrainRaises, Deregistered
  <1>0. run \in Runs
    BY DEF TypeOK
  <1>1. CASE ForgetClosed
    BY <1>0, <1>1 DEF ForgetClosed, Runs
  <1>2. CASE ResumeRecreate
    BY <1>0, <1>2 DEF ResumeRecreate, Runs
  <1>3. CASE RefuseReplacement
    BY <1>0, <1>3 DEF RefuseReplacement, Runs
  <1>4. CASE CloseFulfilled
    BY <1>0, <1>4 DEF CloseFulfilled, Runs
  <1>5. CASE Unpoint
    BY <1>0, <1>5 DEF Unpoint, Runs
  <1>6. CASE PeekBeforeClear
    BY <1>0, <1>6 DEF PeekBeforeClear, Runs
  <1>7. CASE DecideStep
    BY <1>0, <1>7 DEF DecideStep, Runs
  <1>8. CASE LookAgain
    <2>1. Rest \/ run' = [run EXCEPT !.pc = "admit", !.fresh = TRUE, !.desired = spec.desired]
      BY <1>8 DEF LookAgain
    <2>2. ~ Rest => run'.pc \in {"rest", "admit"}
      BY <1>0, <2>1 DEF Runs
    <2>3. Rest => run'.pc = "rest"
      OBVIOUS
    <2> QED BY <2>2, <2>3
  <1>9. CASE Admit
    <2>1. \/ Rest \/ Go("act") \/ run' = [run EXCEPT !.pc = "gate", !.after = "quiesce"]
      BY <1>9 DEF Admit
    <2>2. ~ Rest => run'.pc \in {"rest", "act", "gate"}
      BY <1>0, <2>1 DEF Runs
    <2>3. Rest => run'.pc = "rest"
      OBVIOUS
    <2> QED BY <2>2, <2>3
  <1>10. CASE Fail
    BY <1>0, <1>10 DEF Fail, Runs
  <1>11. CASE Hold
    BY <1>0, <1>11 DEF Hold, Runs
  <1>12. CASE OpenProvision
    BY <1>0, <1>12 DEF OpenProvision, Runs
  <1>13. CASE DoProvision
    BY <1>0, <1>13 DEF DoProvision, Runs
  <1>14. CASE Place
    BY <1>0, <1>14 DEF Place, Runs
  <1>15. CASE CreateUnit
    BY <1>0, <1>15 DEF CreateUnit, Runs
  <1>16. CASE VoidRegistration
    BY <1>0, <1>16 DEF VoidRegistration, Runs
  <1>17. CASE ForgetVoided
    BY <1>0, <1>17 DEF ForgetVoided, Runs
  <1>18. CASE Provisioned
    BY <1>0, <1>18 DEF Provisioned, Runs
  <1>19. CASE DoRegister
    BY <1>0, <1>19 DEF DoRegister, Runs
  <1>20. CASE StillRegistered
    BY <1>0, <1>20 DEF StillRegistered, Runs
  <1>21. CASE MintToken
    BY <1>0, <1>21 DEF MintToken, Runs
  <1>22. CASE RecordAttempt
    BY <1>0, <1>22 DEF RecordAttempt, Runs
  <1>23. CASE Register
    BY <1>0, <1>23 DEF Register, Runs
  <1>24. CASE RecordRegistration
    BY <1>0, <1>24 DEF RecordRegistration, Runs
  <1>25. CASE Online
    BY <1>0, <1>25 DEF Online, Runs
  <1>26. CASE RollbackPreflight
    BY <1>0, <1>26 DEF RollbackPreflight, Runs
  <1>27. CASE RollbackQuiet
    BY <1>0, <1>27 DEF RollbackQuiet, Runs
  <1>28. CASE UndoRecord
    BY <1>0, <1>28 DEF UndoRecord, Runs
  <1>29. CASE UndoUnit
    BY <1>0, <1>29 DEF UndoUnit, Runs
  <1>30. CASE Sweep
    <2>1. UNCHANGED run \/ run'.pc = "undo"
      BY <1>30 DEF Sweep
    <2> QED BY <1>0, <1>30, <2>1 DEF Sweep, Runs
  <1>31. CASE DoStart
    BY <1>0, <1>31 DEF DoStart, Runs
  <1>32. CASE DoCancelDrain
    BY <1>0, <1>32 DEF DoCancelDrain, Runs
  <1>33. CASE Boot
    BY <1>0, <1>33 DEF Boot, Runs
  <1>34. CASE Ungate
    BY <1>0, <1>34 DEF Ungate, Runs
  <1>35. CASE Booted
    BY <1>0, <1>35 DEF Booted, Runs
  <1>36. CASE Advance
    BY <1>0, <1>36 DEF Advance, Runs
  <1>37. CASE DoStop
    BY <1>0, <1>37 DEF DoStop, Runs
  <1>38. CASE Halt
    BY <1>0, <1>38 DEF Halt, Runs
  <1>39. CASE Halted
    BY <1>0, <1>39 DEF Halted, Runs
  <1>40. CASE DoDrain
    BY <1>0, <1>40 DEF DoDrain, Runs
  <1>41. CASE CloseGate
    BY <1>0, <1>41 DEF CloseGate, Runs
  <1>42. CASE Sample
    BY <1>0, <1>42 DEF Sample, Runs
  <1>43. CASE Hush
    BY <1>0, <1>43 DEF Hush, Runs
  <1>44. CASE Prove
    <2>1. \/ Go("proven") \/ Rest \/ HoldBack("hard")
          \/ run' = [run EXCEPT !.pc = "undo_quiet", !.seen = "offline"]
      <3>1. run.after \in {"step", "quiesce", "rollback"}
        BY <1>0 DEF Runs
      <3> QED BY <1>44, <3>1 DEF Prove
    <2>2. ~ Rest => run'.pc \in {"proven", "rest", "hold", "undo_quiet"}
      BY <1>0, <2>1 DEF Runs
    <2>3. Rest => run'.pc = "rest"
      OBVIOUS
    <2> QED BY <2>2, <2>3
  <1>45. CASE Proven
    BY <1>0, <1>45 DEF Proven, Runs
  <1>46. CASE DoDeregister
    BY <1>0, <1>46 DEF DoDeregister, Runs
  <1>47. CASE Unregister
    BY <1>0, <1>47 DEF Unregister, Runs
  <1>48. CASE DeleteRecordInstead
    BY <1>0, <1>48 DEF DeleteRecordInstead, Runs
  <1>49. CASE Unregistered
    BY <1>0, <1>49 DEF Unregistered, Runs
  <1>50. CASE DoRemove
    BY <1>0, <1>50 DEF DoRemove, Runs
  <1>51. CASE Erase
    BY <1>0, <1>51 DEF Erase, Runs
  <1>52. CASE Erased
    <2>1. \/ Go("fail") \/ \E row : Rewrite(row, "advance") \/ Write(row, "finish")
      BY <1>52 DEF Erased
    <2>2. ~ Rest => run'.pc \in {"fail", "advance", "finish", "rest"}
      BY <1>0, <2>1 DEF Runs
    <2>3. Rest => run'.pc = "rest"
      OBVIOUS
    <2> QED BY <2>2, <2>3
  <1>53. CASE DoWithdraw
    BY <1>0, <1>53 DEF DoWithdraw, Runs
  <1>54. CASE SoftDelete
    BY <1>0, <1>54 DEF SoftDelete, Runs
  <1>55. CASE CloseFinished
    BY <1>0, <1>55 DEF CloseFinished, Runs
  <1>56. CASE DoRepair
    BY <1>0, <1>56 DEF DoRepair, Runs
  <1>57. CASE DoClearCache
    BY <1>0, <1>57 DEF DoClearCache, Runs
  <1>58. CASE ClearCache
    BY <1>0, <1>58 DEF ClearCache, Runs
  <1>59. CASE RecordObservation
    BY <1>0, <1>59 DEF RecordObservation, Runs
  <1> QED
    BY <1>1, <1>2, <1>3, <1>4, <1>5, <1>6, <1>7, <1>8, <1>9, <1>10, <1>11,
       <1>12, <1>13, <1>14, <1>15, <1>16, <1>17, <1>18, <1>19, <1>20, <1>21,
       <1>22, <1>23, <1>24, <1>25, <1>26, <1>27, <1>28, <1>29, <1>30, <1>31,
       <1>32, <1>33, <1>34, <1>35, <1>36, <1>37, <1>38, <1>39, <1>40, <1>41,
       <1>42, <1>43, <1>44, <1>45, <1>46, <1>47, <1>48, <1>49, <1>50, <1>51,
       <1>52, <1>53, <1>54, <1>55, <1>56, <1>57, <1>58, <1>59 DEF Reconcile

\* A runner comes to serve on a record that was read.
LEMMA ReconcileKeepsItsRecord ==
  ASSUME TypeOK, Standing, UndoesCreations, KeepsItsRecord, Reconcile
  PROVE  KeepsItsRecord'
  <1> USE DEF At, Resting, Acting
  <1>1. ASSUME spec'.actual \in KEPT
        PROVE  spec'.reg \in world'.live
    <2>1. CASE spec.actual \in KEPT
      BY <2>1, KeptAtTheForge, KeptInTheRow DEF KeepsItsRecord
    <2>2. CASE spec.actual \notin KEPT
      <3>1. spec.actual = "registering" /\ spec'.actual = "idle"
        BY <1>1, <2>2, ReconcileMovesLegally DEF Legal, KEPT, TRANSITIONS, START
      <3>2. CASE Online
        BY <3>2, MovedFields DEF Online, KeepsItsRecord, TypeOK, Specs, Moved
      <3>3. CASE RecordObservation
        <4>1. run.fresh
          BY <3>1, <3>3 DEF RecordObservation, WriteLast
        <4> QED BY <3>1, <3>3, <4>1, MovedFields DEF RecordObservation, WriteLast, KeepsItsRecord
      <3>4. CASE Sweep
        <4>1. PICK seen \in READINGS :
                /\ Reads(spec.reg, seen) /\ seen \in SERVING
                /\ spec' = Moved("idle") /\ UNCHANGED world
          BY <3>1, <3>4 DEF Sweep
        <4>2. Truth(spec.reg) \in {"idle", "busy", "offline"}
          BY <4>1 DEF Reads, Mistaken, SERVING
        <4>3. spec.reg \in world.live
          BY <4>2 DEF Truth
        <4> QED BY <4>1, <4>3, MovedFields
      <3> QED BY <3>1, <3>2, <3>3, <3>4, ComesToServe
    <2> QED BY <2>1, <2>2
  <1>2. ASSUME run'.pc = "online"
        PROVE  run'.reg \in world'.live
    <2>1. CASE VerifyOnline
      <3>1. Go("online") /\ Truth(run.reg) \in SERVING /\ UNCHANGED world
        BY <1>2, <2>1, UndoAfterFields DEF VerifyOnline, Carries
      <3> QED BY <3>1, GoFields DEF Truth, SERVING, Carries
    <2>2. CASE DoObserve
      BY <1>2, <2>2, RestFields DEF DoObserve, Clears, TypeOK, Runs
    <2> QED BY <1>2, <2>1, <2>2, NewsIsFresh
  <1>3. ASSUME run'.pc = "observed", spec'.actual = "registering"
        PROVE  spec'.reg \in world'.live
    <2>1. CASE VerifyOnline
      BY <1>3, <2>1, UndoAfterFields, GoFields DEF VerifyOnline, Carries
    <2>2. CASE DoObserve
      <3>1. PICK seen \in READINGS :
              /\ Glimpses(spec.reg, seen) /\ seen \in SERVING
              /\ UNCHANGED <<spec, world>>
        <4>1. UNCHANGED <<spec, world>> /\ spec.actual = "registering"
          BY <1>3, <2>2 DEF DoObserve
        <4>2. PICK seen \in READINGS :
                /\ Glimpses(spec.reg, seen)
                /\ <<spec.actual, News(seen)>> \in OBSERVED
          BY <1>3, <2>2, RestFields DEF DoObserve, Clears
        <4>3. seen \in SERVING
          BY <4>1, <4>2 DEF News, OBSERVED
        <4> QED BY <4>1, <4>2, <4>3
      <3>2. Truth(spec.reg) \in {"idle", "busy", "offline"}
        BY <3>1 DEF Glimpses, Reads, Mistaken, SERVING
      <3> QED BY <3>1, <3>2 DEF Truth
    <2> QED BY <1>3, <2>1, <2>2, NewsIsFresh
  <1> QED BY <1>1, <1>2, <1>3 DEF KeepsItsRecord

\* A registration that completes late replaces none that the row or the pass names.
LEMMA EnvironmentKeepsItsRecord ==
  ASSUME TypeOK, Safe, Standing, UndoesCreations, KeepsItsRecord, Environment
  PROVE  KeepsItsRecord' /\ UndoesCreations'
  <1> USE DEF At
  <1>1. CASE Crash
    <2>1. UNCHANGED spec /\ world'.live = world.live
      BY <1>1 DEF Crash, TypeOK, Worlds
    <2>2. Clears /\ run'.undone = {}
      BY <1>1, RestFields, UndoneKept DEF Crash
    <2> QED BY <2>1, <2>2, UndoWays DEF KeepsItsRecord, Clears, UndoesCreations, Onward
  <1>2. CASE SignedEvent
    <2>1. spec.actual \in SERVING /\ spec'.actual \in SERVING /\ spec'.reg = spec.reg
          /\ UNCHANGED world
      BY <1>2 DEF SignedEvent, TypeOK, Specs
    <2>2. /\ run'.pc = run.pc /\ run'.reg = run.reg /\ run'.undone = run.undone
          /\ run'.after = run.after
      BY <1>2 DEF SignedEvent, TypeOK, Runs
    <2>3. /\ spec.actual \in KEPT /\ spec.actual \notin CREATING /\ spec'.actual # "registering"
      BY <2>1 DEF SERVING, KEPT, CREATING
    <2>4. KeepsItsRecord'
      BY <2>1, <2>2, <2>3 DEF KeepsItsRecord
    <2> QED BY <2>2, <2>3, <2>4 DEF UndoesCreations, UndoesAt
  <1>3. CASE LateRegistration
    <2>1. UNCHANGED <<spec, run>> /\ world.late
      BY <1>3 DEF LateRegistration, Untouched
    <2>2. spec.reg \notin world.live /\ run.reg \notin world.live
      BY <2>1 DEF Safe, UnseenIsUnnamed, NamesNoLiveRecord
    <2> QED BY <2>1, <2>2 DEF KeepsItsRecord, UndoesCreations
  <1>4. CASE UNCHANGED <<spec, run>> /\ world'.live = world.live
    BY <1>4 DEF KeepsItsRecord, UndoesCreations
  <1>5. CASE UnitExits
    BY <1>4, <1>5, StoppedFields DEF UnitExits, Untouched
  <1>6. CASE JobStarts \/ JobEnds \/ HostReboots \/ WorkerDegrades \/ WorkerRecovers
    BY <1>4, <1>6
       DEF Untouched, JobStarts, JobEnds, HostReboots, WorkerDegrades, WorkerRecovers,
           TypeOK, Worlds
  <1>7. CASE DeadlinePasses
    BY <1>4, <1>7 DEF DeadlinePasses
  <1> QED BY <1>1, <1>2, <1>3, <1>5, <1>6, <1>7 DEF Environment

\* A request leaves row and pass the record they name.
LEMMA ServiceKeepsItsRecord ==
  ASSUME TypeOK, UndoesCreations, KeepsItsRecord, Service
  PROVE  KeepsItsRecord' /\ UndoesCreations'
  <1>1. spec'.actual = spec.actual /\ spec'.reg = spec.reg /\ UNCHANGED world
    BY DEF Service, Act, Retire, TypeOK, Specs
  <1>2. UNCHANGED run \/ run' = [run EXCEPT !.fresh = FALSE]
    BY DEF Service, Act, Retire, Overtaken
  <1>3. /\ run'.pc = run.pc /\ run'.reg = run.reg /\ run'.undone = run.undone
        /\ run'.after = run.after /\ (run'.fresh => run.fresh)
    BY <1>2 DEF TypeOK, Runs
  <1> QED BY <1>1, <1>3 DEF KeepsItsRecord, UndoesCreations, UndoesAt, At

Serves == IInv /\ Standing /\ UndoesCreations /\ KeepsItsRecord

LEMMA ServesInductive ==
  ASSUME Serves, [Next]_vars
  PROVE  Serves'
  <1>1. IInv'
    BY Inductive DEF Serves
  <1>2. CASE UNCHANGED vars
    BY <1>1, <1>2 DEF vars, Serves, Standing, UndoesCreations, KeepsItsRecord, At
  <1>3. CASE Reconcile
    BY <1>1, <1>3, ReconcileMovesLegally, ReconcileUndoesCreations, ReconcileKeepsItsRecord
       DEF Serves, IInv
  <1>4. CASE Service
    BY <1>1, <1>4, ServiceMovesNothing, ServiceKeepsItsRecord DEF Serves, IInv
  <1>5. CASE Environment
    BY <1>1, <1>5, EnvironmentMovesLegally, EnvironmentKeepsItsRecord DEF Serves, IInv
  <1> QED BY <1>2, <1>3, <1>4, <1>5 DEF Next

\* A runner recorded as serving names a registration the forge still holds, whatever was lost,
\* cut off, rolled back or asked for, and however often; at GitHub, where a new record replaces
\* the old one of its name, it is the only one.
THEOREM ServesWhatItNames ==
  Spec => [](ServesItsRecord /\ (Provider = "github" => RecordIsItsOwn))
  <1>1. Init => Serves
    <2>1. Init => IInv
      BY InitTypes, InitSafe DEF IInv
    <2>2. Init => Standing /\ UndoesCreations /\ KeepsItsRecord
      BY DEF Init, IdleRun, Standing, StandsAt, UndoesCreations, UndoesAt, KeepsItsRecord, KEPT, At
    <2> QED BY <2>1, <2>2 DEF Serves
  <1>2. ASSUME Serves
        PROVE  ServesItsRecord /\ (Provider = "github" => RecordIsItsOwn)
    <2>1. ServesItsRecord
      BY <1>2 DEF Serves, KeepsItsRecord, ServesItsRecord, SERVING, KEPT
    <2>2. ASSUME Provider = "github"
          PROVE  Cardinality(world.live) <= 1
      <3>1. \A a, b \in world.live : a = b
        BY <1>2, <2>2 DEF Serves, IInv, Safe, ReplacedByName
      <3>2. CASE world.live = {}
        BY <3>2, FS_EmptySet
      <3>3. CASE world.live # {}
        <4>1. PICK a \in world.live : world.live = {a}
          BY <3>1, <3>3
        <4>2. Cardinality({a}) = 1
          BY FS_Singleton
        <4> QED BY <4>1, <4>2
      <3> QED BY <3>2, <3>3
    <2> QED BY <2>1, <2>2 DEF RecordIsItsOwn, OneRecord
  <1> QED BY <1>1, <1>2, ServesInductive, PTL DEF Spec
=============================================================================
