------------------------ MODULE RunnerLifecycleTypes ------------------------
(***************************************************************************)
(* Every variable of RunnerLifecycle keeps its shape, for every value of   *)
(* the constants: TypeOK is an invariant of Spec.  TypeOK is inductive, so *)
(* the proof has one step per action.  Its lemmas say what each way of     *)
(* writing the row, the operation, the pass or the world yields, and are   *)
(* what lets the step of an action cite a few facts instead of unfolding   *)
(* the records.                                                            *)
(***************************************************************************)
EXTENDS RunnerLifecycle, TLAPS

-----------------------------------------------------------------------------
(* The row.                                                                *)

\* "No registration" is an identifier the row may hold.
LEMMA NoReg == 0 \in 0..MaxRegs
  BY ConstantsAssumption DEF ConstantsAssumption

\* What the fields of the row and of the pass that are copied may be.
LEMMA Fields ==
  ASSUME TypeOK
  PROVE  /\ spec.reg \in 0..MaxRegs /\ run.reg \in 0..MaxRegs
         /\ spec.actual \in STATES /\ spec.desired \in DESIRED_STATES
         /\ run.news \in STATES
  BY DEF TypeOK, Specs, Runs

\* Writing one field of a row leaves a row.
LEMMA RowFields ==
  ASSUME NEW row \in Specs
  PROVE  /\ \A n \in 0..MaxRegs : [row EXCEPT !.reg = n] \in Specs
         /\ \A b \in BOOLEAN : [row EXCEPT !.err = b] \in Specs
         /\ \A d \in DESIRED_STATES : [row EXCEPT !.desired = d] \in Specs
         /\ [row EXCEPT !.placed = TRUE] \in Specs
         /\ [row EXCEPT !.unitRef = TRUE] \in Specs
         /\ [row EXCEPT !.listed = FALSE] \in Specs
  <1>1. \A n \in 0..MaxRegs : [row EXCEPT !.reg = n] \in Specs
    BY DEF Specs
  <1>2. \A b \in BOOLEAN : [row EXCEPT !.err = b] \in Specs
    BY DEF Specs
  <1>3. \A d \in DESIRED_STATES : [row EXCEPT !.desired = d] \in Specs
    BY DEF Specs
  <1>4. [row EXCEPT !.placed = TRUE] \in Specs
    BY DEF Specs
  <1>5. [row EXCEPT !.unitRef = TRUE] \in Specs
    BY DEF Specs
  <1>6. [row EXCEPT !.listed = FALSE] \in Specs
    BY DEF Specs
  <1> QED BY <1>1, <1>2, <1>3, <1>4, <1>5, <1>6

\* So does forgetting the unit and the registration at once.
LEMMA RowUnbuilt ==
  ASSUME NEW row \in Specs
  PROVE  [row EXCEPT !.unitRef = FALSE, !.reg = 0] \in Specs
  BY NoReg DEF Specs

\* A move to a state of the machine leaves a row.
LEMMA RowMoved ==
  ASSUME TypeOK, NEW to \in STATES
  PROVE  Moved(to) \in Specs
  BY DEF Specs, Moved, TypeOK

\* A failure leaves the runner in a state of the machine.
LEMMA FailsSomewhere ==
  ASSUME NEW actual \in STATES
  PROVE  FailedFrom(actual) \in STATES
  BY DEF STATES, FailedFrom

\* The row a failed step writes is a row.
LEMMA RowFailed ==
  ASSUME TypeOK
  PROVE  [spec EXCEPT
            !.err = TRUE,
            !.unitRef = @ /\ ~Undone("remove_unit"),
            !.reg = IF Undone("deregister") THEN 0 ELSE @,
            !.actual = FailedFrom(@)] \in Specs
  <1>1. FailedFrom(spec.actual) \in STATES
    BY FailsSomewhere, Fields
  <1>2. (IF Undone("deregister") THEN 0 ELSE spec.reg) \in 0..MaxRegs
    BY Fields, NoReg
  <1>3. (spec.unitRef /\ ~Undone("remove_unit")) \in BOOLEAN
    OBVIOUS
  <1> HIDE DEF FailedFrom, Undone
  <1> QED BY <1>1, <1>2, <1>3 DEF TypeOK, Specs

-----------------------------------------------------------------------------
(* The operation.                                                          *)

\* An absent, a new and an attempted operation are operations, and so is one
\* with a field rewritten.
LEMMA NoOpType == NoOp \in Operations
  BY DEF NoOp, Operations

\* A newly opened operation is one.
LEMMA OpenedType ==
  ASSUME NEW verb \in VERBS
  PROVE  Opened(verb) \in Operations
  BY DEF Opened, NoOp, Operations

\* Writing one field of the operation leaves an operation.
LEMMA OpFields ==
  ASSUME TypeOK
  PROVE  /\ Attempted \in Operations
         /\ [op EXCEPT !.open = FALSE] \in Operations
         /\ [op EXCEPT !.overdue = TRUE] \in Operations
         /\ \A k \in {"no", "retry", "hard"} :
              [op EXCEPT !.held = k] \in Operations
         /\ \A k \in {"no", "yes"} : [op EXCEPT !.tried = k] \in Operations
         /\ [op EXCEPT !.done = @ \cup {Phase}] \in Operations
  <1>1. Attempted \in Operations
    BY DEF TypeOK, Attempted, Operations
  <1>2. [op EXCEPT !.open = FALSE] \in Operations
    BY DEF TypeOK, Operations
  <1>3. [op EXCEPT !.overdue = TRUE] \in Operations
    BY DEF TypeOK, Operations
  <1>4. \A k \in {"no", "retry", "hard"} :
          [op EXCEPT !.held = k] \in Operations
    BY DEF TypeOK, Operations
  <1>5. \A k \in {"no", "yes"} : [op EXCEPT !.tried = k] \in Operations
    BY DEF TypeOK, Operations
  <1>6. [op EXCEPT !.done = @ \cup {Phase}] \in Operations
    <2>1. Phase \in {"stopped", "started", "rebuilding"}
      BY DEF Phase
    <2> HIDE DEF Phase
    <2> QED BY <2>1 DEF TypeOK, Operations
  <1> QED BY <1>1, <1>2, <1>3, <1>4, <1>5, <1>6

-----------------------------------------------------------------------------
(* The pass.                                                               *)

\* A pass that rests holds nothing.
LEMMA IdleType == IdleRun \in Runs
  BY NoReg
     DEF Runs, IdleRun, PCS, STATES, STEPS, VERBS, DESIRED_STATES, FLOW,
         READINGS

\* The same of the action that ends a step.
LEMMA RestType ==
  ASSUME Rest
  PROVE  run' \in Runs
  BY IdleType DEF Rest

\* A pass that goes on to another place of the walk.
LEMMA GoType ==
  ASSUME TypeOK, NEW place \in PCS, Go(place)
  PROVE  run' \in Runs
  BY DEF TypeOK, Go, Runs

\* A pass whose flow failed at one of its steps.
LEMMA UndoAfterType ==
  ASSUME TypeOK, NEW step \in FLOW, UndoAfter(step)
  PROVE  run' \in Runs
  <1>1. "undo" \in PCS
    BY DEF PCS
  <1> QED BY <1>1 DEF TypeOK, UndoAfter, Runs

\* A pass that holds a rollback back.
LEMMA HoldBackType ==
  ASSUME TypeOK, NEW kind \in {"no", "retry", "hard"}, HoldBack(kind)
  PROVE  run' \in Runs
  <1>1. "hold" \in PCS
    BY DEF PCS
  <1> QED BY <1>1 DEF TypeOK, HoldBack, Runs

\* A pass overtaken by a request.
LEMMA OvertakenType ==
  ASSUME TypeOK, Overtaken
  PROVE  run' \in Runs
  BY DEF TypeOK, Overtaken, Runs

\* A pass that goes on for another reason.
LEMMA RunAfter ==
  ASSUME TypeOK, NEW place \in PCS,
         NEW a \in {"step", "quiesce", "rollback"}
  PROVE  [run EXCEPT !.pc = place, !.after = a] \in Runs
  BY DEF TypeOK, Runs

\* With a reading of the forge.
LEMMA RunSeen ==
  ASSUME TypeOK, NEW place \in PCS, NEW s \in READINGS
  PROVE  [run EXCEPT !.pc = place, !.seen = s] \in Runs
  BY DEF TypeOK, Runs

\* With a reading that decides where it goes.
LEMMA RunSampled ==
  ASSUME TypeOK, NEW place \in PCS, NEW s \in READINGS
  PROVE  [run EXCEPT !.seen = s, !.pc = place] \in Runs
  BY DEF TypeOK, Runs

\* With another registration.
LEMMA RunReg ==
  ASSUME TypeOK, NEW place \in PCS, NEW n \in 0..MaxRegs
  PROVE  [run EXCEPT !.pc = place, !.reg = n] \in Runs
  BY DEF TypeOK, Runs

\* Having tried to register.
LEMMA RunTried ==
  ASSUME TypeOK, NEW place \in PCS
  PROVE  [run EXCEPT !.pc = place, !.tried = "yes"] \in Runs
  BY DEF TypeOK, Runs

\* Having undone something.
LEMMA RunUndone ==
  ASSUME TypeOK, NEW place \in PCS,
         NEW u \in SUBSET {"deregister", "remove_unit"}
  PROVE  [run EXCEPT !.pc = place, !.undone = u] \in Runs
  BY DEF TypeOK, Runs

\* Having undone something more.
LEMMA RunUndoneToo ==
  ASSUME TypeOK, NEW place \in PCS
  PROVE  [run EXCEPT !.pc = place, !.undone = @ \cup {"remove_unit"}] \in Runs
  BY DEF TypeOK, Runs

\* With news of the machine.
LEMMA RunNews ==
  ASSUME TypeOK, NEW place \in PCS, NEW s \in STATES
  PROVE  [run EXCEPT !.pc = place, !.news = s] \in Runs
  BY DEF TypeOK, Runs

\* After a second look.
LEMMA RunAgain ==
  ASSUME TypeOK, NEW place \in PCS, NEW d \in DESIRED_STATES
  PROVE  [run EXCEPT !.pc = place, !.fresh = TRUE, !.desired = d] \in Runs
  BY DEF TypeOK, Runs

\* A pass that has decided on a step.
LEMMA RunDecided ==
  ASSUME NEW place \in PCS, NEW a \in STEPS, NEW v \in VERBS \cup {"none"},
         NEW d \in DESIRED_STATES, NEW n \in 0..MaxRegs
  PROVE  [IdleRun EXCEPT !.pc = place, !.action = a, !.verb = v,
                         !.desired = d, !.reg = n] \in Runs
  BY IdleType DEF Runs

\* A pass that sweeps an overdue creation.
LEMMA RunSwept ==
  ASSUME NEW v \in VERBS \cup {"none"}, NEW n \in 0..MaxRegs,
         NEW t \in {"no", "yes", "blind"}
  PROVE  [IdleRun EXCEPT !.pc = "undo", !.verb = v, !.step = "verify_online",
                         !.reg = n, !.tried = t] \in Runs
  <1>1. "undo" \in PCS /\ "verify_online" \in FLOW
    BY DEF PCS, FLOW
  <1> QED BY <1>1, IdleType DEF Runs

\* A pass that gave its runner an operation.
LEMMA RunOpened ==
  ASSUME TypeOK
  PROVE  [run EXCEPT !.verb = "provision"] \in Runs
  <1>1. "provision" \in VERBS
    BY DEF VERBS
  <1> QED BY <1>1 DEF TypeOK, Runs

\* Whatever decide is given, it names a step or none.
LEMMA DecidesAStep ==
  ASSUME NEW a, NEW d, NEW v, NEW n, NEW e, NEW f
  PROVE  Decide(a, d, v, n, e, f) \in STEPS \cup {"none"}
  BY DEF Decide, Stranded, ForClear, ForVerb, ForRestart, ForRecreate,
         Interrupted, Toward, TowardAbsent, TowardStopped, TowardDrained,
         TowardRunning, STEPS, TERMINAL

-----------------------------------------------------------------------------
(* The budget and the world.                                               *)

\* A fault is within the budget.
LEMMA FaultType ==
  ASSUME TypeOK, Fault
  PROVE  faults' \in 0..MaxFaults
  BY ConstantsAssumption DEF TypeOK, Fault, ConstantsAssumption

\* So is a reading, right or wrong.
LEMMA ReadingType ==
  ASSUME TypeOK
  PROVE  /\ \A id, seen : Reads(id, seen) => faults' \in 0..MaxFaults
         /\ \A id, seen : Glimpses(id, seen) => faults' \in 0..MaxFaults
         /\ \A quiet : Quiescent(quiet) => faults' \in 0..MaxFaults
  <1>1. \A id, seen : Reads(id, seen) => faults' \in 0..MaxFaults
    BY FaultType DEF TypeOK, Reads
  <1>2. \A id, seen : Glimpses(id, seen) => faults' \in 0..MaxFaults
    BY FaultType, <1>1 DEF TypeOK, Glimpses
  <1>3. \A quiet : Quiescent(quiet) => faults' \in 0..MaxFaults
    BY FaultType DEF TypeOK, Quiescent
  <1> QED BY <1>1, <1>2, <1>3

\* What each call leaves is a world.
LEMMA Effects ==
  ASSUME TypeOK
  PROVE  /\ Started \in Worlds
         /\ [Started EXCEPT !.gated = FALSE] \in Worlds
         /\ Stopped \in Worlds
         /\ Created \in Worlds
         /\ Removed \in Worlds
         /\ Terminated \in Worlds
         /\ \A b \in BOOLEAN : Gated(b) \in Worlds
         /\ \A id : Deleted(id) \in Worlds
         /\ world.issued < MaxRegs => Registered \in Worlds
  <1>1. Started \in Worlds
    BY DEF TypeOK, Started, Worlds
  <1>2. [Started EXCEPT !.gated = FALSE] \in Worlds
    BY <1>1 DEF Worlds
  <1>3. Stopped \in Worlds
    BY DEF TypeOK, Stopped, Worlds
  <1>4. Created \in Worlds
    BY NoReg DEF TypeOK, Created, Worlds
  <1>5. Removed \in Worlds
    BY NoReg DEF TypeOK, Removed, Worlds
  <1>6. Terminated \in Worlds
    BY DEF TypeOK, Terminated, Worlds
  <1>7. \A b \in BOOLEAN : Gated(b) \in Worlds
    BY DEF TypeOK, Gated, Worlds
  <1>8. \A id : Deleted(id) \in Worlds
    BY DEF TypeOK, Deleted, Worlds
  <1>9. ASSUME world.issued < MaxRegs PROVE Registered \in Worlds
    <2> DEFINE id == world.issued + 1
    <2>1. id \in RegIds /\ id \in 0..MaxRegs
      BY <1>9, ConstantsAssumption
         DEF TypeOK, Worlds, RegIds, ConstantsAssumption
    <2>2. ((IF Provider = "github" THEN {} ELSE world.live) \cup {id})
            \in SUBSET RegIds
      BY <2>1 DEF TypeOK, Worlds
    <2>3. (IF Exists THEN id ELSE 0) \in 0..MaxRegs
      BY <2>1, NoReg
    <2> HIDE DEF id
    <2> QED BY <2>1, <2>2, <2>3 DEF TypeOK, Registered, Worlds, id
  <1> QED BY <1>1, <1>2, <1>3, <1>4, <1>5, <1>6, <1>7, <1>8, <1>9

\* What happens without the controller leaves a world too.
LEMMA WorldFields ==
  ASSUME TypeOK
  PROVE  /\ \A b \in BOOLEAN : /\ [world EXCEPT !.late = b] \in Worlds
                               /\ [world EXCEPT !.job = b] \in Worlds
                               /\ [world EXCEPT !.healthy = b] \in Worlds
         /\ \A u \in {"stopped", "running"} :
              [world EXCEPT !.unit = u, !.job = FALSE, !.late = FALSE]
                \in Worlds
  <1>1. \A b \in BOOLEAN : [world EXCEPT !.late = b] \in Worlds
    BY DEF TypeOK, Worlds
  <1>2. \A b \in BOOLEAN : [world EXCEPT !.job = b] \in Worlds
    BY DEF TypeOK, Worlds
  <1>3. \A b \in BOOLEAN : [world EXCEPT !.healthy = b] \in Worlds
    BY DEF TypeOK, Worlds
  <1>4. \A u \in {"stopped", "running"} :
          [world EXCEPT !.unit = u, !.job = FALSE, !.late = FALSE] \in Worlds
    BY DEF TypeOK, Worlds
  <1> QED BY <1>1, <1>2, <1>3, <1>4

-----------------------------------------------------------------------------
(* Writes and calls.                                                       *)

\* A write against the version read writes the row it was given, or none.
LEMMA WriteType ==
  ASSUME TypeOK, NEW row \in Specs, NEW place \in PCS, Write(row, place)
  PROVE  spec' \in Specs /\ run' \in Runs
  BY GoType, RestType DEF TypeOK, Write

\* And one that ends the step.
LEMMA WriteLastType ==
  ASSUME TypeOK, NEW row \in Specs, WriteLast(row)
  PROVE  spec' \in Specs /\ run' \in Runs
  BY RestType DEF TypeOK, WriteLast

\* And one that follows a second read.
LEMMA RewriteType ==
  ASSUME TypeOK, NEW row \in Specs, NEW place \in PCS, Rewrite(row, place)
  PROVE  spec' \in Specs /\ run' \in Runs
  BY DEF TypeOK, Rewrite, Runs

\* A call leaves the world as it was or with the call's effect.
LEMMA CallType ==
  ASSUME TypeOK, NEW effect \in Worlds, NEW place \in PCS,
         Call(effect, place)
  PROVE  world' \in Worlds /\ run' \in Runs /\ faults' \in 0..MaxFaults
  <1>1. "fail" \in PCS
    BY DEF PCS
  <1> QED BY <1>1, GoType, FaultType DEF TypeOK, Call

-----------------------------------------------------------------------------
(* One step per action.                                                    *)

\* What the reconciler does keeps the types.
LEMMA ReconcileTypes ==
  ASSUME TypeOK, Reconcile
  PROVE  TypeOK'
  <1>1. CASE ForgetClosed
    BY <1>1, GoType
       DEF ForgetClosed, TypeOK, PCS
  <1>2. CASE ResumeRecreate

    <2>1. Opened("recreate") \in Operations
      BY OpenedType DEF VERBS
    <2>2. [spec EXCEPT !.desired = "running"] \in Specs
      BY RowFields DEF TypeOK, DESIRED_STATES
    <2>3. spec' \in Specs /\ op' \in Operations
      BY <1>2, <2>1, <2>2 DEF ResumeRecreate, TypeOK
    <2>4. run' \in Runs /\ faults' \in 0..MaxFaults
      BY <1>2, GoType, FaultType DEF ResumeRecreate, TypeOK, PCS
    <2> QED BY <1>2, <2>3, <2>4 DEF ResumeRecreate, TypeOK
  <1>3. CASE RefuseReplacement
    BY <1>3, FaultType, GoType, OpFields
       DEF RefuseReplacement, TypeOK, PCS
  <1>4. CASE CloseFulfilled
    BY <1>4, GoType, RestType, OpFields
       DEF CloseFulfilled, TERMINAL, TypeOK, PCS
  <1>5. CASE Unpoint
    BY <1>5, NoOpType, RestType
       DEF TypeOK, Unpoint
  <1>6. CASE PeekBeforeClear

    <2> SUFFICES ASSUME NEW seen \in READINGS,
                        Reads(spec.reg, seen),
                        spec' = IF seen \in SERVING THEN Moved(seen) ELSE spec,
                        IF seen = "idle" \/ DrainFirst
                        THEN Go("decide") /\ UNCHANGED op
                        ELSE Go("unpoint") /\ op' = [op EXCEPT !.open = FALSE]
                 PROVE  TypeOK'
      BY <1>6 DEF PeekBeforeClear
    <2>1. SERVING \subseteq STATES
      BY DEF SERVING, STATES
    <2>2. spec' \in Specs
      BY <2>1, RowMoved DEF TypeOK
    <2>3. run' \in Runs /\ op' \in Operations
      BY GoType, OpFields DEF TypeOK, PCS
    <2> QED BY <1>6, <2>2, <2>3, ReadingType DEF PeekBeforeClear, TypeOK
  <1>7. CASE DecideStep

    <2>1. PICK place \in {"look", "admit", "fail"} :
            /\ run' = [IdleRun EXCEPT !.pc = place, !.action = Decided,
                                      !.verb = Verb, !.desired = spec.desired,
                                      !.reg = spec.reg]
            /\ Fault \/ UNCHANGED faults
      BY <1>7, Zenon DEF DecideStep
    <2>2. Decided \in STEPS
      BY <1>7, DecidesAStep DEF DecideStep, Decided
    <2>3. Verb \in VERBS \cup {"none"}
      BY DEF TypeOK, Operations, Verb
    <2>4. place \in PCS
      BY DEF PCS
    <2>5. run' \in Runs
      BY <2>1, <2>2, <2>3, <2>4, RunDecided, Fields
    <2> QED BY <1>7, <2>1, <2>5, FaultType DEF DecideStep, TypeOK
  <1>8. CASE LookAgain

    <2> SUFFICES ASSUME NEW seen \in READINGS, Glimpses(spec.reg, seen),
                        \/ spec' = Moved("draining") /\ Rest
                        \/ /\ run' = [run EXCEPT !.pc = "admit",
                                                 !.fresh = TRUE,
                                                 !.desired = spec.desired]
                           /\ UNCHANGED spec
                 PROVE  TypeOK'
      BY <1>8 DEF LookAgain
    <2>1. "draining" \in STATES /\ "admit" \in PCS
      BY DEF STATES, PCS
    <2>2. spec' \in Specs /\ run' \in Runs
      BY <2>1, RowMoved, RestType, RunAgain, Fields DEF TypeOK
    <2> QED BY <1>8, <2>2, ReadingType DEF LookAgain, TypeOK
  <1>9. CASE Admit

    <2>1. run' \in Runs
      <3>1. "gate" \in PCS /\ "act" \in PCS
        BY DEF PCS
      <3>2. \/ Rest \/ Go("act")
            \/ run' = [run EXCEPT !.pc = "gate", !.after = "quiesce"]
        BY <1>9 DEF Admit
      <3> QED BY <3>1, <3>2, RestType, GoType, RunAfter
    <2>2. op' \in Operations
      <3>1. UNCHANGED op \/ op' = Attempted
        BY <1>9 DEF Admit
      <3> QED BY <3>1, OpFields DEF TypeOK
    <2>3. faults' \in 0..MaxFaults
      <3>1. UNCHANGED faults \/ \E quiet \in BOOLEAN : Quiescent(quiet)
        BY <1>9 DEF Admit
      <3> QED BY <3>1, ReadingType DEF TypeOK
    <2> QED BY <1>9, <2>1, <2>2, <2>3 DEF Admit, TypeOK
  <1>10. CASE Fail

    <2>1. spec' \in Specs
      BY <1>10, RowFailed DEF Fail
    <2> QED BY <1>10, <2>1, NoOpType, RestType DEF Fail, TypeOK
  <1>11. CASE Hold

    <2>1. run.hold \in {"no", "retry", "hard"}
      BY DEF TypeOK, Runs
    <2>2. op' \in Operations
      BY <1>11, <2>1, OpFields DEF Hold, TypeOK
    <2>3. spec' \in Specs
      BY <1>11, RowFields DEF Hold, TypeOK
    <2> QED BY <1>11, <2>2, <2>3, RestType DEF Hold, TypeOK
  <1>12. CASE OpenProvision

    <2>1. Opened("provision") \in Operations
      BY OpenedType DEF VERBS
    <2>2. op' \in Operations /\ run' \in Runs
      BY <1>12, <2>1, RunOpened, RestType DEF OpenProvision, TypeOK
    <2> QED BY <1>12, <2>2 DEF OpenProvision, TypeOK
  <1>13. CASE DoProvision
    BY <1>13, GoType, OpFields, RestType, RowMoved, WriteType, Fields
       DEF DoProvision, TypeOK, STATES, PCS
  <1>14. CASE Place
    BY <1>14, GoType, RewriteType, UndoAfterType, RowFields
       DEF Place, TypeOK, PCS, FLOW
  <1>15. CASE CreateUnit
    BY <1>15, Effects, FaultType, GoType, HoldBackType, UndoAfterType, Fields
       DEF CreateUnit, TypeOK, PCS, FLOW
  <1>16. CASE VoidRegistration
    BY <1>16, Effects, GoType, HoldBackType, ReadingType, Fields
       DEF TypeOK, VoidRegistration, PCS
  <1>17. CASE ForgetVoided
    BY <1>17, RewriteType, RowFields, NoReg
       DEF ForgetVoided, TypeOK, PCS
  <1>18. CASE Provisioned

    <2>1. spec' \in Specs
      BY <1>18, RowMoved, RowFields DEF Provisioned, STATES
    <2>2. op' \in Operations
      BY <1>18, OpFields DEF Provisioned, TypeOK
    <2> QED BY <1>18, <2>1, <2>2, RestType DEF Provisioned, TypeOK
  <1>19. CASE DoRegister
    BY <1>19, OpFields, RowMoved, WriteType, Fields
       DEF DoRegister, TypeOK, STATES, PCS
  <1>20. CASE StillRegistered

    <2>1. "mint" \in PCS /\ "fail" \in PCS /\ "verify" \in PCS
      BY DEF PCS
    <2>2. run' \in Runs
      <3>1. \/ Go("mint") \/ Go("fail") \/ Go("verify")
            \/ run' = [run EXCEPT !.pc = "mint", !.reg = 0]
        BY <1>20 DEF StillRegistered
      <3> QED BY <2>1, <3>1, GoType, RunReg, NoReg
    <2>3. world' \in Worlds
      <3>1. \/ UNCHANGED world \/ world' = Started
            \/ world' = [Started EXCEPT !.gated = FALSE]
        BY <1>20 DEF StillRegistered
      <3> QED BY <3>1, Effects DEF TypeOK
    <2>4. op' \in Operations
      BY <1>20, OpFields DEF StillRegistered, TypeOK
    <2>5. faults' \in 0..MaxFaults
      <3>1. UNCHANGED faults \/ Fault \/ \E seen : Reads(spec.reg, seen)
        BY <1>20 DEF StillRegistered
      <3> QED BY <3>1, FaultType, ReadingType DEF TypeOK
    <2> QED BY <1>20, <2>2, <2>3, <2>4, <2>5 DEF StillRegistered, TypeOK
  <1>21. CASE MintToken
    BY <1>21, FaultType, GoType, UndoAfterType
       DEF MintToken, TypeOK, PCS, FLOW
  <1>22. CASE RecordAttempt

    <2>1. "enrolling" \in PCS
      BY DEF PCS
    <2>2. run' \in Runs /\ op' \in Operations
      BY <1>22, <2>1, RunTried, OpFields DEF RecordAttempt, TypeOK
    <2> QED BY <1>22, <2>2 DEF RecordAttempt, TypeOK
  <1>23. CASE Register

    <2>1. run' \in Runs
      <3>1. "record" \in PCS /\ "register" \in FLOW
        BY DEF PCS, FLOW
      <3>2. world.issued + 1 \in 0..MaxRegs
        BY <1>23, ConstantsAssumption
           DEF Register, TypeOK, Worlds, ConstantsAssumption
      <3>3. \/ UndoAfter("register")
            \/ run' = [run EXCEPT !.pc = "record", !.reg = world.issued + 1]
        BY <1>23 DEF Register
      <3> QED BY <3>1, <3>2, <3>3, UndoAfterType, RunReg
    <2>2. world' \in Worlds
      <3>1. \/ UNCHANGED world \/ world' = Registered
            \/ world' = [world EXCEPT !.late = TRUE]
        BY <1>23 DEF Register
      <3>2. world.issued < MaxRegs
        BY <1>23 DEF Register
      <3> QED BY <3>1, <3>2, Effects, WorldFields DEF TypeOK
    <2> QED BY <1>23, <2>1, <2>2, FaultType DEF Register, TypeOK
  <1>24. CASE RecordRegistration
    BY <1>24, RewriteType, Fields, RowFields
       DEF RecordRegistration, TypeOK, PCS
  <1>25. CASE VerifyOnline
    BY <1>25, FaultType, GoType, UndoAfterType, Fields
       DEF SERVING, TypeOK, VerifyOnline, PCS, FLOW
  <1>26. CASE Online

    <2>1. [Moved("idle") EXCEPT !.reg = run.reg] \in Specs
      BY RowMoved, RowFields, Fields DEF STATES
    <2> QED BY <1>26, <2>1, RestType DEF Online, TypeOK
  <1>27. CASE RollbackPreflight

    <2>1. run' \in Runs
      <3>1. /\ "undo_quiet" \in PCS /\ "undo_record" \in PCS
            /\ "fail" \in PCS
        BY DEF PCS
      <3>2. \/ Go("fail") \/ Go("undo_quiet") \/ Go("undo_record")
            \/ HoldBack("hard")
            \/ \E seen \in READINGS :
                 run' = [run EXCEPT !.pc = "undo_quiet", !.seen = seen]
        BY <1>27 DEF RollbackPreflight
      <3> QED BY <3>1, <3>2, GoType, HoldBackType, RunSeen
    <2>2. faults' \in 0..MaxFaults
      <3>1. UNCHANGED faults \/ Fault \/ \E seen : Reads(run.reg, seen)
        BY <1>27 DEF RollbackPreflight
      <3> QED BY <3>1, FaultType, ReadingType DEF TypeOK
    <2> QED BY <1>27, <2>1, <2>2 DEF RollbackPreflight, TypeOK
  <1>28. CASE RollbackQuiet

    <2>1. run' \in Runs
      <3>1. "undo_record" \in PCS /\ "gate" \in PCS
        BY DEF PCS
      <3>2. \/ Go("undo_record") \/ HoldBack("hard")
            \/ run' = [run EXCEPT !.pc = "gate", !.after = "rollback"]
        BY <1>28 DEF RollbackQuiet
      <3> QED BY <3>1, <3>2, GoType, HoldBackType, RunAfter
    <2> QED BY <1>28, <2>1, ReadingType DEF RollbackQuiet, TypeOK
  <1>29. CASE UndoRecord

    <2>1. "unregister" \in PCS /\ "undo_unit" \in PCS
      BY DEF PCS
    <2>2. \/ run' = [run EXCEPT !.pc = "unregister", !.after = "rollback"]
          \/ \E u \in SUBSET {"deregister", "remove_unit"} :
               run' = [run EXCEPT !.pc = "undo_unit", !.undone = u]
      <3>1. (IF Undoes("deregister") THEN {"deregister"} ELSE {})
              \in SUBSET {"deregister", "remove_unit"}
        OBVIOUS
      <3> QED BY <1>29, <3>1, Zenon DEF UndoRecord
    <2>3. ASSUME NEW u \in SUBSET {"deregister", "remove_unit"}
          PROVE  [run EXCEPT !.pc = "undo_unit", !.undone = u] \in Runs
      BY <2>1, RunUndone
    <2>4. [run EXCEPT !.pc = "unregister", !.after = "rollback"] \in Runs
      BY <2>1, RunAfter
    <2>5. run' \in Runs
      BY <2>2, <2>3, <2>4, Zenon
    <2> QED BY <1>29, <2>5 DEF UndoRecord, TypeOK
  <1>30. CASE UndoUnit

    <2>1. "fail" \in PCS
      BY DEF PCS
    <2>2. run' \in Runs
      BY <1>30, <2>1, RunUndoneToo, GoType DEF UndoUnit
    <2>3. world' \in Worlds
      BY <1>30, Effects DEF UndoUnit, TypeOK
    <2> QED BY <1>30, <2>2, <2>3, FaultType DEF UndoUnit, TypeOK
  <1>31. CASE Sweep

    <2> SUFFICES ASSUME NEW seen \in READINGS,
                        Reads(spec.reg, seen) \/ UNCHANGED faults,
                        \/ spec' = Moved("idle") /\ UNCHANGED run
                        \/ UNCHANGED spec /\ \E t \in {"no", "yes", "blind"} :
                             run' = [IdleRun EXCEPT
                                       !.pc = "undo", !.verb = op.verb,
                                       !.step = "verify_online",
                                       !.reg = spec.reg, !.tried = t]
                 PROVE  TypeOK'
      <3>1. (IF op.tried # "unset" THEN op.tried
             ELSE IF spec.actual = "registering" THEN "blind"
             ELSE "no") \in {"no", "yes", "blind"}
        BY DEF TypeOK, Operations
      <3> QED BY <1>31, <3>1, Zenon DEF Sweep
    <2>1. op.verb \in VERBS \cup {"none"} /\ "idle" \in STATES
      BY DEF TypeOK, Operations, STATES
    <2>2. spec' \in Specs
      BY <2>1, RowMoved DEF TypeOK
    <2>3. ASSUME NEW t \in {"no", "yes", "blind"}
          PROVE  [IdleRun EXCEPT !.pc = "undo", !.verb = op.verb,
                                 !.step = "verify_online",
                                 !.reg = spec.reg, !.tried = t] \in Runs
      BY <2>1, RunSwept, Fields
    <2>4. run' \in Runs
      BY <2>3, Zenon DEF TypeOK
    <2> QED BY <1>31, <2>2, <2>4, ReadingType DEF Sweep, TypeOK
  <1>32. CASE DoStart
    BY <1>32, GoType, OpFields, RowMoved, WriteType, Fields
       DEF DoStart, TypeOK, STATES, PCS
  <1>33. CASE DoCancelDrain
    BY <1>33, GoType, OpFields
       DEF DoCancelDrain, TypeOK, PCS
  <1>34. CASE Boot
    BY <1>34, CallType, Effects, GoType
       DEF Boot, TypeOK, PCS
  <1>35. CASE Ungate
    BY <1>35, CallType, Effects, GoType, Fields
       DEF TypeOK, Ungate, PCS
  <1>36. CASE Booted
    BY <1>36, RowMoved, WriteLastType, WriteType, Fields
       DEF Booted, TypeOK, STATES, PCS
  <1>37. CASE Advance

    <2>1. op' \in Operations
      BY <1>37, OpFields DEF Advance, TypeOK
    <2> QED BY <1>37, <2>1, RestType DEF Advance, TypeOK
  <1>38. CASE DoStop
    BY <1>38, GoType, OpFields, RowMoved, WriteType, Fields
       DEF DoStop, TypeOK, STATES, PCS
  <1>39. CASE Halt
    BY <1>39, CallType, Effects, GoType
       DEF Halt, TypeOK, PCS
  <1>40. CASE Halted
    BY <1>40, RowMoved, WriteType, Fields
       DEF Halted, TypeOK, STATES, PCS
  <1>41. CASE DoDrain
    BY <1>41, GoType, OpFields, RowMoved, WriteType, Fields
       DEF DoDrain, TypeOK, STATES, PCS
  <1>42. CASE CloseGate
    BY <1>42, Effects, FaultType, GoType, HoldBackType, Fields
       DEF CloseGate, TypeOK, PCS, DrainRaises
  <1>43. CASE Sample

    <2>1. PICK seen \in READINGS :
            /\ Reads(run.reg, seen)
            /\ run' = [run EXCEPT !.seen = seen,
                         !.pc = IF Provider = "github" /\ seen = "idle"
                                THEN "hush" ELSE "prove"]
      BY <1>43, Zenon DEF Sample
    <2>2. (IF Provider = "github" /\ seen = "idle" THEN "hush" ELSE "prove")
            \in PCS
      BY DEF PCS
    <2>3. run' \in Runs
      BY <2>1, <2>2, RunSampled, Zenon
    <2> QED BY <1>43, <2>1, <2>3, ReadingType DEF Sample, TypeOK
  <1>44. CASE Hush
    BY <1>44, Effects, FaultType, GoType, HoldBackType
       DEF Hush, TypeOK, PCS, DrainRaises
  <1>45. CASE Prove

    <2>1. run' \in Runs
      <3>1. /\ "proven" \in PCS /\ "undo_quiet" \in PCS
            /\ "offline" \in READINGS
        BY DEF PCS, READINGS
      <3>2. run.after \in {"step", "quiesce", "rollback"}
        BY DEF TypeOK, Runs
      <3>3. \/ Go("proven") \/ Rest \/ HoldBack("hard")
            \/ run' = [run EXCEPT !.pc = "undo_quiet", !.seen = "offline"]
        BY <1>45, <3>2 DEF Prove
      <3>4. CASE run' = [run EXCEPT !.pc = "undo_quiet", !.seen = "offline"]
        BY <3>1, <3>4, RunSeen, Zenon
      <3>5. CASE Go("proven")
        BY <3>1, <3>5, GoType
      <3> QED BY <3>3, <3>4, <3>5, RestType, HoldBackType
    <2> QED BY <1>45, <2>1, ReadingType DEF Prove, TypeOK
  <1>46. CASE Proven
    BY <1>46, RowMoved, WriteLastType, Fields
       DEF Proven, TypeOK, STATES
  <1>47. CASE DoDeregister
    BY <1>47, GoType, OpFields, RowMoved, WriteType, Fields
       DEF DoDeregister, TypeOK, STATES, PCS
  <1>48. CASE Unregister

    <2>1. run' \in Runs
      <3>1. /\ "undo_unit" \in PCS /\ "unregistered" \in PCS
            /\ "disown" \in PCS /\ "fail" \in PCS
        BY DEF PCS
      <3>2. \/ Go("unregistered") \/ Go("disown") \/ Go("fail")
            \/ run' = [run EXCEPT !.pc = "undo_unit",
                                  !.undone = {"deregister"}]
        BY <1>48 DEF Unregister, Deregistered
      <3>3. {"deregister"} \in SUBSET {"deregister", "remove_unit"}
        OBVIOUS
      <3>4. CASE run' = [run EXCEPT !.pc = "undo_unit",
                                    !.undone = {"deregister"}]
        BY <3>1, <3>3, <3>4, RunUndone, Zenon
      <3> QED BY <3>1, <3>2, <3>4, GoType
    <2>2. world' \in Worlds
      BY <1>48, Effects DEF Unregister, TypeOK
    <2> QED BY <1>48, <2>1, <2>2, FaultType DEF Unregister, TypeOK
  <1>49. CASE DeleteRecordInstead

    <2>1. run' \in Runs
      <3>1. /\ "undo_unit" \in PCS /\ "unregistered" \in PCS
            /\ "fail" \in PCS
        BY DEF PCS
      <3>2. \/ Go("unregistered") \/ Go("fail")
            \/ run' = [run EXCEPT !.pc = "undo_unit",
                                  !.undone = {"deregister"}]
        BY <1>49 DEF DeleteRecordInstead, Deregistered
      <3>3. {"deregister"} \in SUBSET {"deregister", "remove_unit"}
        OBVIOUS
      <3>4. CASE run' = [run EXCEPT !.pc = "undo_unit",
                                    !.undone = {"deregister"}]
        BY <3>1, <3>3, <3>4, RunUndone, Zenon
      <3> QED BY <3>1, <3>2, <3>4, GoType
    <2>2. world' \in Worlds
      <3>1. UNCHANGED world \/ world' = Deleted(run.reg)
        BY <1>49 DEF DeleteRecordInstead
      <3> QED BY <3>1, Effects DEF TypeOK
    <2>3. faults' \in 0..MaxFaults
      <3>1. UNCHANGED faults \/ Fault \/ \E seen : Reads(run.reg, seen)
        BY <1>49 DEF DeleteRecordInstead
      <3> QED BY <3>1, FaultType, ReadingType DEF TypeOK
    <2> QED BY <1>49, <2>1, <2>2, <2>3 DEF DeleteRecordInstead, TypeOK
  <1>50. CASE Unregistered

    <2>1. [Moved("removing") EXCEPT !.reg = 0] \in Specs
      BY RowMoved, RowFields, NoReg DEF STATES
    <2>2. [spec EXCEPT !.reg = 0] \in Specs
      BY RowFields, NoReg DEF TypeOK
    <2>3. "act" \in PCS
      BY DEF PCS
    <2>4. spec' \in Specs /\ run' \in Runs
      BY <1>50, <2>1, <2>2, <2>3, WriteType, WriteLastType DEF Unregistered
    <2> QED BY <1>50, <2>4 DEF Unregistered, TypeOK
  <1>51. CASE DoRemove

    <2>1. "removing" \in STATES /\ {"act", "erase", "unregister"} \subseteq PCS
      BY DEF STATES, PCS
    <2>2. spec' \in Specs /\ run' \in Runs
      BY <1>51, <2>1, RowMoved, WriteType, GoType DEF DoRemove, TypeOK
    <2>3. op' \in Operations
      BY <1>51, OpFields DEF DoRemove, TypeOK
    <2> QED BY <1>51, <2>2, <2>3 DEF DoRemove, TypeOK
  <1>52. CASE Erase
    BY <1>52, CallType, Effects, GoType
       DEF Erase, TypeOK, PCS
  <1>53. CASE Erased

    <2>1. [Moved("provisioning") EXCEPT !.unitRef = FALSE, !.reg = 0] \in Specs
      BY RowMoved, RowUnbuilt DEF STATES
    <2>2. Moved("absent") \in Specs
      BY RowMoved DEF STATES
    <2>3. {"advance", "fail", "finish"} \subseteq PCS
      BY DEF PCS
    <2>4. spec' \in Specs /\ run' \in Runs
      BY <1>53, <2>1, <2>2, <2>3, RewriteType, WriteType, GoType
         DEF Erased, TypeOK
    <2> QED BY <1>53, <2>4, FaultType DEF Erased, TypeOK
  <1>54. CASE DoWithdraw
    BY <1>54, RowMoved, WriteType, Fields
       DEF DoWithdraw, TypeOK, STATES, PCS
  <1>55. CASE SoftDelete
    BY <1>55, GoType, RowFields
       DEF SoftDelete, TypeOK, PCS
  <1>56. CASE CloseFinished
    BY <1>56, RestType, OpFields
       DEF CloseFinished, TypeOK
  <1>57. CASE DoRepair

    <2>1. [Moved("provisioning") EXCEPT !.err = FALSE] \in Specs
      BY RowMoved, RowFields DEF STATES
    <2>2. spec' \in Specs /\ run' \in Runs
      BY <1>57, <2>1, WriteLastType DEF DoRepair
    <2> QED BY <1>57, <2>2, OpFields DEF DoRepair, TypeOK
  <1>58. CASE DoClearCache

    <2>1. run' \in Runs
      BY <1>58, GoType DEF DoClearCache, PCS
    <2>2. op' \in Operations
      BY <1>58, OpFields DEF DoClearCache
    <2> QED BY <1>58, <2>1, <2>2 DEF DoClearCache, TypeOK
  <1>59. CASE ClearCache
    BY <1>59, GoType, OpFields
       DEF ClearCache, TypeOK, PCS
  <1>60. CASE DoObserve

    <2>1. run' \in Runs
      <3>1. \/ Rest
            \/ \E n \in STATES :
                 run' = [run EXCEPT !.pc = "observed", !.news = n]
        <4>1. \A seen : <<spec.actual, News(seen)>> \in OBSERVED
                          => News(seen) \in STATES
          BY DEF OBSERVED, STATES
        <4> QED BY <1>60, <4>1, Zenon DEF DoObserve
      <3>2. "observed" \in PCS
        BY DEF PCS
      <3> QED BY <3>1, <3>2, RestType, RunNews
    <2>2. faults' \in 0..MaxFaults
      BY <1>60, ReadingType DEF DoObserve
    <2> QED BY <1>60, <2>1, <2>2 DEF DoObserve, TypeOK
  <1>61. CASE RecordObservation

    <2>1. spec' \in Specs /\ run' \in Runs
      BY <1>61, Fields, RowMoved, WriteLastType DEF RecordObservation
    <2> QED BY <1>61, <2>1 DEF RecordObservation, TypeOK
  <1> QED
    BY <1>1, <1>2, <1>3, <1>4, <1>5, <1>6, <1>7, <1>8, <1>9, <1>10,
       <1>11, <1>12, <1>13, <1>14, <1>15, <1>16, <1>17, <1>18, <1>19, <1>20,
       <1>21, <1>22, <1>23, <1>24, <1>25, <1>26, <1>27, <1>28, <1>29, <1>30,
       <1>31, <1>32, <1>33, <1>34, <1>35, <1>36, <1>37, <1>38, <1>39, <1>40,
       <1>41, <1>42, <1>43, <1>44, <1>45, <1>46, <1>47, <1>48, <1>49, <1>50,
       <1>51, <1>52, <1>53, <1>54, <1>55, <1>56, <1>57, <1>58, <1>59, <1>60,
       <1>61
       DEF Reconcile

\* So does what happens without the controller.
LEMMA EnvironmentTypes ==
  ASSUME TypeOK, Environment
  PROVE  TypeOK'
  <1>1. CASE Crash

    <2>1. world' \in Worlds
      <3>1. UNCHANGED world \/ world' = [world EXCEPT !.late = TRUE]
        BY <1>1 DEF Crash
      <3> QED BY <3>1, WorldFields DEF TypeOK
    <2> QED BY <1>1, <2>1, RestType, FaultType DEF Crash, TypeOK
  <1>2. CASE DeadlinePasses

    <2>1. op' \in Operations
      BY <1>2, OpFields DEF DeadlinePasses
    <2> QED BY <1>2, <2>1 DEF DeadlinePasses, TypeOK
  <1>3. CASE JobStarts

    <2>1. world' \in Worlds
      BY <1>3, WorldFields DEF JobStarts
    <2> QED BY <1>3, <2>1 DEF JobStarts, Untouched, TypeOK
  <1>4. CASE JobEnds

    <2>1. world' \in Worlds
      BY <1>4, WorldFields DEF JobEnds
    <2> QED BY <1>4, <2>1 DEF JobEnds, Untouched, TypeOK
  <1>5. CASE UnitExits
    BY <1>5, Effects
       DEF TypeOK, UnitExits, Untouched
  <1>6. CASE HostReboots

    <2>1. world' \in Worlds
      BY <1>6, WorldFields DEF HostReboots
    <2> QED BY <1>6, <2>1, FaultType DEF HostReboots, Untouched, TypeOK
  <1>7. CASE WorkerDegrades

    <2>1. world' \in Worlds
      BY <1>7, WorldFields DEF WorkerDegrades
    <2> QED BY <1>7, <2>1, FaultType DEF WorkerDegrades, Untouched, TypeOK
  <1>8. CASE WorkerRecovers

    <2>1. world' \in Worlds
      BY <1>8, WorldFields DEF WorkerRecovers
    <2> QED BY <1>8, <2>1 DEF WorkerRecovers, Untouched, TypeOK
  <1>9. CASE LateRegistration

    <2>1. world' \in Worlds
      <3>1. \/ world' = [world EXCEPT !.late = FALSE]
            \/ world' = Registered /\ world.issued < MaxRegs
        BY <1>9 DEF LateRegistration
      <3> QED BY <3>1, Effects, WorldFields
    <2> QED BY <1>9, <2>1 DEF LateRegistration, Untouched, TypeOK
  <1>10. CASE SignedEvent
    <2>1. PICK said \in SERVING \ {spec.actual} :
            /\ spec' = [spec EXCEPT !.actual = said]
            /\ IF said = Truth(spec.reg) THEN UNCHANGED faults ELSE Fault
      BY <1>10 DEF SignedEvent
    <2>2. said \in STATES
      BY <2>1 DEF SERVING, STATES
    <2>3. spec' \in Specs
      BY <2>1, <2>2 DEF TypeOK, Specs
    <2>4. run' \in Runs
      <3>1. run' = [run EXCEPT !.fresh = FALSE] \/ run' = run
        BY <1>10 DEF SignedEvent
      <3>2. [run EXCEPT !.fresh = FALSE] \in Runs
        BY DEF TypeOK, Runs
      <3> QED BY <3>1, <3>2 DEF TypeOK
    <2>5. faults' \in 0..MaxFaults
      BY <2>1, FaultType DEF TypeOK
    <2> QED BY <1>10, <2>3, <2>4, <2>5 DEF SignedEvent, TypeOK
  <1> QED
    BY <1>1, <1>2, <1>3, <1>4, <1>5, <1>6, <1>7, <1>8, <1>9, <1>10
       DEF Environment

\* So does a request.
LEMMA ServiceTypes ==
  ASSUME TypeOK, Service
  PROVE  TypeOK'
  <1>1. ASSUME NEW verb \in Verbs, Act(verb) PROVE TypeOK'
    <2>1. verb \in VERBS
      BY ConstantsAssumption DEF ConstantsAssumption
    <2>2. DesiredBy(verb, spec.desired) \in DESIRED_STATES
      BY Fields DEF DesiredBy, DESIRED_STATES
    <2>3. spec' \in Specs
      BY <1>1, <2>2, RowFields DEF Act, TypeOK
    <2>4. op' \in Operations /\ run' \in Runs
      BY <1>1, <2>1, OpenedType, OvertakenType DEF Act
    <2>5. requests' \in 0..MaxRequests
      BY <1>1, ConstantsAssumption DEF Act, TypeOK, ConstantsAssumption
    <2> QED BY <1>1, <2>3, <2>4, <2>5 DEF Act, TypeOK
  <1>2. CASE Retire
    <2>1. spec' \in Specs
      BY <1>2, RowFields DEF Retire, TypeOK, DESIRED_STATES
    <2>2. run' \in Runs
      BY <1>2, OvertakenType DEF Retire
    <2>3. requests' \in 0..MaxRequests
      BY <1>2, ConstantsAssumption DEF Retire, TypeOK, ConstantsAssumption
    <2> QED BY <1>2, <2>1, <2>2, <2>3 DEF Retire, TypeOK
  <1> QED BY <1>1, <1>2 DEF Service

\* The types hold when a runner is first described.
LEMMA InitTypes == Init => TypeOK
  <1> SUFFICES ASSUME Init PROVE TypeOK
    OBVIOUS
  <1>1. spec \in Specs
    BY NoReg DEF Init, Specs, STATES, DESIRED_STATES
  <1>2. world \in Worlds
    BY NoReg DEF Init, Worlds
  <1>3. faults \in 0..MaxFaults /\ requests \in 0..MaxRequests
    BY ConstantsAssumption DEF Init, ConstantsAssumption
  <1> QED BY <1>1, <1>2, <1>3, NoOpType, IdleType DEF Init, TypeOK

\* Every step keeps them.
LEMMA NextTypes ==
  ASSUME TypeOK, [Next]_vars
  PROVE  TypeOK'
  <1>1. CASE Next
    BY <1>1, ReconcileTypes, ServiceTypes, EnvironmentTypes DEF Next
  <1>2. CASE UNCHANGED vars
    BY <1>2 DEF vars, TypeOK
  <1> QED BY <1>1, <1>2

\* Every variable keeps its shape, and the budgets are never overspent, in
\* every behaviour of the lifecycle and for every value of its constants.
THEOREM TypeCorrect == Spec => []TypeOK
  BY InitTypes, NextTypes, PTL DEF Spec
=============================================================================
