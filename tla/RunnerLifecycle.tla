--------------------------- MODULE RunnerLifecycle ---------------------------
(***************************************************************************)
(* One runner, from `planned` to `absent`: the reconciler that walks it    *)
(* (dashboard/control/reconciler.py), the executor whose calls it makes    *)
(* (provision.py), the service that accepts requests for it meanwhile      *)
(* (service.py), and the world those calls act on - the unit on a worker,  *)
(* the records a forge holds, the job the unit may be running.             *)
(*                                                                         *)
(* One reconciler pass at a time reaches this runner.  It reads the row    *)
(* and its operation, decides a step, and takes it as a sequence of row    *)
(* writes, operation writes and remote calls; `run.pc` names the next of   *)
(* them.  Between any two the service may write the row, a job may start   *)
(* or end, the host may go down, and the controller itself may crash,      *)
(* which forgets `run` and nothing else.                                   *)
(*                                                                         *)
(*   spec   the runner's row: actual_state, desired_state, whether it has  *)
(*          a host and a unit handle, registration_id (0: none), whether   *)
(*          last_error is set, and whether the row is still listed         *)
(*   op     the operation current_operation names, or NoOp                 *)
(*   run    what the pass holds in local variables; `fresh` says that no   *)
(*          one else wrote the row since the pass last read it, which is   *)
(*          what the comparison on spec_version decides                    *)
(*   world  the unit, the registration it holds credentials for, the job   *)
(*          it runs, the records alive at the forge, whether the forge     *)
(*          still gives it jobs, and what the worker reports               *)
(***************************************************************************)
EXTENDS RunnerStates, Integers, FiniteSets

CONSTANTS
  Provider,     \* "github": drained at the forge. "forgejo": on its worker
  RegistersStopped, \* a unit can register while its listener is stopped
                \* (macOS), or only from within (a container, a service)
  DrainFirst,   \* the cache policy's on_clear is drain-first
  Verbs,        \* the verbs the service is asked for
  MaxRequests,  \* bound: requests accepted, a retirement included
  MaxFaults,    \* bound: crashes, failed or lost calls, wrong readings,
                \*        reboots and worker outages
  MaxRegs       \* bound: registrations the forge issues

ASSUME ConstantsAssumption ==
  /\ Provider \in {"github", "forgejo"}
  /\ RegistersStopped \in BOOLEAN
  /\ DrainFirst \in BOOLEAN
  /\ Verbs \subseteq VERBS
  /\ MaxRequests \in Nat
  /\ MaxFaults \in Nat
  /\ MaxRegs \in Nat \ {0}

VARIABLES spec, op, run, world, faults, requests

vars == <<spec, op, run, world, faults, requests>>

RegIds == 1..MaxRegs

\* What a forge can say of one record; "missing" is a list without it and
\* "unknown" a list that could not be read.
READINGS == {"idle", "busy", "offline", "missing", "unknown"}

\* The operation, as far as the walk reads it.  `started` is pending or
\* running, `tried` the progress key registration_attempted ("unset" until
\* the register step writes it), `held` rollback_held ("retry" when
\* rollback_retry_preflight is set with it).
NoOp == [verb |-> "none", open |-> FALSE, started |-> FALSE, done |-> {},
         tried |-> "unset", held |-> "no", overdue |-> FALSE]

Opened(verb) == [NoOp EXCEPT !.verb = verb, !.open = TRUE]

Operations ==
  [verb : VERBS \cup {"none"}, open : BOOLEAN, started : BOOLEAN,
   done : SUBSET {"stopped", "started", "rebuilding"},
   tried : {"unset", "no", "yes"}, held : {"no", "retry", "hard"},
   overdue : BOOLEAN]

Specs ==
  [actual : STATES, desired : DESIRED_STATES, placed : BOOLEAN,
   unitRef : BOOLEAN, reg : 0..MaxRegs, err : BOOLEAN, listed : BOOLEAN]

Worlds ==
  [unit : {"absent", "stopped", "running", "ending"}, cred : 0..MaxRegs,
   job : BOOLEAN, live : SUBSET RegIds, issued : 0..MaxRegs,
   gated : BOOLEAN, late : BOOLEAN, healthy : BOOLEAN]

\* The places a pass can be at between two writes or calls.
PCS ==
  {"rest", "decide", "look", "admit", "act", "place", "create", "void",
   "voided", "made", "still", "mint", "enroll", "enrolling", "record",
   "verify", "online", "undo", "undo_quiet", "undo_record", "undo_unit",
   "boot", "ungate", "booted", "advance", "halt", "halted", "gate", "sample",
   "hush", "prove", "proven", "unregister", "disown", "unregistered",
   "erase", "erased", "finish", "closing", "clear", "unpoint", "fail",
   "hold", "observed"}

\* provision.py: the flow's steps and what undoes the work up to each.
FLOW == {"place", "create_unit", "mint_token", "register", "verify_online"}

COMPENSATIONS ==
  [ place         |-> {},
    create_unit   |-> {"remove_unit"},
    mint_token    |-> {"remove_unit"},
    register      |-> {"deregister", "remove_unit"},
    verify_online |-> {"deregister", "remove_unit"} ]

IdleRun == [pc |-> "rest", fresh |-> TRUE, action |-> "none",
            verb |-> "none", desired |-> "running", after |-> "step",
            step |-> "place", reg |-> 0, tried |-> "no", undone |-> {},
            seen |-> "unknown", hold |-> "no", news |-> "idle"]

Runs ==
  [pc : PCS, fresh : BOOLEAN, action : STEPS \cup {"none"},
   verb : VERBS \cup {"none"}, desired : DESIRED_STATES,
   after : {"step", "quiesce", "rollback"}, step : FLOW, reg : 0..MaxRegs,
   tried : {"no", "yes", "blind"}, undone : SUBSET {"deregister", "remove_unit"},
   seen : READINGS, hold : {"no", "retry", "hard"},
   news : STATES]

-----------------------------------------------------------------------------
(* The world, and what the controller can read of it.                      *)

Up == world.unit \in {"running", "ending"}
Exists == world.unit # "absent"

\* What the forge would truthfully say of record `id`.
Truth(id) ==
  IF id \notin world.live THEN "missing"
  ELSE IF world.job /\ world.cred = id THEN "busy"
  ELSE IF Up /\ world.cred = id THEN "idle"
  ELSE "offline"

\* What it may say instead: nothing at all, a connection it has not yet
\* missed or that broke mid-job (GitHub keeps its busy flag then), a job it
\* has not yet seen end.
Mistaken(id) ==
  {"unknown"}
  \cup (IF Truth(id) = "offline" THEN {"idle"} ELSE {})
  \cup (IF Truth(id) = "idle" THEN {"offline", "busy"} ELSE {})
  \cup (IF Truth(id) = "busy" /\ Provider = "forgejo" THEN {"offline"}
        ELSE {})

Fault == faults < MaxFaults /\ faults' = faults + 1

Reads(id, seen) ==
  \/ seen = Truth(id) /\ UNCHANGED faults
  \/ seen \in Mistaken(id) /\ Fault

\* One reading serves a whole pass, so a job may have started since.
Glimpses(id, seen) ==
  \/ Reads(id, seen)
  \/ Truth(id) = "busy" /\ seen = "idle" /\ Fault

\* Mutant: silence read as proof that the unit has stopped.
QuiescentBySilence(quiet) ==
  \/ quiet = (~spec.placed \/ ~Up) /\ UNCHANGED faults
  \/ quiet = TRUE /\ spec.placed /\ Fault

\* agent.running, as quiescent asks it: a runner never placed has no unit,
\* and an agent that does not answer has proven nothing.
Quiescent(quiet) ==
  \/ quiet = (~spec.placed \/ ~Up) /\ UNCHANGED faults
  \/ quiet = FALSE /\ spec.placed /\ Fault

WorkerAccepts == ~spec.placed \/ world.healthy

\* The effects of the calls an executor makes.
Started == [world EXCEPT !.unit = "running"]
Stopped == [world EXCEPT !.unit = "stopped", !.job = FALSE,
                         !.late = @ /\ RegistersStopped]
Created == [world EXCEPT !.unit = "running", !.cred = 0]
Removed == [world EXCEPT !.unit = "absent", !.cred = 0, !.job = FALSE,
                         !.late = @ /\ RegistersStopped]
Gated(closed) == [world EXCEPT !.gated = closed]
Terminated == [world EXCEPT !.unit = "ending"]
Deleted(id) == [world EXCEPT !.live = @ \ {id},
                             !.job = @ /\ world.cred # id]
CanRegister == Exists /\ (Up \/ RegistersStopped)
Registered ==
  LET id == world.issued + 1
  IN [world EXCEPT !.issued = id, !.cred = IF Exists THEN id ELSE 0,
                   !.gated = FALSE, !.late = FALSE,
                   !.live = (IF Provider = "github" THEN {} ELSE @) \cup {id}]

-----------------------------------------------------------------------------
(* How a step of the pass ends.                                            *)

At(place) == run.pc = place
Go(place) == run' = [run EXCEPT !.pc = place]
Rest == run' = IdleRun

\* specs.update with the version the pass read: it lands only if nobody else
\* wrote the row since; StaleSpec otherwise, which ends the step.
Write(row, place) ==
  \/ run.fresh /\ spec' = row /\ Go(place)
  \/ ~run.fresh /\ Rest /\ UNCHANGED spec

WriteLast(row) == spec' = (IF run.fresh THEN row ELSE spec) /\ Rest

\* The same after a specs.get: the row is read again right before the write.
Rewrite(row, place) ==
  /\ spec' = row
  /\ run' = [run EXCEPT !.pc = place, !.fresh = TRUE]

Moved(to) ==
  [spec EXCEPT !.actual = to,
               !.err = IF to \in SERVING THEN FALSE ELSE @]

\* A remote call: it works, or it fails - with or without its effect.
Call(effect, place) ==
  \/ world' = effect /\ Go(place) /\ UNCHANGED faults
  \/ world' \in {world, effect} /\ Go("fail") /\ Fault

Attempted == [op EXCEPT !.started = @ \/ run.verb # "none"]
-----------------------------------------------------------------------------
(* The service: requests that arrive while the pass is anywhere.           *)

Overtaken == run' = IF At("rest") THEN run ELSE [run EXCEPT !.fresh = FALSE]

\* act: refused unless the machine allows the verb where the runner stands -
\* or a drain-first cache clear may wait for its job - and nothing is in
\* flight.  Opening the operation and pointing the row at it succeed together
\* or, when the row changed under the request, do nothing to this runner.
Accepts(verb) ==
  /\ ~op.open
  /\ ~AbortsAJob(verb, spec.actual)
  /\ \/ Allows(verb, spec.actual)
     \/ verb = "clear_cache" /\ DrainFirst /\ spec.actual \in AT_WORK

Act(verb) ==
  /\ spec.listed
  /\ requests < MaxRequests
  /\ Accepts(verb)
  /\ op' = Opened(verb)
  /\ spec' = [spec EXCEPT !.desired = DesiredBy(verb, @)]
  /\ Overtaken
  /\ requests' = requests + 1
  /\ UNCHANGED <<world, faults>>

\* retire, and a scale-down's victim: desired_state alone, whatever is in
\* flight.
Retire ==
  /\ spec.listed
  /\ spec.desired # "absent"
  /\ requests < MaxRequests
  /\ spec' = [spec EXCEPT !.desired = "absent"]
  /\ Overtaken
  /\ requests' = requests + 1
  /\ UNCHANGED <<op, world, faults>>

Service == (\E verb \in Verbs : Act(verb)) \/ Retire

-----------------------------------------------------------------------------
(* _step: what precedes the decision.                                      *)

Resting == At("rest") /\ spec.listed

ClosedPointer == op.verb # "none" /\ ~op.open

StrandedRow ==
  /\ ~op.open
  /\ spec.actual \in {"removing", "deregistering"}
  /\ spec.desired # "absent"

\* _close_if_fulfilled
FulfilledOrFailed ==
  /\ op.open
  /\ \/ spec.actual = "failed" /\ ~Allows(op.verb, "failed")
     \/ /\ op.verb = "restart"
        /\ "started" \in op.done
        /\ spec.actual \in SERVING
     \/ /\ op.verb = "recreate"
        /\ "rebuilding" \in op.done
        /\ spec.actual \in SERVING
     \/ Fulfilled(op.verb, spec.actual)

RollbackHeld ==
  op.open /\ op.held = "hard" /\ spec.actual = "provisioning"

MustPeek ==
  op.open /\ op.verb = "clear_cache" /\ spec.actual \in SERVING

\* An operation was closed and the controller stopped before the row's
\* pointer to it was cleared.
ForgetClosed ==
  /\ Resting /\ ClosedPointer
  /\ Go("unpoint")
  /\ UNCHANGED <<spec, op, world, faults, requests>>

\* Interrupted removal of a runner that is meant to stay: asked for again as
\* a recreate, which may be refused.
ResumeRecreate ==
  /\ Resting /\ ~ClosedPointer /\ StrandedRow /\ ~spec.err
  /\ \/ /\ op' = Opened("recreate")
        /\ spec' = [spec EXCEPT !.desired = "running"]
        /\ UNCHANGED <<run, faults>>
     \/ Fault /\ Go("fail") /\ UNCHANGED <<op, spec>>
  /\ UNCHANGED <<world, requests>>

\* _recreate_turn in a fleet of one: the replacement may be refused.
RefuseReplacement ==
  /\ Resting /\ op.open /\ op.verb = "recreate" /\ ~op.started
  /\ op' = [op EXCEPT !.open = FALSE]
  /\ Go("unpoint")
  /\ Fault
  /\ UNCHANGED <<spec, world, requests>>

CloseFulfilled ==
  /\ Resting /\ FulfilledOrFailed
  /\ op' = [op EXCEPT !.open = FALSE]
  /\ IF spec.actual # TERMINAL THEN Go("unpoint") ELSE Rest
  /\ UNCHANGED <<spec, world, faults, requests>>

\* _clear_operation: reads the row again and clears whatever it points at.
Unpoint ==
  /\ At("unpoint")
  /\ op' = NoOp
  /\ Rest
  /\ UNCHANGED <<spec, world, faults, requests>>

\* A cache clear looks afresh first: skipped unless the runner is seen idle,
\* or its policy drains it.
PeekBeforeClear ==
  /\ Resting /\ MustPeek /\ ~FulfilledOrFailed
  /\ \E seen \in READINGS :
       /\ Reads(spec.reg, seen)
       /\ spec' = IF seen \in SERVING THEN Moved(seen) ELSE spec
       /\ IF seen = "idle" \/ DrainFirst
          THEN Go("decide") /\ UNCHANGED op
          ELSE Go("unpoint") /\ op' = [op EXCEPT !.open = FALSE]
  /\ UNCHANGED <<world, requests>>

-----------------------------------------------------------------------------
(* _step: the decision, and the fences in front of the step it names.      *)

Verb == IF op.open THEN op.verb ELSE "none"

Decided ==
  Decide(spec.actual, spec.desired, Verb, op.done, spec.err, DrainFirst)

MayDecide ==
  \/ At("decide")
  \/ /\ Resting
     /\ ~ClosedPointer /\ ~StrandedRow /\ ~FulfilledOrFailed
     /\ ~RollbackHeld /\ ~MustPeek

DecideStep ==
  /\ MayDecide
  /\ Decided # "none"
  /\ ~AbortsAJob(Decided, spec.actual)
  /\ \E place \in {"look", "admit", "fail"} :
       /\ run' = [IdleRun EXCEPT !.pc = place, !.action = Decided,
                                 !.verb = Verb, !.desired = spec.desired,
                                 !.reg = spec.reg]
       /\ \/ /\ place = "fail"     \* the replacement preflight
             /\ Verb = "recreate" /\ Decided \in {"deregister", "remove"}
             /\ Fault
          \/ /\ place = (IF spec.actual = "drained" /\ Decided \in DESTRUCTIVE
                         THEN "look" ELSE "admit")
             /\ UNCHANGED faults
  /\ UNCHANGED <<spec, op, world, requests>>

\* A drained runner is looked at once more before it is ended.
LookAgain ==
  /\ At("look")
  /\ \E seen \in READINGS :
       /\ Glimpses(spec.reg, seen)
       /\ IF seen = "busy" /\ run.fresh
          THEN spec' = Moved("draining") /\ Rest
          ELSE /\ run' = [run EXCEPT !.pc = "admit", !.fresh = TRUE,
                                     !.desired = spec.desired]
               /\ UNCHANGED spec
  /\ UNCHANGED <<op, world, requests>>

\* The steps fenced by a proof that the unit has stopped.
\* Mutant: a cache clear trusted to the recorded state alone.
FencedWithoutClear == DESTRUCTIVE
FENCED == DESTRUCTIVE \cup {"clear_cache"}

\* Held for a worker that is not healthy; a unit that may still run is
\* drained again rather than ended.
Admit ==
  /\ At("admit")
  /\ IF run.action \in NEEDS_HEALTHY_WORKER /\ ~WorkerAccepts
     THEN Rest /\ UNCHANGED <<op, faults>>
     ELSE IF run.action \notin FENCED
     THEN Go("act") /\ UNCHANGED <<op, faults>>
     ELSE \E quiet \in BOOLEAN :
            /\ Quiescent(quiet)
            /\ IF quiet
               THEN Go("act") /\ UNCHANGED op
               ELSE /\ op' = Attempted
                    /\ run' = [run EXCEPT !.pc = "gate", !.after = "quiesce"]
  /\ UNCHANGED <<spec, world, requests>>
-----------------------------------------------------------------------------
(* _fail, and the two ways a step ends badly.                              *)

\* Where a failed step leaves the runner: `failed` where the machine has that
\* edge, and otherwise where it was.
\* Mutant: forced into `failed` from anywhere.
FailedAnywhere(actual) == "failed"
FailedFrom(actual) ==
  IF <<actual, "failed">> \in TRANSITIONS THEN "failed" ELSE actual

\* Mutant: a rollback believed to have undone whatever it was asked to.
UndoneIfAsked(action) == action \in COMPENSATIONS[run.step]
Undone(action) == action \in run.undone

\* The row is read again and written once: the error, the pointer cleared,
\* what the compensations undid forgotten, and where that leaves it.
Fail ==
  /\ At("fail")
  /\ spec' = [spec EXCEPT
       !.err = TRUE,
       !.unitRef = @ /\ ~Undone("remove_unit"),
       !.reg = IF Undone("deregister") THEN 0 ELSE @,
       !.actual = FailedFrom(@)]
  /\ op' = IF run.verb # "none" THEN NoOp ELSE op
  /\ Rest
  /\ UNCHANGED <<world, faults, requests>>

\* A rollback that could end a job or lose a registration is not run: the
\* operation stays open and says so.
Hold ==
  /\ At("hold")
  /\ spec' = [spec EXCEPT !.err = TRUE]
  /\ op' = IF run.verb # "none" THEN [op EXCEPT !.held = run.hold] ELSE op
  /\ Rest
  /\ UNCHANGED <<world, faults, requests>>

HoldBack(kind) == run' = [run EXCEPT !.pc = "hold", !.hold = kind]

UndoAfter(step) == run' = [run EXCEPT !.pc = "undo", !.step = step]

-----------------------------------------------------------------------------
(* provision: place, create_unit.                                          *)

Acting(step) == At("act") /\ run.action = step

\* A runner the fleet asked for has no operation yet and gets one.
OpenProvision ==
  /\ Acting("provision") /\ run.verb = "none"
  /\ IF run.fresh
     THEN /\ op' = Opened("provision")
          /\ run' = [run EXCEPT !.verb = "provision"]
     ELSE Rest /\ UNCHANGED op
  /\ UNCHANGED <<spec, world, faults, requests>>

\* One with nowhere to go waits in `planned`.
DoProvision ==
  /\ Acting("provision") /\ run.verb # "none"
  /\ IF spec.actual = "planned" /\ ~spec.placed /\ ~world.healthy
     THEN Rest /\ UNCHANGED <<op, spec>>
     ELSE /\ op' = Attempted
          /\ IF spec.actual = "planned"
             THEN Write(Moved("provisioning"), "place")
             ELSE Go("place") /\ UNCHANGED spec
  /\ UNCHANGED <<world, faults, requests>>

\* The chosen worker is recorded before anything is built on it.
Place ==
  /\ At("place")
  /\ IF spec.placed THEN Go("create") /\ UNCHANGED spec
     ELSE IF world.healthy THEN Rewrite([spec EXCEPT !.placed = TRUE], "create")
     ELSE UndoAfter("place") /\ UNCHANGED spec
  /\ UNCHANGED <<op, world, faults, requests>>

\* A unit by this runner's name is this runner's; one that is not provably
\* absent is never replaced, and one that is takes its registration with it.
CreateUnit ==
  /\ At("create")
  /\ \/ Fault /\ HoldBack("retry") /\ UNCHANGED world
     \/ Exists /\ Go("made") /\ UNCHANGED <<world, faults>>
     \/ ~Exists /\ spec.reg # 0 /\ Go("void") /\ UNCHANGED <<world, faults>>
     \/ /\ ~Exists /\ spec.reg = 0
        /\ \/ world' = Created /\ Go("made") /\ UNCHANGED faults
           \/ world' \in {world, Created} /\ UndoAfter("create_unit") /\ Fault
  /\ UNCHANGED <<spec, op, requests>>

\* _delete_record_instead: only a record the forge shows without a job, or
\* does not show at all, is deleted.
Idle(seen) == seen \in {"idle", "offline", "missing"}

VoidRegistration ==
  /\ At("void")
  /\ \E seen \in READINGS :
       /\ Reads(spec.reg, seen)
       /\ IF Idle(seen)
          THEN world' = Deleted(spec.reg) /\ Go("voided")
          ELSE HoldBack("retry") /\ UNCHANGED world
  /\ UNCHANGED <<spec, op, requests>>

ForgetVoided ==
  /\ At("voided")
  /\ Rewrite([spec EXCEPT !.reg = 0], "create")
  /\ UNCHANGED <<op, world, faults, requests>>

Provisioned ==
  /\ At("made")
  /\ spec' = [Moved("provisioned") EXCEPT !.unitRef = TRUE]
  /\ op' = IF run.verb # "none" THEN [op EXCEPT !.held = "no"] ELSE op
  /\ Rest
  /\ UNCHANGED <<world, faults, requests>>

-----------------------------------------------------------------------------
(* register: mint_token, register, verify_online.                          *)

DoRegister ==
  /\ Acting("register")
  /\ op' = Attempted
  /\ Write(Moved("registering"), "still")
  /\ UNCHANGED <<world, faults, requests>>

\* A registration the forge still holds is kept, its unit started if it was
\* stopped; a forge that cannot be asked fails the step with nothing undone.
StillRegistered ==
  /\ At("still")
  /\ op' = IF op.open /\ op.tried = "unset" THEN [op EXCEPT !.tried = "no"]
           ELSE op
  /\ \/ spec.reg = 0 /\ Go("mint") /\ UNCHANGED <<world, faults>>
     \/ /\ spec.reg # 0
        /\ \E seen \in READINGS :
             /\ Reads(spec.reg, seen)
             /\ CASE seen = "unknown" -> Go("fail") /\ UNCHANGED world
                  [] seen = "missing" ->
                       run' = [run EXCEPT !.pc = "mint", !.reg = 0]
                       /\ UNCHANGED world
                  [] OTHER ->
                       Go("verify")
                       /\ world' = IF world.unit = "stopped"
                                   THEN [Started EXCEPT !.gated = FALSE]
                                   ELSE world
     \/ /\ spec.reg # 0 /\ world.unit = "stopped"
        /\ world' \in {world, Started} /\ Go("fail") /\ Fault
  /\ UNCHANGED <<spec, requests>>

MintToken ==
  /\ At("mint")
  /\ \/ Go("enroll") /\ UNCHANGED faults
     \/ UndoAfter("mint_token") /\ Fault
  /\ UNCHANGED <<spec, op, world, requests>>

\* That a registration is about to be tried is recorded before it is.
RecordAttempt ==
  /\ At("enroll")
  /\ op' = IF op.open THEN [op EXCEPT !.tried = "yes"] ELSE op
  /\ run' = [run EXCEPT !.pc = "enrolling", !.tried = "yes"]
  /\ UNCHANGED <<spec, world, faults, requests>>

\* The unit registers.  The answer may be lost after it did, or the unit may
\* still be at it when the controller stops waiting.
Register ==
  /\ At("enrolling")
  /\ world.issued < MaxRegs
  /\ \/ /\ CanRegister
        /\ world' = Registered
        /\ run' = [run EXCEPT !.pc = "record", !.reg = world.issued + 1]
        /\ UNCHANGED faults
     \/ /\ CanRegister
        /\ world' \in {world, Registered, [world EXCEPT !.late = TRUE]}
        /\ UndoAfter("register")
        /\ Fault
     \/ ~CanRegister /\ UndoAfter("register") /\ UNCHANGED <<world, faults>>
  /\ UNCHANGED <<spec, op, requests>>

\* The forge's identifier is recorded before the wait to come online.
RecordRegistration ==
  /\ At("record")
  /\ Rewrite([spec EXCEPT !.reg = run.reg], "verify")
  /\ UNCHANGED <<op, world, faults, requests>>

\* Ready is the agent's word and the forge's together; the wait ends without
\* them at its deadline.
VerifyOnline ==
  /\ At("verify")
  /\ \/ Up /\ Truth(run.reg) \in SERVING /\ Go("online") /\ UNCHANGED faults
     \/ (~Up \/ Truth(run.reg) \notin SERVING)
        /\ UndoAfter("verify_online") /\ UNCHANGED faults
     \/ UndoAfter("verify_online") /\ Fault
  /\ UNCHANGED <<spec, op, world, requests>>

Online ==
  /\ At("online")
  /\ spec' = [Moved("idle") EXCEPT !.reg = run.reg]
  /\ Rest
  /\ UNCHANGED <<op, world, faults, requests>>
-----------------------------------------------------------------------------
(* _undo: prove the rollback safe, then deregister, then remove the unit.  *)

Undoes(action) == action \in COMPENSATIONS[run.step]

\* _proven_unregistered, once it is not too early to tell: no registration can
\* still be under way and the forge lists no runner of this name.
\* Mutant: the wait alone taken for proof.
ProvenByWaiting == ~world.late
ProvenUnregistered == ~world.late /\ world.live = {}

\* Without a registration, one that was tried must be proven never to have
\* reached the forge: settled, and no record of this name listed.  With one,
\* the forge must not show it at work.
RollbackPreflight ==
  /\ At("undo")
  /\ IF COMPENSATIONS[run.step] = {}
     THEN Go("fail") /\ UNCHANGED faults
     ELSE IF run.reg # 0
     THEN \E seen \in READINGS :
            /\ Reads(run.reg, seen)
            /\ IF Idle(seen)
               THEN run' = [run EXCEPT !.pc = "undo_quiet", !.seen = seen]
               ELSE HoldBack("hard")
     ELSE IF run.tried = "no"
     THEN Go("undo_quiet") /\ UNCHANGED faults
     ELSE \/ /\ run.tried = "yes" /\ ProvenUnregistered
             /\ Go("undo_record") /\ UNCHANGED faults
          \/ /\ \/ run.tried = "blind"
                \/ ~ProvenUnregistered
                \/ run.action = "register"      \* too early to tell
             /\ HoldBack("hard") /\ UNCHANGED faults
          \/ Fault /\ HoldBack("hard")
  /\ UNCHANGED <<spec, op, world, requests>>

\* The worker must prove the unit stopped; an idle one is drained first.
RollbackQuiet ==
  /\ At("undo_quiet")
  /\ \E quiet \in BOOLEAN :
       /\ Quiescent(quiet)
       /\ IF quiet THEN Go("undo_record")
          ELSE IF run.reg # 0 /\ run.seen = "idle"
          THEN run' = [run EXCEPT !.pc = "gate", !.after = "rollback"]
          ELSE HoldBack("hard")
  /\ UNCHANGED <<spec, op, world, requests>>

UndoRecord ==
  /\ At("undo_record")
  /\ IF Undoes("deregister") /\ run.reg # 0
     THEN run' = [run EXCEPT !.pc = "unregister", !.after = "rollback"]
     ELSE run' = [run EXCEPT !.pc = "undo_unit",
                    !.undone = IF Undoes("deregister") THEN {"deregister"}
                               ELSE {}]
  /\ UNCHANGED <<spec, op, world, faults, requests>>

UndoUnit ==
  /\ At("undo_unit")
  /\ \/ /\ world' = Removed
        /\ run' = [run EXCEPT !.pc = "fail", !.undone = @ \cup {"remove_unit"}]
        /\ UNCHANGED faults
     \/ world' \in {world, Removed} /\ Go("fail") /\ Fault
  /\ UNCHANGED <<spec, op, requests>>

\* The sweep: a creation past its deadline is looked at afresh and, unless it
\* has come online meanwhile, undone from what the row recorded.
CREATING == {"provisioning", "registering"}

Sweep ==
  /\ Resting /\ op.open /\ op.overdue /\ spec.actual \in CREATING
  /\ ~(spec.actual = "provisioning" /\ op.held = "retry")
  /\ WorkerAccepts
  /\ \E seen \in READINGS :
       /\ IF spec.actual = "registering" THEN Reads(spec.reg, seen)
          ELSE seen = "unknown" /\ UNCHANGED faults
       /\ IF seen \in SERVING /\ spec.reg # 0 /\ Up
          THEN spec' = Moved("idle") /\ UNCHANGED run
          ELSE /\ run' = [IdleRun EXCEPT
                    !.pc = "undo", !.verb = op.verb, !.step = "verify_online",
                    !.reg = spec.reg,
                    !.tried = IF op.tried # "unset" THEN op.tried
                              ELSE IF spec.actual = "registering" THEN "blind"
                              ELSE "no"]
               /\ UNCHANGED spec
  /\ UNCHANGED <<op, world, requests>>

-----------------------------------------------------------------------------
(* start and cancel_drain: the unit up, and the forge giving it jobs.      *)

DoStart ==
  /\ Acting("start")
  /\ op' = Attempted
  /\ IF spec.actual # "starting" THEN Write(Moved("starting"), "boot")
     ELSE Go("boot") /\ UNCHANGED spec
  /\ UNCHANGED <<world, faults, requests>>

DoCancelDrain ==
  /\ Acting("cancel_drain")
  /\ op' = Attempted
  /\ Go("boot")
  /\ UNCHANGED <<spec, world, faults, requests>>

Boot ==
  /\ At("boot")
  /\ \/ Exists /\ Call(Started, IF Provider = "github" THEN "ungate"
                                ELSE "booted")
     \/ ~Exists /\ Go("fail") /\ UNCHANGED <<world, faults>>
  /\ UNCHANGED <<spec, op, requests>>

Ungate ==
  /\ At("ungate")
  /\ \/ run.reg \in world.live /\ Call(Gated(FALSE), "booted")
     \/ run.reg \notin world.live /\ Go("fail") /\ UNCHANGED <<world, faults>>
  /\ UNCHANGED <<spec, op, requests>>

Booted ==
  /\ At("booted")
  /\ IF run.action = "start" THEN Write(Moved("idle"), "advance")
     ELSE WriteLast(Moved("idle"))
  /\ UNCHANGED <<op, world, faults, requests>>

\* What the operation has got done, written after the row has moved.
Phase == CASE run.action = "start" -> "started"
           [] run.action = "stop"  -> "stopped"
           [] OTHER                -> "rebuilding"

Advance ==
  /\ At("advance")
  /\ op' = IF run.verb # "none" THEN [op EXCEPT !.done = @ \cup {Phase}]
           ELSE op
  /\ Rest
  /\ UNCHANGED <<spec, world, faults, requests>>

-----------------------------------------------------------------------------
(* stop and drain.                                                         *)

DoStop ==
  /\ Acting("stop")
  /\ op' = Attempted
  /\ IF spec.actual # "stopping" THEN Write(Moved("stopping"), "halt")
     ELSE Go("halt") /\ UNCHANGED spec
  /\ UNCHANGED <<world, faults, requests>>

Halt ==
  /\ At("halt")
  /\ \/ Exists /\ Call(Stopped, "halted")
     \/ ~Exists /\ Go("fail") /\ UNCHANGED <<world, faults>>
  /\ UNCHANGED <<spec, op, requests>>

Halted ==
  /\ At("halted")
  /\ Write(Moved("stopped"), "advance")
  /\ UNCHANGED <<op, world, faults, requests>>

DoDrain ==
  /\ Acting("drain")
  /\ IF spec.actual # "draining"
     THEN op' = Attempted /\ Write(Moved("draining"), "gate")
     ELSE Go("gate") /\ UNCHANGED <<op, spec>>
  /\ UNCHANGED <<world, faults, requests>>

\* A drain that raises fails its step; in a rollback it holds it.
DrainRaises ==
  IF run.after = "rollback" THEN HoldBack("hard") ELSE Go("fail")

\* GitHub is told to give the runner no more jobs, and confirms it; a Forgejo
\* runner is told on its worker, finishes its job and exits.
CloseGate ==
  /\ At("gate")
  /\ LET able   == IF Provider = "github" THEN run.reg \in world.live
                   ELSE Exists
         effect == IF Provider = "github" THEN Gated(TRUE)
                   ELSE IF Up THEN Terminated ELSE world
     IN \/ able /\ world' = effect /\ Go("sample") /\ UNCHANGED faults
        \/ able /\ world' \in {world, effect} /\ DrainRaises /\ Fault
        \/ ~able /\ DrainRaises /\ UNCHANGED <<world, faults>>
  /\ UNCHANGED <<spec, op, requests>>

\* Idle is sampled after the gate has closed; only then may the listener be
\* stopped.
Sample ==
  /\ At("sample")
  /\ \E seen \in READINGS :
       /\ Reads(run.reg, seen)
       /\ run' = [run EXCEPT !.seen = seen,
                    !.pc = IF Provider = "github" /\ seen = "idle"
                           THEN "hush" ELSE "prove"]
  /\ UNCHANGED <<spec, op, world, requests>>

Hush ==
  /\ At("hush")
  /\ \/ Exists /\ world' = Stopped /\ Go("prove") /\ UNCHANGED faults
     \/ Exists /\ world' \in {world, Stopped} /\ DrainRaises /\ Fault
     \/ ~Exists /\ DrainRaises /\ UNCHANGED <<world, faults>>
  /\ UNCHANGED <<spec, op, requests>>

\* _drained: the forge shows no job and the process has gone.
Prove ==
  /\ At("prove")
  /\ \E gone \in BOOLEAN :
       /\ Quiescent(gone)
       /\ LET done == run.seen \in {"idle", "offline"} /\ gone
          IN CASE run.after = "step"     -> IF done THEN Go("proven") ELSE Rest
               [] run.after = "quiesce"  -> Rest
               [] run.after = "rollback" ->
                    IF done THEN run' = [run EXCEPT !.pc = "undo_quiet",
                                                    !.seen = "offline"]
                    ELSE HoldBack("hard")
  /\ UNCHANGED <<spec, op, world, requests>>

Proven ==
  /\ At("proven")
  /\ WriteLast(Moved("drained"))
  /\ UNCHANGED <<op, world, faults, requests>>
-----------------------------------------------------------------------------
(* deregister, and the removal of the unit.                                *)

\* Mutant: the row moved only once the record is gone.
DeregisterBeforeMoving ==
  /\ Acting("deregister")
  /\ op' = Attempted
  /\ Go("unregister")
  /\ UNCHANGED <<spec, world, faults, requests>>

DoDeregister ==
  /\ Acting("deregister")
  /\ op' = Attempted
  /\ IF spec.actual # "deregistering"
     THEN Write(Moved("deregistering"), "unregister")
     ELSE Go("unregister") /\ UNCHANGED spec
  /\ UNCHANGED <<world, faults, requests>>

Deregistered ==
  IF run.after = "rollback"
  THEN run' = [run EXCEPT !.pc = "undo_unit", !.undone = {"deregister"}]
  ELSE Go("unregistered")

\* A Forgejo record is deleted through the API.  A GitHub runner is asked to
\* remove itself, which no unit holds a credential for - and one that is up
\* but not registered says that there is nothing to remove.
Unregister ==
  /\ At("unregister")
  /\ \/ /\ Provider = "github"
        /\ IF Up /\ world.cred = 0 THEN Deregistered ELSE Go("disown")
        /\ UNCHANGED <<world, faults>>
     \/ /\ Provider = "forgejo" /\ run.reg # 0
        /\ \/ world' = Deleted(run.reg) /\ Deregistered /\ UNCHANGED faults
           \/ world' \in {world, Deleted(run.reg)} /\ Go("fail") /\ Fault
     \/ /\ Provider = "forgejo" /\ run.reg = 0
        /\ Go("fail") /\ UNCHANGED <<world, faults>>
  /\ UNCHANGED <<spec, op, requests>>

\* _delete_record_instead
DeleteRecordInstead ==
  /\ At("disown")
  /\ \/ run.reg = 0 /\ Go("fail") /\ UNCHANGED <<world, faults>>
     \/ /\ run.reg # 0
        /\ \E seen \in READINGS :
             /\ Reads(run.reg, seen)
             /\ IF Idle(seen) THEN world' = Deleted(run.reg) /\ Deregistered
                ELSE Go("fail") /\ UNCHANGED world
     \/ /\ run.reg # 0
        /\ world' \in {world, IF Truth(run.reg) # "busy" THEN Deleted(run.reg)
                              ELSE world}
        /\ Go("fail") /\ Fault
  /\ UNCHANGED <<spec, op, requests>>

\* The record is gone, so the row stops naming it.
Unregistered ==
  /\ At("unregistered")
  /\ IF run.action = "deregister"
     THEN WriteLast([Moved("removing") EXCEPT !.reg = 0])
     ELSE Write([spec EXCEPT !.reg = 0], "act")
  /\ UNCHANGED <<op, world, faults, requests>>

RecordLeft == spec.reg # 0

\* Still registered: the record goes first, before the runner even moves.
DoRemove ==
  /\ Acting("remove")
  /\ \/ /\ RecordLeft
        /\ op' = Attempted /\ Go("unregister") /\ UNCHANGED spec
     \/ /\ ~RecordLeft /\ spec.actual = "failed"
        /\ Write(Moved("removing"), "act") /\ UNCHANGED op
     \/ /\ ~RecordLeft /\ spec.actual # "failed"
        /\ op' = Attempted /\ Go("erase") /\ UNCHANGED spec
  /\ UNCHANGED <<world, faults, requests>>

Erase ==
  /\ At("erase")
  /\ IF spec.placed THEN Call(Removed, "erased")
     ELSE Go("erased") /\ UNCHANGED <<world, faults>>
  /\ UNCHANGED <<spec, op, requests>>

\* A runner that is meant to stay is built again; the desired state the step
\* began with says which.  The replacement may no longer fit.
Erased ==
  /\ At("erased")
  /\ IF run.desired # "absent"
     THEN \/ /\ Rewrite([Moved("provisioning") EXCEPT !.unitRef = FALSE,
                                                      !.reg = 0], "advance")
             /\ UNCHANGED faults
          \/ Fault /\ Go("fail") /\ UNCHANGED spec
     ELSE Write(Moved("absent"), "finish") /\ UNCHANGED faults
  /\ UNCHANGED <<op, world, requests>>

DoWithdraw ==
  /\ Acting("withdraw")
  /\ Write(Moved("absent"), "finish")
  /\ UNCHANGED <<op, world, faults, requests>>

\* _finish: soft-deleted first, the operation closed after.
SoftDelete ==
  /\ At("finish")
  /\ spec' = [spec EXCEPT !.listed = FALSE]
  /\ Go("closing")
  /\ UNCHANGED <<op, world, faults, requests>>

CloseFinished ==
  /\ At("closing")
  /\ op' = IF run.verb # "none" THEN [op EXCEPT !.open = FALSE] ELSE op
  /\ Rest
  /\ UNCHANGED <<spec, world, faults, requests>>

-----------------------------------------------------------------------------
(* repair, clear_cache, observe.                                           *)

DoRepair ==
  /\ Acting("repair")
  /\ op' = Attempted
  /\ WriteLast([Moved("provisioning") EXCEPT !.err = FALSE])
  /\ UNCHANGED <<world, faults, requests>>

\* What the pass read the row to be; a signed event may have come since.
ReadAs == IF spec.actual \in SERVING THEN SERVING ELSE {spec.actual}

\* Guarded once more: a runner that is neither idle nor drained is not
\* cleared and the request fails.
DoClearCache ==
  /\ Acting("clear_cache")
  /\ \E was \in ReadAs :
       IF was \in FROM_STATES["clear_cache"]
       THEN op' = Attempted /\ Go("clear")
       ELSE op' = [op EXCEPT !.open = FALSE] /\ Go("unpoint")
  /\ UNCHANGED <<spec, world, faults, requests>>

\* The clear itself; it closes the operation whether it worked or not.
ClearCache ==
  /\ At("clear")
  /\ op' = [op EXCEPT !.open = FALSE]
  /\ Go("unpoint")
  /\ UNCHANGED <<spec, world, faults, requests>>

\* observe: what a reading of the forge says of the machine, or "none".
News(seen) ==
  CASE spec.actual = "registering" ->
         IF spec.reg # 0 /\ seen \in SERVING /\ Up THEN "idle" ELSE "none"
    [] spec.actual = "drained" -> IF seen = "busy" THEN "draining" ELSE "none"
    [] spec.actual \in SERVING ->
         IF /\ seen = "offline" /\ spec.desired = "running"
            /\ op.verb = "none" /\ WorkerAccepts
            /\ world.unit = "stopped" /\ Truth(spec.reg) = "offline"
         THEN "stopped"
         ELSE IF seen \in SERVING THEN seen ELSE "none"
    [] OTHER -> "none"

DoObserve ==
  /\ Acting("observe")
  /\ \E seen \in READINGS :
       /\ Glimpses(spec.reg, seen)
       /\ IF <<spec.actual, News(seen)>> \in OBSERVED
          THEN run' = [run EXCEPT !.pc = "observed", !.news = News(seen)]
          ELSE Rest
  /\ UNCHANGED <<spec, op, world, requests>>

\* update_observed: lands only on the row the reading was taken for.
RecordObservation ==
  /\ At("observed")
  /\ WriteLast(Moved(run.news))
  /\ UNCHANGED <<op, world, faults, requests>>

-----------------------------------------------------------------------------
(* Everything that is not the controller's doing.                          *)

Untouched == UNCHANGED <<spec, op, run, requests>>

\* What the unit was told to do goes on without the controller.
Crash ==
  /\ ~At("rest")
  /\ Rest /\ Fault
  /\ world' \in {world} \cup (IF At("enrolling") /\ CanRegister
                             THEN {[world EXCEPT !.late = TRUE]} ELSE {})
  /\ UNCHANGED <<spec, op, requests>>

DeadlinePasses ==
  /\ op.open /\ ~op.overdue /\ spec.actual \in CREATING
  /\ op' = [op EXCEPT !.overdue = TRUE]
  /\ UNCHANGED <<spec, run, world, faults, requests>>

\* A signed event of the forge says that a job started or finished.  It is
\* written to a row that is idle or busy outside its version, so that no pass
\* is overtaken by it; an observation taken before it is no longer recorded.
SignedEvent ==
  /\ spec.actual \in SERVING
  /\ \E said \in SERVING \ {spec.actual} :
       /\ spec' = [spec EXCEPT !.actual = said]
       /\ IF said = Truth(spec.reg) THEN UNCHANGED faults ELSE Fault
  /\ run' = IF At("observed") THEN [run EXCEPT !.fresh = FALSE] ELSE run
  /\ UNCHANGED <<op, world, requests>>

JobStarts ==
  /\ world.unit = "running" /\ ~world.job
  /\ world.cred \in world.live
  /\ ~(Provider = "github" /\ world.gated)
  /\ world' = [world EXCEPT !.job = TRUE]
  /\ Untouched /\ UNCHANGED faults

JobEnds ==
  /\ world.job
  /\ world' = [world EXCEPT !.job = FALSE]
  /\ Untouched /\ UNCHANGED faults

\* A runner told to finish exits when it has no job left.
UnitExits ==
  /\ world.unit = "ending" /\ ~world.job
  /\ world' = Stopped
  /\ Untouched /\ UNCHANGED faults

\* Whether a unit that was up comes back with its host is its restart policy,
\* which a drain on the worker takes off.
HostReboots ==
  /\ Up /\ Fault
  /\ \E unit \in {"stopped", "running"} :
       /\ unit = "running" => world.unit = "running"
       /\ world' = [world EXCEPT !.unit = unit, !.job = FALSE, !.late = FALSE]
  /\ Untouched

WorkerDegrades ==
  /\ world.healthy /\ Fault
  /\ world' = [world EXCEPT !.healthy = FALSE]
  /\ Untouched

WorkerRecovers ==
  /\ ~world.healthy
  /\ world' = [world EXCEPT !.healthy = TRUE]
  /\ Untouched /\ UNCHANGED faults

\* A registration the controller stopped waiting for completes, or does not.
LateRegistration ==
  /\ world.late
  /\ \/ /\ Up \/ RegistersStopped
        /\ world.issued < MaxRegs
        /\ world' = Registered
     \/ world' = [world EXCEPT !.late = FALSE]
  /\ Untouched /\ UNCHANGED faults

-----------------------------------------------------------------------------

Init ==
  /\ spec = [actual |-> "planned", desired |-> "running", placed |-> FALSE,
             unitRef |-> FALSE, reg |-> 0, err |-> FALSE, listed |-> TRUE]
  /\ op = NoOp
  /\ run = IdleRun
  /\ world = [unit |-> "absent", cred |-> 0, job |-> FALSE, live |-> {},
              issued |-> 0, gated |-> FALSE, late |-> FALSE, healthy |-> TRUE]
  /\ faults = 0
  /\ requests = 0

Reconcile ==
  \/ ForgetClosed \/ ResumeRecreate \/ RefuseReplacement \/ CloseFulfilled
  \/ Unpoint \/ PeekBeforeClear \/ DecideStep \/ LookAgain \/ Admit
  \/ Fail \/ Hold
  \/ OpenProvision \/ DoProvision \/ Place \/ CreateUnit
  \/ VoidRegistration \/ ForgetVoided \/ Provisioned
  \/ DoRegister \/ StillRegistered \/ MintToken \/ RecordAttempt
  \/ Register \/ RecordRegistration \/ VerifyOnline \/ Online
  \/ RollbackPreflight \/ RollbackQuiet \/ UndoRecord \/ UndoUnit \/ Sweep
  \/ DoStart \/ DoCancelDrain \/ Boot \/ Ungate \/ Booted \/ Advance
  \/ DoStop \/ Halt \/ Halted
  \/ DoDrain \/ CloseGate \/ Sample \/ Hush \/ Prove \/ Proven
  \/ DoDeregister \/ Unregister \/ DeleteRecordInstead \/ Unregistered
  \/ DoRemove \/ Erase \/ Erased \/ DoWithdraw \/ SoftDelete
  \/ CloseFinished
  \/ DoRepair \/ DoClearCache \/ ClearCache
  \/ DoObserve \/ RecordObservation

Environment ==
  \/ Crash \/ DeadlinePasses
  \/ SignedEvent \/ JobStarts \/ JobEnds \/ UnitExits \/ HostReboots
  \/ WorkerDegrades \/ WorkerRecovers \/ LateRegistration

Next == Reconcile \/ Service \/ Environment

Spec == Init /\ [][Next]_vars

\* A pass is never skipped for ever and sweeps before it steps; a job, a
\* shutdown, an outage and a registration all come to an end.
Fairness ==
  /\ WF_vars(Reconcile) /\ SF_vars(Sweep)
  /\ WF_vars(DeadlinePasses)
  /\ WF_vars(JobEnds) /\ WF_vars(UnitExits)
  /\ WF_vars(WorkerRecovers) /\ WF_vars(LateRegistration)

FairSpec == Spec /\ Fairness

-----------------------------------------------------------------------------
(* Properties.                                                             *)

\* Every variable keeps its shape, the two budgets included.
TypeOK ==
  /\ spec \in Specs
  /\ op \in Operations
  /\ run \in Runs
  /\ world \in Worlds
  /\ faults \in 0..MaxFaults
  /\ requests \in 0..MaxRequests

\* No step of the controller ends a job: a stop, a removal, a deregistration,
\* a record deleted at the forge or a rollback only ever reaches a runner that
\* has none, whatever the controller last saw and whatever was lost since
\* (reconciler.py _step: the lock, the second look and the quiescence fence;
\* provision.py _rollback_preflight, drain, _delete_record_instead).
NeverAbortsAJob ==
  [][ world.job /\ ~world'.job => JobEnds \/ HostReboots ]_vars

\* The row only ever moves along the edges of states.py, whoever writes it:
\* a step, a failure, the sweep, an observation (reconciler.py _move, _fail).
OnlyLegalMoves ==
  [][ spec'.actual # spec.actual
        => <<spec.actual, spec'.actual>> \in TRANSITIONS ]_vars

\* A runner that is recorded as gone has left nothing behind, neither a unit
\* on its worker nor a record at the forge, through every failed, lost or
\* repeated call of its creation and removal (_do_remove, _undo, _fail).
NothingLeftBehind ==
  spec.actual = "absent" => ~Exists /\ world.live = {}

\* When a cache is cleared the runner's process has stopped
\* (reconciler.py _step: quiescent in front of clear_cache).
ClearedAtRest == At("clear") => ~Up

\* A runner recorded as serving names a registration the forge still holds: a
\* removal that began is never abandoned back into service
\* (_do_deregister moves the row before the record goes; _do_register).
ServesItsRecord == spec.actual \in SERVING => spec.reg \in world.live

\* The forge never holds two records for one runner, whatever replies to a
\* registration were lost (provision.py _proven_unregistered, register).
OneRecord == Cardinality(world.live) <= 1

\* The row of a serving runner names a record the forge holds, and there is no
\* other (reconciler.py _do_register, _do_deregister).
RecordIsItsOwn == ServesItsRecord /\ OneRecord

\* A runner meant to go is removed, unless a step of its removal reported an
\* error or it was asked back into service (reconciler.py decide: the
\* interrupted and stranded blocks).
RemovalEnds ==
  spec.desired = "absent" ~>
    (spec.actual = "absent" \/ spec.err \/ spec.desired # "absent")

\* A request is answered: its operation is closed, or its runner shows an
\* error, or has gone (operations.py: a crash is recoverable).
RequestsEnd == op.open ~> (~op.open \/ spec.err \/ spec.actual = "absent")

=============================================================================
