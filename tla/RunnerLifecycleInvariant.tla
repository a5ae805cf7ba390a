---------------------- MODULE RunnerLifecycleInvariant ----------------------
(***************************************************************************)
(* Why no step of the controller ends a job, as an inductive invariant of  *)
(* RunnerLifecycle.  Each conjunct names one fact the code relies on and   *)
(* keeps true between any two writes or calls of a pass; RunnerLifecycle-  *)
(* Proofs proves that every action keeps them all.                         *)
(***************************************************************************)
EXTENDS RunnerLifecycle

\* The identifiers anything refers to have been issued.
OnlyIssued ==
  /\ world.live \subseteq 1..world.issued
  /\ spec.reg <= world.issued
  /\ run.reg <= world.issued

\* GitHub replaces a record by name: there is never a second.
ReplacedByName ==
  Provider = "github" => \A a, b \in world.live : a = b

\* A job runs in a unit that is up and on a registration that is alive.
JobHasItsRunner ==
  world.job => Up /\ world.cred \in world.live

\* A unit exists, or is being created, only where the runner was placed: a
\* runner with no worker can be ended without asking one.
PlacedFirst ==
  Exists \/ At("create") \/ At("void") \/ At("voided") => spec.placed

\* The registration of a unit is voided when the unit is gone.
VoidsWhatIsGone ==
  At("void") \/ At("voided") => ~Exists

\* Past the proof of quiescence nothing starts the unit again.
PastTheFence ==
  \/ At("act") /\ run.action \in FENCED
  \/ At("halt") \/ At("unregister") \/ At("disown") \/ At("unregistered")
  \/ At("erase") \/ At("clear")
StoppedPastTheFence == PastTheFence => ~Up

\* A rollback that goes on has a unit that stopped, or one that no record of
\* the forge stands for and none will.
RollbackIsSafe ==
  /\ At("undo_record") \/ At("undo_unit") =>
       ~Up \/ (world.live = {} /\ ~world.late)
  /\ At("undo_record") /\ run.reg # 0 => ~Up

\* From the closed gate to the stop, GitHub holds the record and gives it no
\* job; once it was seen idle, it has none.
GateHolds ==
  /\ At("hush") => Provider = "github" /\ ~world.job
  /\ (At("sample") /\ Provider = "github") \/ At("hush") =>
       world.gated /\ run.reg \in world.live

\* While a registration is, or may be, under way unseen, the record that the
\* row and the pass name is not at the forge.
NamesNoLiveRecord == spec.reg \notin world.live /\ run.reg \notin world.live
UnseenIsUnnamed ==
  world.late \/ At("mint") \/ At("enroll") \/ At("enrolling")
    => NamesNoLiveRecord

\* A step that has yet to act on the registration works on the row's.
UsesTheRow ==
  \/ At("look") \/ At("admit") \/ At("still")
  \/ At("act") /\ run.action # "remove"
WorksOnTheRow == UsesTheRow => run.reg = spec.reg

\* A registration is only taken off outside a rollback to end the runner.
TakesOff ==
  \/ At("unregistered")
  \/ (At("unregister") \/ At("disown")) /\ run.after # "rollback"
EndsTheRunner == TakesOff => run.action \in {"deregister", "remove"}

Safe ==
  /\ OnlyIssued /\ ReplacedByName /\ JobHasItsRunner
  /\ PlacedFirst /\ VoidsWhatIsGone
  /\ StoppedPastTheFence /\ RollbackIsSafe /\ GateHolds
  /\ UnseenIsUnnamed /\ WorksOnTheRow /\ EndsTheRunner

IInv == TypeOK /\ Safe

-----------------------------------------------------------------------------
(* Why the row only moves along the edges of the machine: between the      *)
(* decision and the end of a step nobody else moves it, but for a signed   *)
(* event, which moves it between idle and busy.                            *)

\* Where a runner can be when a step is taken that `decide` names.
BEFORE ==
  [ provision    |-> {"planned", "provisioning"},
    register     |-> {"provisioned"},
    start        |-> {"stopped", "starting"},
    stop         |-> {"drained", "stopping"},
    drain        |-> {"idle", "busy", "draining"},
    cancel_drain |-> {"drained"},
    withdraw     |-> {"planned"},
    deregister   |-> {"drained", "stopped", "deregistering"},
    remove       |-> {"removing", "failed"},
    repair       |-> {"failed"},
    clear_cache  |-> STATES,
    observe      |-> STATES ]

\* Where the row says the runner is at each place of the pass `r`.
StandsAt(r, actual) ==
  /\ r.pc = "look" => actual = "drained"
  /\ r.pc \in {"look", "admit", "act"} => r.action \in STEPS /\ actual \in BEFORE[r.action]
  /\ r.pc \in {"place", "create", "void", "voided", "made"} => actual = "provisioning"
  /\ r.pc \in {"still", "mint", "enroll", "enrolling", "record", "verify", "online"} =>
       actual = "registering"
  /\ r.pc \in {"boot", "ungate", "booted"} =>
       \/ r.action = "start" /\ actual = "starting"
       \/ r.action = "cancel_drain" /\ actual = "drained"
  /\ r.pc \in {"halt", "halted"} => actual = "stopping"
  /\ r.pc \in {"gate", "sample", "hush", "prove"} /\ r.after = "step" => actual = "draining"
  /\ r.pc = "proven" => actual = "draining"
  /\ r.pc \in {"unregister", "disown", "unregistered"} =>
       \/ r.after = "rollback" /\ r.pc # "unregistered"
       \/ r.action = "deregister" /\ actual = "deregistering"
       \/ r.action = "remove" /\ actual \in {"removing", "failed"}
  /\ r.pc \in {"erase", "erased"} => actual = "removing"
  /\ r.pc = "observed" /\ r.fresh => <<actual, r.news>> \in TRANSITIONS

Standing == StandsAt(run, spec.actual)

-----------------------------------------------------------------------------
(* Why a runner that serves is registered.                                 *)

\* From its registration to its deregistration: a runner in these states has one.
KEPT == {"idle", "busy", "draining", "drained", "stopping", "stopped", "starting"}

\* Only a creation is rolled back, and only a rollback has undone anything.
UndoesAt(r, actual) ==
  /\ r.undone # {} => r.pc \in {"undo_unit", "fail"} /\ actual \in CREATING
  /\ r.pc \in {"undo", "undo_quiet", "undo_record", "undo_unit"} => actual \in CREATING
  /\ r.pc \in {"gate", "sample", "hush", "prove", "unregister", "disown"}
     /\ r.after = "rollback" => actual \in CREATING
  /\ r.pc \in {"look", "admit", "act", "unregistered"} => r.after # "rollback"

UndoesCreations == UndoesAt(run, spec.actual)

\* What is written when a runner comes to serve was read of a record that is still there.
KeepsItsRecord ==
  /\ spec.actual \in KEPT => spec.reg \in world.live
  /\ At("online") => run.reg \in world.live
  /\ At("observed") /\ run.fresh /\ spec.actual = "registering" => spec.reg \in world.live
=============================================================================
