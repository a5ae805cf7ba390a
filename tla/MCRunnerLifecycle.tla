-------------------------- MODULE MCRunnerLifecycle --------------------------
(***************************************************************************)
(* Instances of RunnerLifecycle for TLC, and what the code's own text says *)
(* of the lifecycle that an instance refutes.  Each of the claims at the   *)
(* end is checked by a run of its own, with the smallest budget of faults  *)
(* and requests that shows it.                                             *)
(***************************************************************************)
EXTENDS RunnerLifecycleInvariant

AllVerbs == VERBS
AllButRestart == VERBS \ {"restart"}
OnlyRestart == {"restart"}
OnlyRemove == {"remove"}
DrainOrRestart == {"drain", "restart"}
OnlyCancelDrain == {"cancel_drain"}
OnlyRepair == {"repair"}

-----------------------------------------------------------------------------

\* "The reconciler picks the operation up" (service.py, act): a request that
\* was accepted is not dropped from the row of a runner that is still there
\* and shows no error.
AcceptedIsPickedUp ==
  [][ op.open /\ op' = NoOp => spec'.err \/ spec'.actual = "absent" ]_vars

\* "A crash is recoverable" (operations.py): a restart comes to an end.
RestartEnds ==
  (op.open /\ op.verb = "restart") ~> ~(op.open /\ op.verb = "restart")

\* "either way the sweeper can re-drive it" (operations.py): a creation that
\* was interrupted does not stay `registering` for ever.
RegistrationIsRedriven ==
  spec.actual = "registering" ~> spec.actual # "registering"

\* "Soft-delete it and close whatever asked for this" (reconciler.py, _finish):
\* between passes, a runner that is no longer listed has no open operation.
ClosedWithItsRunner == At("rest") /\ ~spec.listed => ~op.open

\* "Nothing is lost: the next pass reads the new intent" (reconciler.py,
\* pass_once): a runner that was asked back into service while the pass was
\* looking at it is not deregistered by that pass.
NewIntentIsRead ==
  [][ spec'.actual = "deregistering" /\ spec.actual # "deregistering"
        => spec.desired = "absent" \/ op.verb = "recreate" ]_vars

\* "A unit is never removed after its deregistration failed" - "with the record
\* still at the forge, removing it is what strands a registration for good"
\* (provision.py, _undo): no rollback removes a unit whose registration is
\* alive.
NoRegistrationIsStranded ==
  [][ Exists /\ world'.unit = "absent" => world.cred \notin world.live ]_vars
=============================================================================
