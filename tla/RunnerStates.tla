---------------------------- MODULE RunnerStates ----------------------------
(***************************************************************************)
(* The runner state machine (dashboard/control/states.py) and the pure     *)
(* decision function of the reconciler (reconciler.py: decide), as tables  *)
(* and operators.  Nothing here has state: the module is extended by the   *)
(* specifications that move a runner and by the proofs about them.         *)
(*                                                                         *)
(* `None` of the Python code - the source of the create edge, "no verb",   *)
(* "no step" - is the string "none".                                       *)
(***************************************************************************)

START == "none"
TERMINAL == "absent"

STATES == {"planned", "provisioning", "provisioned", "registering", "idle",
           "busy", "draining", "drained", "stopping", "stopped", "starting",
           "deregistering", "removing", "absent", "failed"}

TRANSITIONS ==
  { <<START, "planned">>,
    <<"planned", "provisioning">>, <<"planned", "absent">>,
    <<"provisioning", "provisioned">>, <<"provisioning", "failed">>,
    <<"provisioned", "registering">>,
    <<"registering", "idle">>, <<"registering", "failed">>,
    <<"idle", "busy">>, <<"busy", "idle">>,
    <<"idle", "stopped">>, <<"busy", "stopped">>,
    <<"idle", "draining">>, <<"busy", "draining">>,
    <<"draining", "drained">>, <<"drained", "draining">>,
    <<"drained", "idle">>, <<"drained", "stopping">>, <<"idle", "stopping">>,
    <<"stopping", "stopped">>, <<"stopped", "starting">>,
    <<"starting", "idle">>,
    <<"drained", "deregistering">>, <<"stopped", "deregistering">>,
    <<"deregistering", "removing">>,
    <<"removing", "absent">>, <<"removing", "provisioning">>,
    <<"failed", "provisioning">>, <<"failed", "removing">> }

\* Edges driven by what was seen, never by a request.
OBSERVED ==
  { <<"planned", "provisioning">>, <<"provisioning", "provisioned">>,
    <<"provisioning", "failed">>, <<"registering", "idle">>,
    <<"registering", "failed">>, <<"idle", "busy">>, <<"busy", "idle">>,
    <<"idle", "stopped">>, <<"busy", "stopped">>, <<"draining", "drained">>,
    <<"drained", "draining">>, <<"stopping", "stopped">>,
    <<"starting", "idle">>, <<"deregistering", "removing">>,
    <<"removing", "absent">>, <<"removing", "provisioning">> }

\* The steps that end a runner's work, and where it may be running a job.
ENDS_WORK == {"stop", "deregister", "remove"}
AT_WORK == {"busy", "draining"}
AbortsAJob(step, state) == step \in ENDS_WORK /\ state \in AT_WORK

SERVING == {"idle", "busy"}
LIVE == {"idle", "busy", "draining", "drained"}

-----------------------------------------------------------------------------
(* The verbs one runner can be asked for.                                  *)

VERBS == {"provision", "register", "start", "stop", "restart", "drain",
          "cancel_drain", "recreate", "remove", "deregister", "repair",
          "clear_cache"}

\* Where each verb may be asked for: the sources of its edges (VERB_EDGES),
\* the states a clear is guarded to (GUARDED), and for the two composites
\* those of their first step (stop, remove) with WALKS_FROM added.
FROM_STATES ==
  [ provision    |-> {"planned"},
    register     |-> {"provisioned"},
    start        |-> {"stopped"},
    stop         |-> {"idle", "drained"},
    restart      |-> {"idle", "drained", "busy"},
    drain        |-> {"idle", "busy"},
    cancel_drain |-> {"drained"},
    remove       |-> {"planned", "drained", "stopped", "failed"},
    recreate     |-> {"planned", "drained", "stopped", "failed",
                      "idle", "busy", "deregistering", "removing"},
    deregister   |-> {"deregistering"},
    repair       |-> {"failed"},
    clear_cache  |-> {"idle", "drained"} ]

Allows(verb, frm) == frm \in FROM_STATES[verb]

DESIRED_STATES == {"running", "stopped", "drained", "absent"}

\* What the runner is meant to be once the verb is accepted.  A cache clear
\* leaves that alone.
DesiredBy(verb, desired) ==
  CASE verb \in {"start", "restart", "cancel_drain", "recreate", "repair",
                 "provision", "register"} -> "running"
    [] verb = "stop"                      -> "stopped"
    [] verb = "drain"                     -> "drained"
    [] verb \in {"remove", "deregister"}  -> "absent"
    [] OTHER                              -> desired

\* Mutant: a repair that nothing closes.
FulfilledNotRepair(verb, actual) ==
  \/ verb \in {"start", "cancel_drain", "provision", "register"}
     /\ actual \in SERVING
  \/ verb = "stop" /\ actual = "stopped"
  \/ verb = "drain" /\ actual = "drained"
  \/ verb \in {"remove", "deregister"} /\ actual = "absent"

\* reconciler.py FULFILLED: the states in which a plain verb is done.
Fulfilled(verb, actual) ==
  \/ verb \in {"start", "cancel_drain", "provision", "register", "repair"}
     /\ actual \in SERVING
  \/ verb = "stop" /\ actual = "stopped"
  \/ verb = "drain" /\ actual = "drained"
  \/ verb \in {"remove", "deregister"} /\ actual = "absent"

-----------------------------------------------------------------------------
(* decide: the next step for one runner, or "none".  Its branches are      *)
(* ordered; each operator below is one block of them and answers "fall"    *)
(* when the block lets the decision fall through to the next.              *)

STEPS == {"provision", "register", "start", "stop", "drain", "cancel_drain",
          "withdraw", "deregister", "remove", "repair", "clear_cache",
          "observe"}

ForRestart(actual, done) ==
  IF "started" \in done THEN "fall"
  ELSE IF actual \in {"idle", "busy"} THEN "drain"
  ELSE IF actual = "drained" /\ "stopped" \notin done THEN "stop"
  ELSE IF actual = "stopped" THEN "start"
  ELSE "fall"

ForRecreate(actual, done) ==
  IF "rebuilding" \in done THEN "fall"
  ELSE IF actual \in {"idle", "busy"} THEN "drain"
  ELSE IF actual \in {"drained", "stopped"} THEN "deregister"
  ELSE IF actual \in {"removing", "failed"} THEN "remove"
  ELSE "fall"

ForVerb(actual, verb, done) ==
  IF verb = "restart" THEN ForRestart(actual, done)
  ELSE IF verb = "recreate" THEN ForRecreate(actual, done)
  ELSE IF verb = "repair" /\ actual = "failed" THEN "repair"
  ELSE "fall"

\* Mutant: an interrupted deregistration is left to the desired state.
InterruptedButDeregistering(actual) ==
  IF actual = "stopping" THEN "stop"
  ELSE IF actual = "starting" THEN "start"
  ELSE IF actual = "draining" THEN "drain"
  ELSE IF actual = "provisioning" THEN "provision"
  ELSE IF actual = "provisioned" THEN "register"
  ELSE "fall"

\* A step that was interrupted part-way is taken again, and a runner half-way
\* through being created is finished first.
Interrupted(actual) ==
  IF actual = "stopping" THEN "stop"
  ELSE IF actual = "starting" THEN "start"
  ELSE IF actual = "deregistering" THEN "deregister"
  ELSE IF actual = "draining" THEN "drain"
  ELSE IF actual = "provisioning" THEN "provision"
  ELSE IF actual = "provisioned" THEN "register"
  ELSE "fall"

TowardAbsent(actual) ==
  IF actual = "planned" THEN "withdraw"
  ELSE IF actual \in {"idle", "busy"} THEN "drain"
  ELSE IF actual \in {"drained", "stopped"} THEN "deregister"
  ELSE IF actual \in {"removing", "failed"} THEN "remove"
  ELSE "observe"

TowardStopped(actual) ==
  IF actual \in {"idle", "busy"} THEN "drain"
  ELSE IF actual = "drained" THEN "stop"
  ELSE IF actual \in {"stopped", "planned", "failed"} THEN "none"
  ELSE "observe"

TowardDrained(actual) ==
  IF actual \in {"idle", "busy"} THEN "drain"
  ELSE IF actual \in {"planned", "stopped", "failed"} THEN "none"
  ELSE "observe"

TowardRunning(actual) ==
  IF actual = "planned" THEN "provision"
  ELSE IF actual = "stopped" THEN "start"
  ELSE IF actual = "drained" THEN "cancel_drain"
  ELSE IF actual = "failed" THEN "none"
  ELSE "observe"

Toward(actual, desired) ==
  IF desired = "absent" THEN TowardAbsent(actual)
  ELSE IF desired = "stopped" THEN TowardStopped(actual)
  ELSE IF desired = "drained" THEN TowardDrained(actual)
  ELSE TowardRunning(actual)

\* A cache clear drains first where its policy says so, and clears.
ForClear(actual, drainFirst) ==
  IF actual \in {"idle", "draining"} \/ (actual = "busy" /\ drainFirst)
  THEN "drain" ELSE "clear_cache"

\* A removal whose operation is gone.
Stranded(actual, desired, err) ==
  IF desired = "absent" \/ ~err
  THEN (IF actual = "removing" THEN "remove" ELSE "deregister")
  ELSE "none"

Decide(actual, desired, verb, done, err, drainFirst) ==
  IF actual = TERMINAL THEN "none"
  ELSE IF actual \in {"removing", "deregistering"} /\ verb = "none"
    THEN Stranded(actual, desired, err)
  ELSE IF verb = "clear_cache" THEN ForClear(actual, drainFirst)
  ELSE IF ForVerb(actual, verb, done) # "fall"
    THEN ForVerb(actual, verb, done)
  ELSE IF Interrupted(actual) # "fall" THEN Interrupted(actual)
  ELSE Toward(actual, desired)

\* The steps that cannot be undone, and those that may not be sent to a
\* worker the controller does not trust (reconciler.py DESTRUCTIVE,
\* NEEDS_HEALTHY_WORKER).
DESTRUCTIVE == ENDS_WORK
NEEDS_HEALTHY_WORKER ==
  DESTRUCTIVE \cup {"provision", "register", "clear_cache", "start",
                    "cancel_drain"}
=============================================================================
