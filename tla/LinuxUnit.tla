----------------------------- MODULE LinuxUnit -----------------------------
(***************************************************************************)
(* The unit of a runner as a container of its own on a Linux worker        *)
(* (agent/runtimes/linux_container.py): the commands each call gives the   *)
(* engine, in their order, what the engine makes of them, and what the     *)
(* engine and the host do by themselves.  A command may fail, or the agent *)
(* die, between any two of them, and the call is made again or given up.   *)
(***************************************************************************)
EXTENDS Naturals, Sequences

CONSTANTS
  MaxBoxCalls,  \* bound: calls
  MaxBoxCuts    \* bound: calls that end before they are through

VARIABLES
  box,      \* the container
  policy,   \* its restart policy
  halted,   \* the engine holds it for stopped on purpose
  volumes,  \* of the volumes: what a rebuild discards, and what it keeps
  boxCall,  \* the call, and whether it was answered
  commands, \* what is left of it
  boxCalls, boxCuts

boxVars == <<box, policy, halted, volumes, boxCall, commands, boxCalls, boxCuts>>

BOX_CALLS == {"create", "start", "cancel_drain", "stop", "drain", "rebuild", "remove"}
VOLUMES == {"work", "reg", "kept"}
NoBoxCall == [verb |-> "none", answered |-> FALSE]

BoxTypeOK ==
  /\ box \in {"absent", "made", "up", "exited", "removing"}
  /\ policy \in {"no", "unless-stopped"} /\ halted \in BOOLEAN
  /\ volumes \subseteq VOLUMES
  /\ boxCall \in [verb : BOX_CALLS \cup {"none"}, answered : BOOLEAN]
  /\ commands \in Seq(STRING)
  /\ boxCalls \in 0 .. MaxBoxCalls /\ boxCuts \in 0 .. MaxBoxCuts

BoxInit ==
  /\ box = "absent" /\ policy = "no" /\ halted = FALSE /\ volumes = {}
  /\ boxCall = NoBoxCall /\ commands = <<>> /\ boxCalls = 0 /\ boxCuts = 0

BoxBudget == UNCHANGED <<boxCalls, boxCuts>>
BoxThere == box \notin {"absent", "removing"}

\* The engine brings it up again: after an exit, and with the host.
Restarts == policy = "unless-stopped" /\ ~halted /\ box \in {"up", "exited"}

-----------------------------------------------------------------------------
(* The calls.                                                              *)

CommandsOf(verb) ==
  CASE verb = "create" -> <<"look">>
    [] verb \in {"start", "cancel_drain"} -> <<"policy_on", "start">>
    [] verb = "stop" -> <<"stop">>
    [] verb = "drain" -> <<"policy_off", "term">>
    [] verb \in {"rebuild", "remove"} -> <<"stop", "rm", "gone", "volumes_rm">>

\* A call is carried out with the one before it through or given up.
BeginBoxCall(verb) ==
  /\ commands = <<>> /\ boxCalls < MaxBoxCalls /\ boxCalls' = boxCalls + 1
  /\ boxCall' = [verb |-> verb, answered |-> FALSE]
  /\ commands' = CommandsOf(verb)
  /\ UNCHANGED <<box, policy, halted, volumes, boxCuts>>

\* A command fails or the agent dies: the call ends there, unanswered.
BoxCallCut ==
  /\ commands # <<>> /\ boxCuts < MaxBoxCuts /\ boxCuts' = boxCuts + 1
  /\ commands' = <<>>
  /\ UNCHANGED <<box, policy, halted, volumes, boxCall, boxCalls>>

\* A command that cannot do what it is for ends the call as well.
Runs(command, possible) ==
  /\ commands # <<>> /\ Head(commands) = command
  /\ BoxBudget
  /\ commands' = IF possible THEN Tail(commands) ELSE <<>>
  /\ boxCall' = [boxCall EXCEPT !.answered = possible /\ Tail(commands) = <<>>]

\* create: what is there is started; what is on its way out is waited for.
Look ==
  /\ commands = <<"look">>
  /\ commands' = IF BoxThere THEN <<"policy_on", "start">>
                 ELSE IF box = "removing" THEN <<"wait", "volume_create", "run", "start_new">>
                 ELSE <<"volume_create", "run", "start_new">>
  /\ UNCHANGED <<box, policy, halted, volumes, boxCall>> /\ BoxBudget

\* A removal is over within the wait: README, "Other disagreements".
Wait ==
  /\ box = "absent" /\ Runs("wait", TRUE)
  /\ UNCHANGED <<box, policy, halted, volumes>>

CreateVolume(v) ==
  /\ commands # <<>> /\ Head(commands) = "volume_create"
  /\ volumes' = volumes \cup {v}
  /\ commands' = IF volumes' = VOLUMES THEN Tail(commands) ELSE commands
  /\ UNCHANGED <<box, policy, halted, boxCall>> /\ BoxBudget

\* `docker run` makes the container and starts it.
Run ==
  /\ box = "absent" /\ Runs("run", TRUE)
  /\ box' = "made" /\ policy' = "unless-stopped" /\ halted' = FALSE
  /\ UNCHANGED volumes

PolicyOn ==
  /\ Runs("policy_on", BoxThere)
  /\ policy' = IF BoxThere THEN "unless-stopped" ELSE policy
  /\ UNCHANGED <<box, halted, volumes>>

PolicyOff ==
  /\ Runs("policy_off", BoxThere)
  /\ policy' = IF BoxThere THEN "no" ELSE policy
  /\ UNCHANGED <<box, halted, volumes>>

\* One that is up stays as it is, even on its way to exit.
Start ==
  /\ Runs("start", BoxThere) \/ Runs("start_new", BoxThere)
  /\ box' = IF BoxThere THEN "up" ELSE box
  /\ halted' = (halted /\ ~BoxThere)
  /\ UNCHANGED <<policy, volumes>>

\* A removal goes on when there is nothing to stop, or it does not stop.
Stop ==
  /\ Runs("stop", BoxThere \/ boxCall.verb # "stop")
  /\ halted' = (halted \/ box = "up" \/ Restarts)
  /\ box' = IF box = "up" THEN "exited" ELSE box
  /\ UNCHANGED <<policy, volumes>>

WillNotStop ==
  /\ boxCall.verb # "stop" /\ Runs("stop", TRUE)
  /\ UNCHANGED <<box, policy, halted, volumes>>

\* One that runs is sent a SIGTERM, and exits in its own time: BoxExits.
Term ==
  /\ Runs("term", TRUE)
  /\ UNCHANGED <<box, policy, halted, volumes>>

\* The engine takes it apart in its own time ...
Rm ==
  /\ Runs("rm", TRUE)
  /\ box' = IF box = "absent" THEN box ELSE "removing"
  /\ UNCHANGED <<policy, halted, volumes>>

\* ... and what it still holds is left alone.
GoneAtLast ==
  /\ box = "absent" /\ Runs("gone", TRUE)
  /\ UNCHANGED <<box, policy, halted, volumes>>

\* Mutant: a rebuild takes everything.
Everything == VOLUMES

Doomed == IF boxCall.verb = "remove" THEN VOLUMES ELSE VOLUMES \ {"kept"}

\* A volume that will not go does not keep the others, and ends the call.
RemoveVolumes(left) ==
  /\ box = "absent" /\ left \subseteq Doomed \cap volumes
  /\ Runs("volumes_rm", left = {})
  /\ volumes' = (volumes \ Doomed) \cup left
  /\ UNCHANGED <<box, policy, halted>>

BoxCallStep ==
  \/ \E verb \in BOX_CALLS : BeginBoxCall(verb)
  \/ BoxCallCut \/ Look \/ Wait \/ Run \/ PolicyOn \/ PolicyOff \/ Start
  \/ Stop \/ WillNotStop \/ Term \/ Rm \/ GoneAtLast
  \/ \E v \in VOLUMES : CreateVolume(v)
  \/ \E left \in SUBSET VOLUMES : RemoveVolumes(left)

-----------------------------------------------------------------------------
(* The engine and the host.                                                *)

\* The process exits, asked to or not, or the host goes down under it.
BoxExits ==
  /\ box = "up" /\ box' = "exited"
  /\ UNCHANGED <<policy, halted, volumes, boxCall, commands>> /\ BoxBudget

BoxRestarts ==
  /\ box = "exited" /\ Restarts /\ box' = "up"
  /\ UNCHANGED <<policy, halted, volumes, boxCall, commands>> /\ BoxBudget

RemovalDone ==
  /\ box = "removing" /\ box' = "absent" /\ policy' = "no" /\ halted' = FALSE
  /\ UNCHANGED <<volumes, boxCall, commands>> /\ BoxBudget

BoxNext == BoxCallStep \/ BoxExits \/ BoxRestarts \/ RemovalDone
BoxSpec == BoxInit /\ [][BoxNext]_boxVars

-----------------------------------------------------------------------------

Tree == volumes \cap {"work", "reg"}

Contract == INSTANCE UnitContract WITH
  unit <- CASE box = "absent" -> "absent" [] box = "up" -> "up"
            [] box = "removing" -> "leaving" [] OTHER -> "down",
  back <- Restarts,
  asked <- FALSE,
  tree <- IF Tree = {} THEN "none" ELSE IF Tree = {"work", "reg"} THEN "whole" ELSE "part",
  cache <- "kept" \in volumes,
  call <- boxCall.verb, answered <- boxCall.answered

\* A container keeps the promises of a unit, whichever of its commands fail:
\* what is answered is so, it never comes up but where it is meant to serve,
\* a rebuild keeps the caches and a removal leaves nothing.
ContainerIsAUnit == Contract!ContractSpec
=============================================================================
