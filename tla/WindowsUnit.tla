---------------------------- MODULE WindowsUnit ----------------------------
(***************************************************************************)
(* The unit of a runner as a Windows service with a tree of its own        *)
(* (agent/runtimes/windows_process.py, and agent/jobhost.py, the program   *)
(* of the service): what each call does to the service manager and to the  *)
(* tree, step by step, and what the service manager, the job host and the  *)
(* host do by themselves.  A step may fail, or the agent die, anywhere.    *)
(***************************************************************************)
EXTENDS Naturals, Sequences

CONSTANTS
  MaxServiceCalls,  \* bound: calls
  MaxServiceCuts    \* bound: calls that end before they are through

VARIABLES
  managed,     \* the tree is on a disk of its own, mounted before a start
  service,     \* the service, as the service manager has it
  auto,        \* it starts with the host
  again,       \* it is restarted when its program exits
  copy,        \* the software in the tree
  marker,      \* the file that says the software was copied
  enrolled,    \* the registration in the tree
  askedToDrain, \* the drain request in the tree
  caches,      \* what a rebuild keeps
  serviceCall, steps, serviceCalls, serviceCuts

winVars == <<managed, service, auto, again, copy, marker, enrolled, askedToDrain, caches,
             serviceCall, steps, serviceCalls, serviceCuts>>

manager == <<service, auto, again>>
files == <<copy, marker, enrolled, askedToDrain, caches>>
calling == <<managed, serviceCalls, serviceCuts>>

SERVICE_CALLS == {"create", "start", "cancel_drain", "stop", "drain", "rebuild", "remove"}

WinTypeOK ==
  /\ service \in {"absent", "stopped", "starting", "running", "stopping"}
  /\ copy \in {"none", "part", "whole"}
  /\ {managed, auto, again, marker, enrolled, askedToDrain, caches} \subseteq BOOLEAN
  /\ serviceCall \in [verb : SERVICE_CALLS \cup {"none"}, answered : BOOLEAN]
  /\ steps \in Seq(STRING)
  /\ serviceCalls \in 0 .. MaxServiceCalls /\ serviceCuts \in 0 .. MaxServiceCuts

WinInit ==
  /\ managed \in BOOLEAN /\ service = "absent" /\ auto = FALSE /\ again = FALSE
  /\ copy = "none" /\ marker = FALSE /\ enrolled = FALSE
  /\ askedToDrain = FALSE /\ caches = FALSE
  /\ serviceCall = [verb |-> "none", answered |-> FALSE] /\ steps = <<>>
  /\ serviceCalls = 0 /\ serviceCuts = 0

Installed == service # "absent"
Settled == service \in {"absent", "stopped", "running"}
UpAtAll == service \in {"starting", "running", "stopping"}

-----------------------------------------------------------------------------
(* The calls.                                                              *)

StepsOf(verb) ==
  CASE verb = "create" -> <<"dirs", "install", "start_type", "restart", "copy", "mark",
                            "start", "started">>
    [] verb \in {"start", "cancel_drain"} ->
         <<"unask", "restart", "start_type", "start", "started">>
    [] verb = "stop" -> <<"look">>
    [] verb = "drain" -> <<"look_to_drain">>
    [] verb \in {"rebuild", "remove"} -> <<"quiesce", "stop", "uninstall", "rmtree">>

\* No unit is created where a drain request was left behind by a removal that
\* failed half way: README, "Other disagreements".
BeginService(verb) ==
  /\ steps = <<>> /\ serviceCalls < MaxServiceCalls
  /\ verb = "create" => ~askedToDrain
  /\ serviceCalls' = serviceCalls + 1
  /\ serviceCall' = [verb |-> verb, answered |-> FALSE] /\ steps' = StepsOf(verb)
  /\ UNCHANGED <<managed, serviceCuts, manager, files>>

ServiceCut ==
  /\ steps # <<>> /\ serviceCuts < MaxServiceCuts /\ serviceCuts' = serviceCuts + 1
  /\ steps' = <<>>
  /\ UNCHANGED <<managed, serviceCalls, serviceCall, manager, files>>

Carries(step) == steps # <<>> /\ Head(steps) = step

\* The step is through; one that is not possible ends the call unanswered.
Through(step, possible) ==
  /\ Carries(step)
  /\ steps' = IF possible THEN Tail(steps) ELSE <<>>
  /\ serviceCall' = [serviceCall EXCEPT !.answered = possible /\ Tail(steps) = <<>>]
  /\ UNCHANGED calling

MakeDirs ==
  /\ Through("dirs", TRUE)
  /\ caches' = TRUE /\ copy' = IF copy = "none" THEN "part" ELSE copy
  /\ UNCHANGED <<manager, marker, enrolled, askedToDrain>>

\* A service is made stopped, to start with the host and be restarted.
Install ==
  /\ Through("install", TRUE)
  /\ IF Installed THEN UNCHANGED manager
                  ELSE service' = "stopped" /\ auto' = TRUE /\ again' = TRUE
  /\ UNCHANGED files

SetStartType ==
  /\ Through("start_type", Installed)
  /\ auto' = (Installed /\ ~managed)
  /\ UNCHANGED <<service, again, files>>

SetDemand ==
  /\ Through("demand", Installed) /\ auto' = FALSE
  /\ UNCHANGED <<service, again, files>>

SetRestart ==
  /\ Through("restart", Installed) /\ again' = Installed
  /\ UNCHANGED <<service, auto, files>>

SetNoRestart ==
  /\ Through("no_restart", Installed) /\ again' = FALSE
  /\ UNCHANGED <<service, auto, files>>

\* Mutant: the marker alone says that the software is there.
IncompleteByMarker == ~marker

\* The software is copied once, and again while nothing holds what is missing.
Incomplete == ~marker \/ (~enrolled /\ copy # "whole")

Copy ==
  /\ Through("copy", TRUE)
  /\ copy' = IF Incomplete THEN "whole" ELSE copy
  /\ UNCHANGED <<manager, marker, enrolled, askedToDrain, caches>>

Mark ==
  /\ Through("mark", TRUE) /\ marker' = TRUE
  /\ UNCHANGED <<manager, copy, enrolled, askedToDrain, caches>>

\* The request a drain left is taken back before the service is started.
Unask ==
  /\ Through("unask", TRUE) /\ askedToDrain' = FALSE
  /\ UNCHANGED <<manager, copy, marker, enrolled, caches>>

\* A service in between holds a start; one that runs is left running.
StartService ==
  /\ Through("start", Settled /\ Installed)
  /\ service' = IF service = "stopped" THEN "starting" ELSE service
  /\ UNCHANGED <<auto, again, files>>

\* The final state is confirmed, and anything but that ends the call.
ConfirmStart ==
  /\ service # "starting" /\ Through("started", service = "running")
  /\ UNCHANGED <<manager, files>>

\* A stop has nothing to do where there is no service, and only takes it off
\* the start of the host where it is down; one in between holds the stop.
LookToStop ==
  /\ Carries("look")
  /\ steps' = CASE service = "running" -> <<"demand", "stop", "stopped">>
               [] service = "stopped" -> <<"demand">>
               [] OTHER -> <<>>
  /\ serviceCall' = [serviceCall EXCEPT !.answered = ~Installed]
  /\ UNCHANGED <<calling, manager, files>>

\* A stopped service has no job host to ask.
LookToDrain ==
  /\ Carries("look_to_drain")
  /\ steps' = IF service = "stopped" THEN <<"demand", "no_restart">>
                                     ELSE <<"demand", "no_restart", "ask">>
  /\ UNCHANGED <<serviceCall, calling, manager, files>>

StopService ==
  /\ Through("stop", TRUE)
  /\ service' = IF service = "running" THEN "stopping" ELSE service
  /\ UNCHANGED <<auto, again, files>>

ConfirmStop ==
  /\ service # "stopping" /\ Through("stopped", service = "stopped")
  /\ UNCHANGED <<manager, files>>

\* The job host reads the request, and passes it on once.
AskToDrain ==
  /\ Through("ask", TRUE) /\ askedToDrain' = TRUE
  /\ UNCHANGED <<manager, copy, marker, enrolled, caches>>

\* A disk is let go of only when the service has provably stopped.
Quiesce ==
  /\ Through("quiesce", ~managed \/ Settled)
  /\ auto' = (auto /\ ~(managed /\ Settled))
  /\ UNCHANGED <<service, again, files>>

\* A service is removed once it has stopped.
Uninstall ==
  /\ service # "stopping" \/ ~managed
  /\ Through("uninstall", service \in {"absent", "stopped"})
  /\ IF service \in {"absent", "stopped"}
       THEN service' = "absent" /\ auto' = FALSE /\ again' = FALSE
       ELSE UNCHANGED manager
  /\ UNCHANGED files

RemoveTree ==
  /\ Through("rmtree", TRUE)
  /\ copy' = "none" /\ marker' = FALSE /\ enrolled' = FALSE /\ askedToDrain' = FALSE
  /\ caches' = (caches /\ serviceCall.verb = "rebuild")
  /\ UNCHANGED manager

\* A file that will not go leaves the rest of the tree: a directory is emptied
\* in the order of its names, the registration first.
RemoveSome ==
  /\ Through("rmtree", FALSE) /\ copy # "none"
  /\ copy' = "part" /\ enrolled' = FALSE
  /\ marker' \in {marker, FALSE} /\ askedToDrain' \in {askedToDrain, FALSE}
  /\ caches' \in {caches, caches /\ serviceCall.verb = "rebuild"}
  /\ UNCHANGED manager

ServiceStep ==
  \/ \E verb \in SERVICE_CALLS : BeginService(verb)
  \/ ServiceCut \/ MakeDirs \/ Install \/ SetStartType \/ SetDemand \/ SetRestart
  \/ SetNoRestart \/ Copy \/ Mark \/ Unask \/ StartService \/ ConfirmStart
  \/ LookToStop \/ LookToDrain \/ StopService \/ ConfirmStop \/ AskToDrain
  \/ Quiesce \/ Uninstall \/ RemoveTree \/ RemoveSome

-----------------------------------------------------------------------------
(* The service manager, the job host and the host.                         *)

Settles ==
  /\ \/ service = "starting" /\ service' \in {"running", "stopped"}
     \/ service = "stopping" /\ service' = "stopped"
  /\ UNCHANGED <<auto, again, files, calling, serviceCall, steps>>

\* The program exits, told to by a drain request or not; the service is down
\* with it unless it is restarted.
ProgramExits ==
  /\ service = "running" /\ ~again /\ service' = "stopped"
  /\ UNCHANGED <<auto, again, files, calling, serviceCall, steps>>

\* The agent goes down with the host, and the service comes up with it.
WinHostReboots ==
  /\ Installed /\ service' = IF auto THEN "starting" ELSE "stopped"
  /\ steps' = <<>>
  /\ UNCHANGED <<auto, again, files, calling, serviceCall>>

Registers ==
  /\ service = "running" /\ copy = "whole" /\ marker /\ enrolled' = TRUE
  /\ UNCHANGED <<manager, copy, marker, askedToDrain, caches, calling, serviceCall, steps>>

WinNext ==
  \/ ServiceStep
  \/ Settles \/ ProgramExits \/ WinHostReboots \/ Registers

WinSpec == WinInit /\ [][WinNext]_winVars

-----------------------------------------------------------------------------

WinContract == INSTANCE UnitContract WITH
  unit <- IF UpAtAll THEN "up" ELSE IF Installed THEN "down" ELSE "absent",
  back <- auto \/ (again /\ UpAtAll),
  asked <- askedToDrain,
  tree <- IF copy = "whole" /\ ~marker THEN "part" ELSE copy,
  cache <- caches,
  call <- serviceCall.verb, answered <- serviceCall.answered

\* A service keeps the promises of a unit, whatever fails on the way: a drained
\* or stopped one does not come back, with the host or without; one that was
\* started is not told to finish by an older request; a tree half removed is
\* made whole before it serves; a rebuild keeps the caches.
ServiceIsAUnit == WinContract!ContractSpec
=============================================================================
