---------------------------- MODULE UnitContract ----------------------------
(***************************************************************************)
(* What the controller may rely on of the execution unit of one runner,    *)
(* whatever it is made of: what a call that was answered has brought about *)
(* and what no call, and nothing else, ever does to a unit.  A container,  *)
(* a Windows service and a launchd job implement it, each in its way       *)
(* (agent/runtimes; agent/tests/contract holds them to it call by call).   *)
(***************************************************************************)
VARIABLES
  unit,     \* "absent", "down", "up", or "leaving": being taken apart
  back,     \* it comes up again by itself: after an exit, or with its host
  asked,    \* it has been asked to finish, and will not be back once it has
  tree,     \* software and registration: "none", "part" or "whole"
  cache,    \* what a rebuild keeps
  call,     \* the last call begun
  answered  \* that it was answered as carried out

contractVars == <<unit, back, asked, tree, cache, call, answered>>

INTO == {"create", "start", "cancel_drain"}   \* calls that put it into service
OUT == {"stop", "drain"}                      \* ... that take it out
AWAY == {"rebuild", "remove"}                 \* ... that remove it, data kept or not
UNIT_CALLS == INTO \cup OUT \cup AWAY

\* What holds when a call is answered.
Brought(c) ==
  CASE c \in INTO -> /\ unit \in {"down", "up"} /\ back /\ ~asked
                     /\ c = "create" => tree = "whole" /\ cache
    [] c = "stop" -> unit # "up" /\ ~back
    [] c = "drain" -> ~back
    [] c \in AWAY -> /\ unit = "absent" /\ tree = "none"
                     /\ c = "remove" => ~cache
    [] OTHER -> TRUE

ContractInit ==
  /\ unit = "absent" /\ ~back /\ ~asked /\ tree = "none" /\ ~cache
  /\ call = "none" /\ ~answered

\* Calls are begun one after the other, those not answered given up.
BeginCall ==
  /\ call' \in UNIT_CALLS /\ ~answered'
  /\ UNCHANGED <<unit, back, asked, tree, cache>>

\* By itself a unit comes and goes, and comes only where it is meant to, or
\* loses what would bring it back; a request to finish may end with the process
\* it was made to.
Live ==
  /\ \/ unit' = unit /\ ~back'
     \/ unit = "up" /\ unit' = "down"
     \/ unit = "down" /\ unit' = "up" /\ back
     \/ unit = "leaving" /\ unit' = "absent"
  /\ back' => back
  /\ asked' => asked
  /\ UNCHANGED <<tree, cache, call, answered>>

\* What a call may do on the way, be it answered in the end or not.
Work ==
  /\ ~answered
  /\ answered' => Brought(call)'
  /\ unit' # unit => \/ unit' = "up" /\ call \in INTO
                     \/ unit' \in {"leaving", "absent"} /\ call \in AWAY
                     \/ unit = "absent" /\ call = "create"
                     \/ unit' = "down" /\ call \in {"stop"} \cup AWAY
  /\ back' => back \/ call \in INTO
  /\ asked' => asked \/ call = "drain"
  /\ tree' # tree => call \in AWAY \/ (call = "create" /\ tree' # "none")
  /\ cache' # cache => call = (IF cache' THEN "create" ELSE "remove")
  /\ UNCHANGED call

ContractSpec == ContractInit /\ [][BeginCall \/ Live \/ Work]_contractVars
=============================================================================
