------------------------------ MODULE UnitProofs ------------------------------
(***************************************************************************)
(* Proofs that what a runner is made of keeps its promises, for any number *)
(* of calls and of calls cut off: a container, a Windows service, a        *)
(* launchd job and a macOS guest of its own implement UnitContract, the    *)
(* two disks DiskContract.  Each proof has the same shape.  What is left   *)
(* of a call is one of a few lists of steps (for the guest: the rest of    *)
(* one of a few courses); the inductive invariant (...Types /\ ...Course,  *)
(* PoolInv) says what the unit looks like at each of them; with it every   *)
(* step of the detailed specification is a step of the contract, or        *)
(* changes nothing in it.                                                  *)
(***************************************************************************)
EXTENDS Units, SequenceTheorems, TLAPS

-----------------------------------------------------------------------------
(* A container (LinuxUnit).                                                *)

\* What may be left of a call.
LeftLook == <<"look">>
LeftOn == <<"policy_on", "start">>
LeftNew == <<"start_new">>
LeftRun == <<"run", "start_new">>
LeftCreate == <<"volume_create", "run", "start_new">>
LeftWait == <<"wait", "volume_create", "run", "start_new">>
LeftStart == <<"start">>
LeftStop == <<"stop">>
LeftTerm == <<"term">>
LeftOff == <<"policy_off", "term">>
LeftVolumes == <<"volumes_rm">>
LeftGone == <<"gone", "volumes_rm">>
LeftRm == <<"rm", "gone", "volumes_rm">>
LeftAway == <<"stop", "rm", "gone", "volumes_rm">>

LEMMA Lefts ==
  /\ LeftLook # <<>> /\ Head(LeftLook) = "look" /\ Tail(LeftLook) = <<>>
  /\ LeftOn # <<>> /\ Head(LeftOn) = "policy_on" /\ Tail(LeftOn) = LeftStart
  /\ LeftNew # <<>> /\ Head(LeftNew) = "start_new" /\ Tail(LeftNew) = <<>>
  /\ LeftRun # <<>> /\ Head(LeftRun) = "run" /\ Tail(LeftRun) = LeftNew
  /\ LeftCreate # <<>> /\ Head(LeftCreate) = "volume_create" /\ Tail(LeftCreate) = LeftRun
  /\ LeftWait # <<>> /\ Head(LeftWait) = "wait" /\ Tail(LeftWait) = LeftCreate
  /\ LeftStart # <<>> /\ Head(LeftStart) = "start" /\ Tail(LeftStart) = <<>>
  /\ LeftStop # <<>> /\ Head(LeftStop) = "stop" /\ Tail(LeftStop) = <<>>
  /\ LeftTerm # <<>> /\ Head(LeftTerm) = "term" /\ Tail(LeftTerm) = <<>>
  /\ LeftOff # <<>> /\ Head(LeftOff) = "policy_off" /\ Tail(LeftOff) = LeftTerm
  /\ LeftVolumes # <<>> /\ Head(LeftVolumes) = "volumes_rm" /\ Tail(LeftVolumes) = <<>>
  /\ LeftGone # <<>> /\ Head(LeftGone) = "gone" /\ Tail(LeftGone) = LeftVolumes
  /\ LeftRm # <<>> /\ Head(LeftRm) = "rm" /\ Tail(LeftRm) = LeftGone
  /\ LeftAway # <<>> /\ Head(LeftAway) = "stop" /\ Tail(LeftAway) = LeftRm
BY DEF LeftLook, LeftOn, LeftNew, LeftRun, LeftCreate, LeftWait, LeftStart, LeftStop, LeftTerm,
    LeftOff, LeftVolumes, LeftGone, LeftRm, LeftAway

BoxLeft(verb) ==
  CASE verb = "create" -> {LeftLook, LeftOn, LeftStart, LeftWait, LeftCreate, LeftRun, LeftNew}
    [] verb \in {"start", "cancel_drain"} -> {LeftOn, LeftStart}
    [] verb = "stop" -> {LeftStop}
    [] verb = "drain" -> {LeftOff, LeftTerm}
    [] verb \in {"rebuild", "remove"} -> {LeftAway, LeftRm, LeftGone, LeftVolumes}
    [] OTHER -> {}

\* The state of a container, and what it is like while a call is under way.
BoxTypes ==
  /\ box \in {"absent", "made", "up", "exited", "removing"}
  /\ policy \in {"no", "unless-stopped"} /\ halted \in BOOLEAN
  /\ volumes \subseteq VOLUMES
  /\ boxCall \in [verb : BOX_CALLS \cup {"none"}, answered : BOOLEAN]
  /\ commands = <<>> \/ commands \in BoxLeft(boxCall.verb)

BoxCourse ==
  /\ commands # <<>> => ~boxCall.answered
  /\ box # "absent" => volumes = VOLUMES
  /\ box = "absent" => policy = "no" /\ ~halted
  /\ commands = LeftTerm => policy = "no"
  /\ commands = LeftStart => BoxThere /\ policy = "unless-stopped"
  /\ commands = LeftNew => BoxThere /\ policy = "unless-stopped" /\ ~halted
  /\ commands = LeftRun => volumes = VOLUMES

BoxInv == BoxTypes /\ BoxCourse

LEMMA BoxBegins == BoxInit => BoxInv /\ Contract!ContractInit
  <1>. SUFFICES ASSUME BoxInit PROVE BoxInv /\ Contract!ContractInit
    OBVIOUS
  <1>1. /\ boxCall.verb = "none" /\ boxCall.answered = FALSE
        /\ boxCall \in [verb : BOX_CALLS \cup {"none"}, answered : BOOLEAN]
    BY DEF BoxInit, NoBoxCall
  <1>2. BoxInv
    BY <1>1, Lefts DEF BoxInit, BoxInv, BoxTypes, BoxCourse, BoxLeft, BoxThere
  <1>3. Contract!ContractInit
    BY <1>1 DEF BoxInit, Contract!ContractInit, Restarts, Tree
  <1>. QED BY <1>2, <1>3

BoxContractStep ==
  [Contract!BeginCall \/ Contract!Live \/ Contract!Work]_(Contract!contractVars)

LEMMA BoxUnchanged ==
  UNCHANGED boxVars => BoxContractStep /\ (BoxInv => BoxInv')
  BY DEF boxVars, BoxContractStep, Contract!contractVars, Restarts, Tree, BoxInv, BoxTypes,
      BoxCourse, BoxThere, BoxLeft

LEMMA BoxBeginsACall ==
  ASSUME BoxInv, NEW verb \in BOX_CALLS, BeginBoxCall(verb) PROVE BoxInv' /\ BoxContractStep
  <1>1. /\ boxCall'.verb = verb /\ boxCall'.answered = FALSE
        /\ boxCall' \in [verb : BOX_CALLS \cup {"none"}, answered : BOOLEAN]
    BY DEF BeginBoxCall
  <1>a. commands' = CASE verb = "create" -> LeftLook
                      [] verb \in {"start", "cancel_drain"} -> LeftOn
                      [] verb = "stop" -> LeftStop
                      [] verb = "drain" -> LeftOff
                      [] verb \in {"rebuild", "remove"} -> LeftAway
    BY DEF BeginBoxCall, CommandsOf, LeftLook, LeftOn, LeftStop, LeftOff, LeftAway
  <1>b. BoxTypes'
    BY <1>1, <1>a DEF BeginBoxCall, BoxInv, BoxTypes, BoxLeft, BOX_CALLS
  <1>c. BoxCourse'
    <2>1. commands' \in {LeftLook, LeftOn, LeftStop, LeftOff, LeftAway}
      BY <1>a DEF BOX_CALLS
    <2>. QED BY <1>1, <2>1, Lefts, ZenonT(40) DEF BeginBoxCall, BoxInv, BoxCourse
  <1>2. BoxInv'
    BY <1>b, <1>c DEF BoxInv
  <1>3. Contract!BeginCall
    BY <1>1 DEF BeginBoxCall, BOX_CALLS, Contract!BeginCall, Contract!UNIT_CALLS, Contract!INTO,
        Contract!OUT, Contract!AWAY, Restarts, Tree
  <1>. QED BY <1>2, <1>3 DEF BoxContractStep

LEMMA BoxRuns ==
  ASSUME BoxInv, NEW command, NEW possible \in BOOLEAN, Runs(command, possible)
  PROVE  /\ commands # <<>> /\ Head(commands) = command
         /\ commands' = IF possible THEN Tail(commands) ELSE <<>>
         /\ boxCall' \in [verb : BOX_CALLS \cup {"none"}, answered : BOOLEAN]
         /\ boxCall'.verb = boxCall.verb /\ ~boxCall.answered
         /\ boxCall'.answered <=> possible /\ Tail(commands) = <<>>
  BY DEF Runs, BoxInv, BoxTypes, BoxCourse

LEMMA BoxLook ==
  ASSUME BoxInv, Look PROVE BoxInv' /\ BoxContractStep
  <1>1. BoxInv'
    BY Lefts, ZenonT(40) DEF Look, BoxInv, BoxTypes, BoxCourse, BoxThere, BoxLeft, BOX_CALLS, LeftLook, LeftOn,
        LeftWait, LeftCreate
  <1>2. UNCHANGED Contract!contractVars
    BY DEF Look, Contract!contractVars, Restarts, Tree
  <1>. QED BY <1>1, <1>2 DEF BoxContractStep


LEMMA BoxLines ==
  ASSUME BoxInv, commands # <<>>
  PROVE  \/ commands = LeftLook /\ boxCall.verb = "create"
         \/ commands \in {LeftOn, LeftStart} /\ boxCall.verb \in {"create", "start", "cancel_drain"}
         \/ commands \in {LeftWait, LeftCreate, LeftRun, LeftNew} /\ boxCall.verb = "create"
         \/ commands = LeftStop /\ boxCall.verb = "stop"
         \/ commands \in {LeftOff, LeftTerm} /\ boxCall.verb = "drain"
         \/ commands \in {LeftAway, LeftRm, LeftGone, LeftVolumes} /\ boxCall.verb \in {"rebuild", "remove"}
  BY DEF BoxInv, BoxTypes, BoxLeft, BOX_CALLS


LEMMA BoxStart ==
  ASSUME BoxInv, Start PROVE BoxInv' /\ BoxContractStep
  <1>1. PICK command \in {"start", "start_new"} : Runs(command, BoxThere)
    BY DEF Start
  <1>. /\ commands # <<>> /\ Head(commands) = command
       /\ commands' = IF BoxThere THEN Tail(commands) ELSE <<>>
       /\ boxCall' \in [verb : BOX_CALLS \cup {"none"}, answered : BOOLEAN]
       /\ boxCall'.verb = boxCall.verb /\ ~boxCall.answered
       /\ boxCall'.answered <=> BoxThere /\ Tail(commands) = <<>>
    BY <1>1, BoxRuns DEF BoxThere
  <1>2. commands \in {LeftStart, LeftNew} /\ boxCall.verb \in {"create", "start", "cancel_drain"}
    BY BoxLines, Lefts
  <1>3. BoxTypes'
    BY <1>2, Lefts DEF Start, BoxInv, BoxTypes, BoxThere, BoxLeft, BOX_CALLS
  <1>4. BoxCourse'
    BY <1>2, Lefts DEF Start, BoxInv, BoxTypes, BoxCourse, BoxThere, Restarts
  <1>5. BoxContractStep
    BY <1>2, Lefts DEF Start, Doomed, BoxInv, BoxTypes, BoxCourse, BoxThere, BoxContractStep,
        Contract!contractVars, Contract!Live, Contract!Work, Contract!Brought, Contract!INTO,
        Contract!OUT, Contract!AWAY, Restarts, Tree, VOLUMES
  <1>. QED BY <1>3, <1>4, <1>5 DEF BoxInv

LEMMA BoxPolicyOn ==
  ASSUME BoxInv, PolicyOn PROVE BoxInv' /\ BoxContractStep
  <1>. DEFINE command == "policy_on"
  <1>1. Runs(command, BoxThere)
    BY DEF PolicyOn
  <1>. /\ commands # <<>> /\ Head(commands) = command
       /\ commands' = IF BoxThere THEN Tail(commands) ELSE <<>>
       /\ boxCall' \in [verb : BOX_CALLS \cup {"none"}, answered : BOOLEAN]
       /\ boxCall'.verb = boxCall.verb /\ ~boxCall.answered
       /\ boxCall'.answered <=> BoxThere /\ Tail(commands) = <<>>
    BY <1>1, BoxRuns DEF BoxThere
  <1>2. commands = LeftOn /\ boxCall.verb \in {"create", "start", "cancel_drain"}
    BY BoxLines, Lefts
  <1>3. BoxTypes'
    BY <1>2, Lefts DEF PolicyOn, BoxInv, BoxTypes, BoxThere, BoxLeft, BOX_CALLS
  <1>4. BoxCourse'
    BY <1>2, Lefts DEF PolicyOn, BoxInv, BoxTypes, BoxCourse, BoxThere, Restarts
  <1>5. BoxContractStep
    BY <1>2, Lefts DEF PolicyOn, Doomed, BoxInv, BoxTypes, BoxCourse, BoxThere, BoxContractStep,
        Contract!contractVars, Contract!Live, Contract!Work, Contract!Brought, Contract!INTO,
        Contract!OUT, Contract!AWAY, Restarts, Tree, VOLUMES
  <1>. QED BY <1>3, <1>4, <1>5 DEF BoxInv

LEMMA BoxPolicyOff ==
  ASSUME BoxInv, PolicyOff PROVE BoxInv' /\ BoxContractStep
  <1>. DEFINE command == "policy_off"
  <1>1. Runs(command, BoxThere)
    BY DEF PolicyOff
  <1>. /\ commands # <<>> /\ Head(commands) = command
       /\ commands' = IF BoxThere THEN Tail(commands) ELSE <<>>
       /\ boxCall' \in [verb : BOX_CALLS \cup {"none"}, answered : BOOLEAN]
       /\ boxCall'.verb = boxCall.verb /\ ~boxCall.answered
       /\ boxCall'.answered <=> BoxThere /\ Tail(commands) = <<>>
    BY <1>1, BoxRuns DEF BoxThere
  <1>2. commands = LeftOff /\ boxCall.verb = "drain"
    BY BoxLines, Lefts
  <1>3. BoxTypes'
    BY <1>2, Lefts DEF PolicyOff, BoxInv, BoxTypes, BoxThere, BoxLeft, BOX_CALLS
  <1>4. BoxCourse'
    BY <1>2, Lefts DEF PolicyOff, BoxInv, BoxTypes, BoxCourse, BoxThere, Restarts
  <1>5. BoxContractStep
    BY <1>2, Lefts DEF PolicyOff, Doomed, BoxInv, BoxTypes, BoxCourse, BoxThere, BoxContractStep,
        Contract!contractVars, Contract!Live, Contract!Work, Contract!Brought, Contract!INTO,
        Contract!OUT, Contract!AWAY, Restarts, Tree, VOLUMES
  <1>. QED BY <1>3, <1>4, <1>5 DEF BoxInv

LEMMA BoxWait ==
  ASSUME BoxInv, Wait PROVE BoxInv' /\ BoxContractStep
  <1>. DEFINE command == "wait"
  <1>1. Runs(command, TRUE)
    BY DEF Wait
  <1>. /\ commands # <<>> /\ Head(commands) = command
       /\ commands' = IF TRUE THEN Tail(commands) ELSE <<>>
       /\ boxCall' \in [verb : BOX_CALLS \cup {"none"}, answered : BOOLEAN]
       /\ boxCall'.verb = boxCall.verb /\ ~boxCall.answered
       /\ boxCall'.answered <=> TRUE /\ Tail(commands) = <<>>
    BY <1>1, BoxRuns DEF BoxThere
  <1>2. commands = LeftWait /\ boxCall.verb = "create"
    BY BoxLines, Lefts
  <1>3. BoxTypes'
    BY <1>2, Lefts DEF Wait, BoxInv, BoxTypes, BoxThere, BoxLeft, BOX_CALLS
  <1>4. BoxCourse'
    BY <1>2, Lefts DEF Wait, BoxInv, BoxTypes, BoxCourse, BoxThere, Restarts
  <1>5. BoxContractStep
    BY <1>2, Lefts DEF Wait, Doomed, BoxInv, BoxTypes, BoxCourse, BoxThere, BoxContractStep,
        Contract!contractVars, Contract!Live, Contract!Work, Contract!Brought, Contract!INTO,
        Contract!OUT, Contract!AWAY, Restarts, Tree, VOLUMES
  <1>. QED BY <1>3, <1>4, <1>5 DEF BoxInv

LEMMA BoxRun ==
  ASSUME BoxInv, Run PROVE BoxInv' /\ BoxContractStep
  <1>. DEFINE command == "run"
  <1>1. Runs(command, TRUE)
    BY DEF Run
  <1>. /\ commands # <<>> /\ Head(commands) = command
       /\ commands' = IF TRUE THEN Tail(commands) ELSE <<>>
       /\ boxCall' \in [verb : BOX_CALLS \cup {"none"}, answered : BOOLEAN]
       /\ boxCall'.verb = boxCall.verb /\ ~boxCall.answered
       /\ boxCall'.answered <=> TRUE /\ Tail(commands) = <<>>
    BY <1>1, BoxRuns DEF BoxThere
  <1>2. commands = LeftRun /\ boxCall.verb = "create"
    BY BoxLines, Lefts
  <1>3. BoxTypes'
    BY <1>2, Lefts DEF Run, BoxInv, BoxTypes, BoxThere, BoxLeft, BOX_CALLS
  <1>4. BoxCourse'
    BY <1>2, Lefts DEF Run, BoxInv, BoxTypes, BoxCourse, BoxThere, Restarts
  <1>5. BoxContractStep
    BY <1>2, Lefts DEF Run, Doomed, BoxInv, BoxTypes, BoxCourse, BoxThere, BoxContractStep,
        Contract!contractVars, Contract!Live, Contract!Work, Contract!Brought, Contract!INTO,
        Contract!OUT, Contract!AWAY, Restarts, Tree, VOLUMES
  <1>. QED BY <1>3, <1>4, <1>5 DEF BoxInv

LEMMA BoxTerm ==
  ASSUME BoxInv, Term PROVE BoxInv' /\ BoxContractStep
  <1>. DEFINE command == "term"
  <1>1. Runs(command, TRUE)
    BY DEF Term
  <1>. /\ commands # <<>> /\ Head(commands) = command
       /\ commands' = IF TRUE THEN Tail(commands) ELSE <<>>
       /\ boxCall' \in [verb : BOX_CALLS \cup {"none"}, answered : BOOLEAN]
       /\ boxCall'.verb = boxCall.verb /\ ~boxCall.answered
       /\ boxCall'.answered <=> TRUE /\ Tail(commands) = <<>>
    BY <1>1, BoxRuns DEF BoxThere
  <1>2. commands = LeftTerm /\ boxCall.verb = "drain"
    BY BoxLines, Lefts
  <1>3. BoxTypes'
    BY <1>2, Lefts DEF Term, BoxInv, BoxTypes, BoxThere, BoxLeft, BOX_CALLS
  <1>4. BoxCourse'
    BY <1>2, Lefts DEF Term, BoxInv, BoxTypes, BoxCourse, BoxThere, Restarts
  <1>5. BoxContractStep
    BY <1>2, Lefts DEF Term, Doomed, BoxInv, BoxTypes, BoxCourse, BoxThere, BoxContractStep,
        Contract!contractVars, Contract!Live, Contract!Work, Contract!Brought, Contract!INTO,
        Contract!OUT, Contract!AWAY, Restarts, Tree, VOLUMES
  <1>. QED BY <1>3, <1>4, <1>5 DEF BoxInv

LEMMA BoxRm ==
  ASSUME BoxInv, Rm PROVE BoxInv' /\ BoxContractStep
  <1>. DEFINE command == "rm"
  <1>1. Runs(command, TRUE)
    BY DEF Rm
  <1>. /\ commands # <<>> /\ Head(commands) = command
       /\ commands' = IF TRUE THEN Tail(commands) ELSE <<>>
       /\ boxCall' \in [verb : BOX_CALLS \cup {"none"}, answered : BOOLEAN]
       /\ boxCall'.verb = boxCall.verb /\ ~boxCall.answered
       /\ boxCall'.answered <=> TRUE /\ Tail(commands) = <<>>
    BY <1>1, BoxRuns DEF BoxThere
  <1>2. commands = LeftRm /\ boxCall.verb \in {"rebuild", "remove"}
    BY BoxLines, Lefts
  <1>3. BoxTypes'
    BY <1>2, Lefts DEF Rm, BoxInv, BoxTypes, BoxThere, BoxLeft, BOX_CALLS
  <1>4. BoxCourse'
    BY <1>2, Lefts DEF Rm, BoxInv, BoxTypes, BoxCourse, BoxThere, Restarts
  <1>5. BoxContractStep
    BY <1>2, Lefts DEF Rm, Doomed, BoxInv, BoxTypes, BoxCourse, BoxThere, BoxContractStep,
        Contract!contractVars, Contract!Live, Contract!Work, Contract!Brought, Contract!INTO,
        Contract!OUT, Contract!AWAY, Restarts, Tree, VOLUMES
  <1>. QED BY <1>3, <1>4, <1>5 DEF BoxInv

LEMMA BoxGoneAtLast ==
  ASSUME BoxInv, GoneAtLast PROVE BoxInv' /\ BoxContractStep
  <1>. DEFINE command == "gone"
  <1>1. Runs(command, TRUE)
    BY DEF GoneAtLast
  <1>. /\ commands # <<>> /\ Head(commands) = command
       /\ commands' = IF TRUE THEN Tail(commands) ELSE <<>>
       /\ boxCall' \in [verb : BOX_CALLS \cup {"none"}, answered : BOOLEAN]
       /\ boxCall'.verb = boxCall.verb /\ ~boxCall.answered
       /\ boxCall'.answered <=> TRUE /\ Tail(commands) = <<>>
    BY <1>1, BoxRuns DEF BoxThere
  <1>2. commands = LeftGone /\ boxCall.verb \in {"rebuild", "remove"}
    BY BoxLines, Lefts
  <1>3. BoxTypes'
    BY <1>2, Lefts DEF GoneAtLast, BoxInv, BoxTypes, BoxThere, BoxLeft, BOX_CALLS
  <1>4. BoxCourse'
    BY <1>2, Lefts DEF GoneAtLast, BoxInv, BoxTypes, BoxCourse, BoxThere, Restarts
  <1>5. BoxContractStep
    BY <1>2, Lefts DEF GoneAtLast, Doomed, BoxInv, BoxTypes, BoxCourse, BoxThere, BoxContractStep,
        Contract!contractVars, Contract!Live, Contract!Work, Contract!Brought, Contract!INTO,
        Contract!OUT, Contract!AWAY, Restarts, Tree, VOLUMES
  <1>. QED BY <1>3, <1>4, <1>5 DEF BoxInv

LEMMA BoxStop ==
  ASSUME BoxInv, Stop PROVE BoxInv' /\ BoxContractStep
  <1>. DEFINE command == "stop"
  <1>1. Runs(command, (BoxThere \/ boxCall.verb # "stop"))
    BY DEF Stop
  <1>. /\ commands # <<>> /\ Head(commands) = command
       /\ commands' = IF (BoxThere \/ boxCall.verb # "stop") THEN Tail(commands) ELSE <<>>
       /\ boxCall' \in [verb : BOX_CALLS \cup {"none"}, answered : BOOLEAN]
       /\ boxCall'.verb = boxCall.verb /\ ~boxCall.answered
       /\ boxCall'.answered <=> (BoxThere \/ boxCall.verb # "stop") /\ Tail(commands) = <<>>
    BY <1>1, BoxRuns DEF BoxThere
  <1>2. \/ commands = LeftStop /\ boxCall.verb = "stop"
        \/ commands = LeftAway /\ boxCall.verb \in {"rebuild", "remove"}
    BY BoxLines, Lefts
  <1>3. BoxTypes'
    BY <1>2, Lefts DEF Stop, BoxInv, BoxTypes, BoxThere, BoxLeft, BOX_CALLS
  <1>4. BoxCourse'
    BY <1>2, Lefts, ZenonT(40) DEF Stop, BoxInv, BoxTypes, BoxCourse, BoxThere, Restarts
  <1>5. BoxContractStep
    BY <1>2, Lefts DEF Stop, Doomed, BoxInv, BoxTypes, BoxCourse, BoxThere, BoxContractStep,
        Contract!contractVars, Contract!Live, Contract!Work, Contract!Brought, Contract!INTO,
        Contract!OUT, Contract!AWAY, Restarts, Tree, VOLUMES
  <1>. QED BY <1>3, <1>4, <1>5 DEF BoxInv

LEMMA BoxWillNotStop ==
  ASSUME BoxInv, WillNotStop PROVE BoxInv' /\ BoxContractStep
  <1>. DEFINE command == "stop"
  <1>1. Runs(command, TRUE)
    BY DEF WillNotStop
  <1>. /\ commands # <<>> /\ Head(commands) = command
       /\ commands' = IF TRUE THEN Tail(commands) ELSE <<>>
       /\ boxCall' \in [verb : BOX_CALLS \cup {"none"}, answered : BOOLEAN]
       /\ boxCall'.verb = boxCall.verb /\ ~boxCall.answered
       /\ boxCall'.answered <=> TRUE /\ Tail(commands) = <<>>
    BY <1>1, BoxRuns DEF BoxThere
  <1>2. \/ commands = LeftStop /\ boxCall.verb = "stop"
        \/ commands = LeftAway /\ boxCall.verb \in {"rebuild", "remove"}
    BY BoxLines, Lefts
  <1>3. BoxTypes'
    BY <1>2, Lefts DEF WillNotStop, BoxInv, BoxTypes, BoxThere, BoxLeft, BOX_CALLS
  <1>4. BoxCourse'
    BY <1>2, Lefts DEF WillNotStop, BoxInv, BoxTypes, BoxCourse, BoxThere, Restarts
  <1>5. BoxContractStep
    BY <1>2, Lefts DEF WillNotStop, Doomed, BoxInv, BoxTypes, BoxCourse, BoxThere, BoxContractStep,
        Contract!contractVars, Contract!Live, Contract!Work, Contract!Brought, Contract!INTO,
        Contract!OUT, Contract!AWAY, Restarts, Tree, VOLUMES
  <1>. QED BY <1>3, <1>4, <1>5 DEF BoxInv

LEMMA SameTruth ==
  ASSUME NEW a, NEW s, NEW t PROVE  (a \in s) # (a \in t) => ~(a \in s <=> a \in t)
  OBVIOUS

LEMMA BoxRemoveVolumes ==
  ASSUME BoxInv, NEW left, RemoveVolumes(left) PROVE BoxInv' /\ BoxContractStep
  <1>. DEFINE command == "volumes_rm"
  <1>1. Runs(command, (left = {}))
    BY DEF RemoveVolumes
  <1>. /\ commands # <<>> /\ Head(commands) = command
       /\ commands' = IF (left = {}) THEN Tail(commands) ELSE <<>>
       /\ boxCall' \in [verb : BOX_CALLS \cup {"none"}, answered : BOOLEAN]
       /\ boxCall'.verb = boxCall.verb /\ ~boxCall.answered
       /\ boxCall'.answered <=> (left = {}) /\ Tail(commands) = <<>>
    BY <1>1, BoxRuns DEF BoxThere
  <1>2. commands = LeftVolumes /\ boxCall.verb \in {"rebuild", "remove"}
    BY BoxLines, Lefts
  <1>3. BoxTypes'
    BY <1>2, Lefts DEF RemoveVolumes, BoxInv, BoxTypes, BoxThere, BoxLeft, BOX_CALLS
  <1>4. BoxCourse'
    BY <1>2, Lefts DEF RemoveVolumes, BoxInv, BoxTypes, BoxCourse, BoxThere, Restarts
  <1>5. BoxContractStep
    <2>1. /\ box = "absent" /\ box' = box /\ ~Restarts /\ ~Restarts'
          /\ ~boxCall.answered /\ boxCall'.verb = boxCall.verb
          /\ boxCall'.answered => left = {}
      BY <1>2, Lefts DEF RemoveVolumes, Restarts
    <2>2. left = {} => Tree' = {} /\ (boxCall.verb = "remove" => "kept" \notin volumes')
      BY <1>2 DEF RemoveVolumes, Doomed, Tree, VOLUMES
    <2>3. /\ "kept" \in volumes' => "kept" \in volumes
          /\ "kept" \in volumes /\ "kept" \notin volumes' => boxCall.verb = "remove"
      BY <1>2 DEF RemoveVolumes, Doomed
    <2>4. boxCall'.answered => Contract!Brought(boxCall.verb)'
      BY <1>2, <2>1, <2>2 DEF Contract!Brought, Contract!INTO, Contract!OUT, Contract!AWAY
    <2>5. ("kept" \in volumes)' # ("kept" \in volumes)
            => boxCall.verb = (IF ("kept" \in volumes)' THEN "create" ELSE "remove")
      BY <2>3, SameTruth
    <2>6. Contract!Work
      <3>1. boxCall.verb \in Contract!AWAY
        BY <1>2 DEF Contract!AWAY
      <3>. QED BY <2>1, <2>4, <2>5, <3>1 DEF Contract!Work
    <2>. QED BY <2>6 DEF BoxContractStep
  <1>. QED BY <1>3, <1>4, <1>5 DEF BoxInv

LEMMA BoxCreateVolume ==
  ASSUME BoxInv, NEW v \in VOLUMES, CreateVolume(v) PROVE BoxInv' /\ BoxContractStep
  <1>2. commands = LeftCreate /\ boxCall.verb = "create"
    BY BoxLines, Lefts DEF CreateVolume
  <1>3. BoxTypes'
    BY <1>2, Lefts DEF CreateVolume, BoxInv, BoxTypes, BoxThere, BoxLeft, BOX_CALLS
  <1>4. BoxCourse'
    BY <1>2, Lefts DEF CreateVolume, BoxInv, BoxTypes, BoxCourse, BoxThere
  <1>5. BoxContractStep
    <2>1. /\ UNCHANGED <<box, policy, halted>> /\ volumes \subseteq volumes' /\ volumes' \subseteq VOLUMES
          /\ ~boxCall.answered /\ boxCall' = boxCall
      BY <1>2, Lefts DEF CreateVolume, BoxInv, BoxTypes, BoxCourse
    <2>2. Tree' # Tree => Tree' # {}
      BY <2>1 DEF Tree
    <2>. QED BY <1>2, <2>1, <2>2 DEF BoxContractStep, Contract!Work, Restarts
  <1>. QED BY <1>3, <1>4, <1>5 DEF BoxInv

LEMMA BoxCut ==
  ASSUME BoxInv, BoxCallCut PROVE BoxInv' /\ BoxContractStep
  <1>1. BoxInv'
    BY Lefts DEF BoxCallCut, BoxInv, BoxTypes, BoxCourse, BoxThere
  <1>2. UNCHANGED Contract!contractVars
    BY DEF BoxCallCut, Contract!contractVars, Restarts, Tree
  <1>. QED BY <1>1, <1>2 DEF BoxContractStep

LEMMA BoxByItself ==
  ASSUME BoxInv, BoxExits \/ BoxRestarts \/ RemovalDone PROVE BoxInv' /\ BoxContractStep
  <1>1. BoxInv'
    <2>1. BoxTypes'
      BY DEF BoxExits, BoxRestarts, RemovalDone, BoxInv, BoxTypes, BoxLeft
    <2>2. BoxCourse'
      BY Lefts DEF BoxExits, BoxRestarts, RemovalDone, BoxInv, BoxTypes, BoxCourse, BoxThere
    <2>. QED BY <2>1, <2>2 DEF BoxInv
  <1>2. Contract!Live
    BY DEF BoxExits, BoxRestarts, RemovalDone, BoxInv, BoxTypes, BoxCourse, BoxThere, Contract!Live,
        Restarts, Tree
  <1>. QED BY <1>1, <1>2 DEF BoxContractStep

\* container
\* A container of Docker keeps the promises of a unit, whatever command fails
\* and whenever the daemon restarts (linux_container.py).
THEOREM ContainerKeepsTheContract == BoxSpec => ContainerIsAUnit
  <1>1. BoxInv /\ [BoxNext]_boxVars => BoxInv' /\ BoxContractStep
    <2>. SUFFICES ASSUME BoxInv, [BoxNext]_boxVars PROVE BoxInv' /\ BoxContractStep
      OBVIOUS
    <2>. QED BY BoxUnchanged, BoxBeginsACall, BoxLook, BoxStart, BoxPolicyOn, BoxPolicyOff, BoxWait,
        BoxRun, BoxTerm, BoxRm, BoxGoneAtLast, BoxStop, BoxWillNotStop, BoxRemoveVolumes,
        BoxCreateVolume, BoxCut, BoxByItself DEF BoxNext, BoxCallStep
  <1>. QED BY <1>1, BoxBegins, PTL DEF BoxSpec, ContainerIsAUnit, Contract!ContractSpec, BoxContractStep

-----------------------------------------------------------------------------
(* A Windows service (WindowsUnit).                                        *)

\* What is left of a call, once it is at a step.
SvcAtStarted == <<"started">>
SvcAtLook == <<"look">>
SvcAtStopped == <<"stopped">>
SvcAtDemand2 == <<"demand">>
SvcAtLookToDrain == <<"look_to_drain">>
SvcAtAsk == <<"ask">>
SvcAtNoRestart2 == <<"no_restart">>
SvcAtRmtree == <<"rmtree">>
SvcAtStart == <<"start", "started">>
SvcAtStop == <<"stop", "stopped">>
SvcAtNoRestart == <<"no_restart", "ask">>
SvcAtDemand4 == <<"demand", "no_restart">>
SvcAtUninstall == <<"uninstall", "rmtree">>
SvcAtMark == <<"mark", "start", "started">>
SvcAtStartType2 == <<"start_type", "start", "started">>
SvcAtDemand == <<"demand", "stop", "stopped">>
SvcAtDemand3 == <<"demand", "no_restart", "ask">>
SvcAtStop2 == <<"stop", "uninstall", "rmtree">>
SvcAtCopy == <<"copy", "mark", "start", "started">>
SvcAtRestart2 == <<"restart", "start_type", "start", "started">>
SvcAtQuiesce == <<"quiesce", "stop", "uninstall", "rmtree">>
SvcAtRestart == <<"restart", "copy", "mark", "start", "started">>
SvcAtUnask == <<"unask", "restart", "start_type", "start", "started">>
SvcAtStartType == <<"start_type", "restart", "copy", "mark", "start", "started">>
SvcAtInstall == <<"install", "start_type", "restart", "copy", "mark", "start", "started">>
SvcAtDirs == <<"dirs", "install", "start_type", "restart", "copy", "mark", "start", "started">>

LEMMA SvcHeads ==
  /\ SvcAtStarted # <<>> /\ Head(SvcAtStarted) = "started" /\ Tail(SvcAtStarted) = <<>>
  /\ SvcAtLook # <<>> /\ Head(SvcAtLook) = "look" /\ Tail(SvcAtLook) = <<>>
  /\ SvcAtStopped # <<>> /\ Head(SvcAtStopped) = "stopped" /\ Tail(SvcAtStopped) = <<>>
  /\ SvcAtDemand2 # <<>> /\ Head(SvcAtDemand2) = "demand" /\ Tail(SvcAtDemand2) = <<>>
  /\ SvcAtLookToDrain # <<>> /\ Head(SvcAtLookToDrain) = "look_to_drain" /\ Tail(SvcAtLookToDrain) = <<>>
  /\ SvcAtAsk # <<>> /\ Head(SvcAtAsk) = "ask" /\ Tail(SvcAtAsk) = <<>>
  /\ SvcAtNoRestart2 # <<>> /\ Head(SvcAtNoRestart2) = "no_restart" /\ Tail(SvcAtNoRestart2) = <<>>
  /\ SvcAtRmtree # <<>> /\ Head(SvcAtRmtree) = "rmtree" /\ Tail(SvcAtRmtree) = <<>>
  /\ SvcAtStart # <<>> /\ Head(SvcAtStart) = "start" /\ Tail(SvcAtStart) = SvcAtStarted
  /\ SvcAtStop # <<>> /\ Head(SvcAtStop) = "stop" /\ Tail(SvcAtStop) = SvcAtStopped
  /\ SvcAtNoRestart # <<>> /\ Head(SvcAtNoRestart) = "no_restart" /\ Tail(SvcAtNoRestart) = SvcAtAsk
  /\ SvcAtDemand4 # <<>> /\ Head(SvcAtDemand4) = "demand" /\ Tail(SvcAtDemand4) = SvcAtNoRestart2
  /\ SvcAtUninstall # <<>> /\ Head(SvcAtUninstall) = "uninstall" /\ Tail(SvcAtUninstall) = SvcAtRmtree
  /\ SvcAtMark # <<>> /\ Head(SvcAtMark) = "mark" /\ Tail(SvcAtMark) = SvcAtStart
  /\ SvcAtStartType2 # <<>> /\ Head(SvcAtStartType2) = "start_type" /\ Tail(SvcAtStartType2) = SvcAtStart
  /\ SvcAtDemand # <<>> /\ Head(SvcAtDemand) = "demand" /\ Tail(SvcAtDemand) = SvcAtStop
  /\ SvcAtDemand3 # <<>> /\ Head(SvcAtDemand3) = "demand" /\ Tail(SvcAtDemand3) = SvcAtNoRestart
  /\ SvcAtStop2 # <<>> /\ Head(SvcAtStop2) = "stop" /\ Tail(SvcAtStop2) = SvcAtUninstall
  /\ SvcAtCopy # <<>> /\ Head(SvcAtCopy) = "copy" /\ Tail(SvcAtCopy) = SvcAtMark
  /\ SvcAtRestart2 # <<>> /\ Head(SvcAtRestart2) = "restart" /\ Tail(SvcAtRestart2) = SvcAtStartType2
  /\ SvcAtQuiesce # <<>> /\ Head(SvcAtQuiesce) = "quiesce" /\ Tail(SvcAtQuiesce) = SvcAtStop2
  /\ SvcAtRestart # <<>> /\ Head(SvcAtRestart) = "restart" /\ Tail(SvcAtRestart) = SvcAtCopy
  /\ SvcAtUnask # <<>> /\ Head(SvcAtUnask) = "unask" /\ Tail(SvcAtUnask) = SvcAtRestart2
  /\ SvcAtStartType # <<>> /\ Head(SvcAtStartType) = "start_type" /\ Tail(SvcAtStartType) = SvcAtRestart
  /\ SvcAtInstall # <<>> /\ Head(SvcAtInstall) = "install" /\ Tail(SvcAtInstall) = SvcAtStartType
  /\ SvcAtDirs # <<>> /\ Head(SvcAtDirs) = "dirs" /\ Tail(SvcAtDirs) = SvcAtInstall
BY DEF SvcAtStarted, SvcAtLook, SvcAtStopped, SvcAtDemand2, SvcAtLookToDrain, SvcAtAsk,
    SvcAtNoRestart2, SvcAtRmtree, SvcAtStart, SvcAtStop, SvcAtNoRestart, SvcAtDemand4,
    SvcAtUninstall, SvcAtMark, SvcAtStartType2, SvcAtDemand, SvcAtDemand3, SvcAtStop2, SvcAtCopy,
    SvcAtRestart2, SvcAtQuiesce, SvcAtRestart, SvcAtUnask, SvcAtStartType, SvcAtInstall, SvcAtDirs

SvcLeft(verb) ==
  CASE verb = "create" -> {SvcAtDirs, SvcAtInstall, SvcAtStartType, SvcAtRestart, SvcAtCopy,
          SvcAtMark, SvcAtStart, SvcAtStarted}
    [] verb \in {"start", "cancel_drain"} -> {SvcAtUnask, SvcAtRestart2, SvcAtStartType2,
          SvcAtStart, SvcAtStarted}
    [] verb = "stop" -> {SvcAtLook, SvcAtDemand, SvcAtStop, SvcAtStopped, SvcAtDemand2}
    [] verb = "drain" -> {SvcAtLookToDrain, SvcAtDemand3, SvcAtNoRestart, SvcAtAsk, SvcAtDemand4,
          SvcAtNoRestart2}
    [] verb \in {"rebuild", "remove"} -> {SvcAtQuiesce, SvcAtStop2, SvcAtUninstall, SvcAtRmtree}
    [] OTHER -> {}

SvcAt ==
  IF steps = <<>> THEN "over"
  ELSE IF steps = SvcAtDemand2 THEN "demand_last"
  ELSE IF steps = SvcAtDemand4 THEN "demand_short"
  ELSE IF steps = SvcAtNoRestart2 THEN "no_restart_last"
  ELSE Head(steps)

SvcStepAt(place) ==
  CASE place = "demand_last" -> "demand"
    [] place = "demand_short" -> "demand"
    [] place = "no_restart_last" -> "no_restart"
    [] OTHER -> place

SvcQueue == steps = <<>> \/ steps \in SvcLeft(serviceCall.verb)

\* The step after a step.
SvcNext(verb, step) ==
  CASE verb = "create" ->
         (CASE step = "dirs" -> "install" [] step = "install" -> "start_type"
            [] step = "start_type" -> "restart" [] step = "restart" -> "copy"
            [] step = "copy" -> "mark" [] step = "mark" -> "start" [] step = "start" -> "started"
            [] step = "started" -> "over")
    [] verb \in {"start", "cancel_drain"} ->
         (CASE step = "unask" -> "restart" [] step = "restart" -> "start_type"
            [] step = "start_type" -> "start" [] step = "start" -> "started"
            [] step = "started" -> "over")
    [] verb = "stop" ->
         (CASE step = "look" -> "over" [] step = "demand" -> "stop" [] step = "stop" -> "stopped"
            [] step = "stopped" -> "over" [] step = "demand_last" -> "over")
    [] verb = "drain" ->
         (CASE step = "look_to_drain" -> "over" [] step = "demand" -> "no_restart"
            [] step = "no_restart" -> "ask" [] step = "ask" -> "over"
            [] step = "demand_short" -> "no_restart_last" [] step = "no_restart_last" -> "over")
    [] verb \in {"rebuild", "remove"} ->
         (CASE step = "quiesce" -> "stop" [] step = "stop" -> "uninstall"
            [] step = "uninstall" -> "rmtree" [] step = "rmtree" -> "over")

SvcSteps(verb) ==
  CASE verb = "create" -> {"dirs", "install", "start_type", "restart", "copy", "mark", "start",
          "started"}
    [] verb \in {"start", "cancel_drain"} -> {"unask", "restart", "start_type", "start", "started"}
    [] verb = "stop" -> {"look", "demand", "stop", "stopped", "demand_last"}
    [] verb = "drain" -> {"look_to_drain", "demand", "no_restart", "ask", "demand_short",
          "no_restart_last"}
    [] verb \in {"rebuild", "remove"} -> {"quiesce", "stop", "uninstall", "rmtree"}
    [] OTHER -> {}

SvcRestAt ==
  IF Tail(steps) = <<>> THEN "over"
  ELSE IF Tail(steps) = SvcAtDemand2 THEN "demand_last"
  ELSE IF Tail(steps) = SvcAtDemand4 THEN "demand_short"
  ELSE IF Tail(steps) = SvcAtNoRestart2 THEN "no_restart_last"
  ELSE Head(Tail(steps))

LEMMA SvcGoesOn ==
  ASSUME serviceCall.verb \in SERVICE_CALLS \cup {"none"}, SvcQueue, steps # <<>>
  PROVE  /\ SvcStepAt(SvcAt) = Head(steps) /\ SvcAt # "over" /\ SvcAt \in SvcSteps(serviceCall.verb)
         /\ SvcRestAt = SvcNext(serviceCall.verb, SvcAt)
         /\ Tail(steps) = <<>> <=> SvcNext(serviceCall.verb, SvcAt) = "over"
         /\ Tail(steps) = <<>> \/ Tail(steps) \in SvcLeft(serviceCall.verb)
  <1>1. steps \in SvcLeft(serviceCall.verb)
    BY DEF SvcQueue
  <1>2. CASE serviceCall.verb = "create"
    <2>1. CASE steps = SvcAtDirs
      <3>1. /\ SvcAtDirs # <<>> /\ Head(SvcAtDirs) = "dirs" /\ Tail(SvcAtDirs) = SvcAtInstall
            /\ SvcAtInstall # <<>> /\ Head(SvcAtInstall) = "install"
            /\ Head(SvcAtDemand2) = "demand"
            /\ Head(SvcAtDemand4) = "demand"
            /\ Head(SvcAtNoRestart2) = "no_restart"
        BY SvcHeads
      <3>. QED BY <1>1, <1>2, <2>1, <3>1 DEF SvcLeft, SvcNext, SvcSteps, SvcAt, SvcRestAt, SvcStepAt
    <2>2. CASE steps = SvcAtInstall
      <3>1. /\ SvcAtInstall # <<>> /\ Head(SvcAtInstall) = "install" /\ Tail(SvcAtInstall) = SvcAtStartType
            /\ SvcAtStartType # <<>> /\ Head(SvcAtStartType) = "start_type"
            /\ Head(SvcAtDemand2) = "demand"
            /\ Head(SvcAtDemand4) = "demand"
            /\ Head(SvcAtNoRestart2) = "no_restart"
        BY SvcHeads
      <3>. QED BY <1>1, <1>2, <2>2, <3>1 DEF SvcLeft, SvcNext, SvcSteps, SvcAt, SvcRestAt, SvcStepAt
    <2>3. CASE steps = SvcAtStartType
      <3>1. /\ SvcAtStartType # <<>> /\ Head(SvcAtStartType) = "start_type" /\ Tail(SvcAtStartType) = SvcAtRestart
            /\ SvcAtRestart # <<>> /\ Head(SvcAtRestart) = "restart"
            /\ Head(SvcAtDemand2) = "demand"
            /\ Head(SvcAtDemand4) = "demand"
            /\ Head(SvcAtNoRestart2) = "no_restart"
        BY SvcHeads
      <3>. QED BY <1>1, <1>2, <2>3, <3>1 DEF SvcLeft, SvcNext, SvcSteps, SvcAt, SvcRestAt, SvcStepAt
    <2>4. CASE steps = SvcAtRestart
      <3>1. /\ SvcAtRestart # <<>> /\ Head(SvcAtRestart) = "restart" /\ Tail(SvcAtRestart) = SvcAtCopy
            /\ SvcAtCopy # <<>> /\ Head(SvcAtCopy) = "copy"
            /\ Head(SvcAtDemand2) = "demand"
            /\ Head(SvcAtDemand4) = "demand"
            /\ Head(SvcAtNoRestart2) = "no_restart"
        BY SvcHeads
      <3>. QED BY <1>1, <1>2, <2>4, <3>1 DEF SvcLeft, SvcNext, SvcSteps, SvcAt, SvcRestAt, SvcStepAt
    <2>5. CASE steps = SvcAtCopy
      <3>1. /\ SvcAtCopy # <<>> /\ Head(SvcAtCopy) = "copy" /\ Tail(SvcAtCopy) = SvcAtMark
            /\ SvcAtMark # <<>> /\ Head(SvcAtMark) = "mark"
            /\ Head(SvcAtDemand2) = "demand"
            /\ Head(SvcAtDemand4) = "demand"
            /\ Head(SvcAtNoRestart2) = "no_restart"
        BY SvcHeads
      <3>. QED BY <1>1, <1>2, <2>5, <3>1 DEF SvcLeft, SvcNext, SvcSteps, SvcAt, SvcRestAt, SvcStepAt
    <2>6. CASE steps = SvcAtMark
      <3>1. /\ SvcAtMark # <<>> /\ Head(SvcAtMark) = "mark" /\ Tail(SvcAtMark) = SvcAtStart
            /\ SvcAtStart # <<>> /\ Head(SvcAtStart) = "start"
            /\ Head(SvcAtDemand2) = "demand"
            /\ Head(SvcAtDemand4) = "demand"
            /\ Head(SvcAtNoRestart2) = "no_restart"
        BY SvcHeads
      <3>. QED BY <1>1, <1>2, <2>6, <3>1 DEF SvcLeft, SvcNext, SvcSteps, SvcAt, SvcRestAt, SvcStepAt
    <2>7. CASE steps = SvcAtStart
      <3>1. /\ SvcAtStart # <<>> /\ Head(SvcAtStart) = "start" /\ Tail(SvcAtStart) = SvcAtStarted
            /\ SvcAtStarted # <<>> /\ Head(SvcAtStarted) = "started"
            /\ Head(SvcAtDemand2) = "demand"
            /\ Head(SvcAtDemand4) = "demand"
            /\ Head(SvcAtNoRestart2) = "no_restart"
        BY SvcHeads
      <3>. QED BY <1>1, <1>2, <2>7, <3>1 DEF SvcLeft, SvcNext, SvcSteps, SvcAt, SvcRestAt, SvcStepAt
    <2>8. CASE steps = SvcAtStarted
      <3>1. /\ SvcAtStarted # <<>> /\ Head(SvcAtStarted) = "started" /\ Tail(SvcAtStarted) = <<>>
            /\ Head(SvcAtDemand2) = "demand"
            /\ Head(SvcAtDemand4) = "demand"
            /\ Head(SvcAtNoRestart2) = "no_restart"
        BY SvcHeads
      <3>. QED BY <1>1, <1>2, <2>8, <3>1 DEF SvcLeft, SvcNext, SvcSteps, SvcAt, SvcRestAt, SvcStepAt
    <2>. QED BY <1>1, <1>2, <2>1, <2>2, <2>3, <2>4, <2>5, <2>6, <2>7, <2>8 DEF SvcLeft
  <1>3. CASE serviceCall.verb \in {"start", "cancel_drain"}
    <2>1. CASE steps = SvcAtUnask
      <3>1. /\ SvcAtUnask # <<>> /\ Head(SvcAtUnask) = "unask" /\ Tail(SvcAtUnask) = SvcAtRestart2
            /\ SvcAtRestart2 # <<>> /\ Head(SvcAtRestart2) = "restart"
            /\ Head(SvcAtDemand2) = "demand"
            /\ Head(SvcAtDemand4) = "demand"
            /\ Head(SvcAtNoRestart2) = "no_restart"
        BY SvcHeads
      <3>. QED BY <1>1, <1>3, <2>1, <3>1 DEF SvcLeft, SvcNext, SvcSteps, SvcAt, SvcRestAt, SvcStepAt
    <2>2. CASE steps = SvcAtRestart2
      <3>1. /\ SvcAtRestart2 # <<>> /\ Head(SvcAtRestart2) = "restart" /\ Tail(SvcAtRestart2) = SvcAtStartType2
            /\ SvcAtStartType2 # <<>> /\ Head(SvcAtStartType2) = "start_type"
            /\ Head(SvcAtDemand2) = "demand"
            /\ Head(SvcAtDemand4) = "demand"
            /\ Head(SvcAtNoRestart2) = "no_restart"
        BY SvcHeads
      <3>. QED BY <1>1, <1>3, <2>2, <3>1 DEF SvcLeft, SvcNext, SvcSteps, SvcAt, SvcRestAt, SvcStepAt
    <2>3. CASE steps = SvcAtStartType2
      <3>1. /\ SvcAtStartType2 # <<>> /\ Head(SvcAtStartType2) = "start_type" /\ Tail(SvcAtStartType2) = SvcAtStart
            /\ SvcAtStart # <<>> /\ Head(SvcAtStart) = "start"
            /\ Head(SvcAtDemand2) = "demand"
            /\ Head(SvcAtDemand4) = "demand"
            /\ Head(SvcAtNoRestart2) = "no_restart"
        BY SvcHeads
      <3>. QED BY <1>1, <1>3, <2>3, <3>1 DEF SvcLeft, SvcNext, SvcSteps, SvcAt, SvcRestAt, SvcStepAt
    <2>4. CASE steps = SvcAtStart
      <3>1. /\ SvcAtStart # <<>> /\ Head(SvcAtStart) = "start" /\ Tail(SvcAtStart) = SvcAtStarted
            /\ SvcAtStarted # <<>> /\ Head(SvcAtStarted) = "started"
            /\ Head(SvcAtDemand2) = "demand"
            /\ Head(SvcAtDemand4) = "demand"
            /\ Head(SvcAtNoRestart2) = "no_restart"
        BY SvcHeads
      <3>. QED BY <1>1, <1>3, <2>4, <3>1 DEF SvcLeft, SvcNext, SvcSteps, SvcAt, SvcRestAt, SvcStepAt
    <2>5. CASE steps = SvcAtStarted
      <3>1. /\ SvcAtStarted # <<>> /\ Head(SvcAtStarted) = "started" /\ Tail(SvcAtStarted) = <<>>
            /\ Head(SvcAtDemand2) = "demand"
            /\ Head(SvcAtDemand4) = "demand"
            /\ Head(SvcAtNoRestart2) = "no_restart"
        BY SvcHeads
      <3>. QED BY <1>1, <1>3, <2>5, <3>1 DEF SvcLeft, SvcNext, SvcSteps, SvcAt, SvcRestAt, SvcStepAt
    <2>. QED BY <1>1, <1>3, <2>1, <2>2, <2>3, <2>4, <2>5 DEF SvcLeft
  <1>4. CASE serviceCall.verb = "stop"
    <2>1. CASE steps = SvcAtLook
      <3>1. /\ SvcAtLook # <<>> /\ Head(SvcAtLook) = "look" /\ Tail(SvcAtLook) = <<>>
            /\ Head(SvcAtDemand2) = "demand"
            /\ Head(SvcAtDemand4) = "demand"
            /\ Head(SvcAtNoRestart2) = "no_restart"
        BY SvcHeads
      <3>. QED BY <1>1, <1>4, <2>1, <3>1 DEF SvcLeft, SvcNext, SvcSteps, SvcAt, SvcRestAt, SvcStepAt
    <2>2. CASE steps = SvcAtDemand
      <3>1. /\ SvcAtDemand # <<>> /\ Head(SvcAtDemand) = "demand" /\ Tail(SvcAtDemand) = SvcAtStop
            /\ SvcAtStop # <<>> /\ Head(SvcAtStop) = "stop"
            /\ SvcAtDemand # SvcAtDemand2
            /\ SvcAtDemand # SvcAtDemand4
            /\ Head(SvcAtDemand2) = "demand"
            /\ Head(SvcAtDemand4) = "demand"
            /\ Head(SvcAtNoRestart2) = "no_restart"
        BY SvcHeads
      <3>. QED BY <1>1, <1>4, <2>2, <3>1 DEF SvcLeft, SvcNext, SvcSteps, SvcAt, SvcRestAt, SvcStepAt
    <2>3. CASE steps = SvcAtStop
      <3>1. /\ SvcAtStop # <<>> /\ Head(SvcAtStop) = "stop" /\ Tail(SvcAtStop) = SvcAtStopped
            /\ SvcAtStopped # <<>> /\ Head(SvcAtStopped) = "stopped"
            /\ Head(SvcAtDemand2) = "demand"
            /\ Head(SvcAtDemand4) = "demand"
            /\ Head(SvcAtNoRestart2) = "no_restart"
        BY SvcHeads
      <3>. QED BY <1>1, <1>4, <2>3, <3>1 DEF SvcLeft, SvcNext, SvcSteps, SvcAt, SvcRestAt, SvcStepAt
    <2>4. CASE steps = SvcAtStopped
      <3>1. /\ SvcAtStopped # <<>> /\ Head(SvcAtStopped) = "stopped" /\ Tail(SvcAtStopped) = <<>>
            /\ Head(SvcAtDemand2) = "demand"
            /\ Head(SvcAtDemand4) = "demand"
            /\ Head(SvcAtNoRestart2) = "no_restart"
        BY SvcHeads
      <3>. QED BY <1>1, <1>4, <2>4, <3>1 DEF SvcLeft, SvcNext, SvcSteps, SvcAt, SvcRestAt, SvcStepAt
    <2>5. CASE steps = SvcAtDemand2
      <3>1. /\ SvcAtDemand2 # <<>> /\ Head(SvcAtDemand2) = "demand" /\ Tail(SvcAtDemand2) = <<>>
            /\ SvcAtDemand2 # SvcAtDemand4
            /\ Head(SvcAtDemand2) = "demand"
            /\ Head(SvcAtDemand4) = "demand"
            /\ Head(SvcAtNoRestart2) = "no_restart"
        BY SvcHeads
      <3>. QED BY <1>1, <1>4, <2>5, <3>1 DEF SvcLeft, SvcNext, SvcSteps, SvcAt, SvcRestAt, SvcStepAt
    <2>. QED BY <1>1, <1>4, <2>1, <2>2, <2>3, <2>4, <2>5 DEF SvcLeft
  <1>5. CASE serviceCall.verb = "drain"
    <2>1. CASE steps = SvcAtLookToDrain
      <3>1. /\ SvcAtLookToDrain # <<>> /\ Head(SvcAtLookToDrain) = "look_to_drain" /\ Tail(SvcAtLookToDrain) = <<>>
            /\ Head(SvcAtDemand2) = "demand"
            /\ Head(SvcAtDemand4) = "demand"
            /\ Head(SvcAtNoRestart2) = "no_restart"
        BY SvcHeads
      <3>. QED BY <1>1, <1>5, <2>1, <3>1 DEF SvcLeft, SvcNext, SvcSteps, SvcAt, SvcRestAt, SvcStepAt
    <2>2. CASE steps = SvcAtDemand3
      <3>1. /\ SvcAtDemand3 # <<>> /\ Head(SvcAtDemand3) = "demand" /\ Tail(SvcAtDemand3) = SvcAtNoRestart
            /\ SvcAtNoRestart # <<>> /\ Head(SvcAtNoRestart) = "no_restart"
            /\ SvcAtDemand3 # SvcAtDemand2
            /\ SvcAtDemand3 # SvcAtDemand4
            /\ SvcAtNoRestart # SvcAtNoRestart2
            /\ Head(SvcAtDemand2) = "demand"
            /\ Head(SvcAtDemand4) = "demand"
            /\ Head(SvcAtNoRestart2) = "no_restart"
        BY SvcHeads
      <3>. QED BY <1>1, <1>5, <2>2, <3>1 DEF SvcLeft, SvcNext, SvcSteps, SvcAt, SvcRestAt, SvcStepAt
    <2>3. CASE steps = SvcAtNoRestart
      <3>1. /\ SvcAtNoRestart # <<>> /\ Head(SvcAtNoRestart) = "no_restart" /\ Tail(SvcAtNoRestart) = SvcAtAsk
            /\ SvcAtAsk # <<>> /\ Head(SvcAtAsk) = "ask"
            /\ SvcAtNoRestart # SvcAtNoRestart2
            /\ Head(SvcAtDemand2) = "demand"
            /\ Head(SvcAtDemand4) = "demand"
            /\ Head(SvcAtNoRestart2) = "no_restart"
        BY SvcHeads
      <3>. QED BY <1>1, <1>5, <2>3, <3>1 DEF SvcLeft, SvcNext, SvcSteps, SvcAt, SvcRestAt, SvcStepAt
    <2>4. CASE steps = SvcAtAsk
      <3>1. /\ SvcAtAsk # <<>> /\ Head(SvcAtAsk) = "ask" /\ Tail(SvcAtAsk) = <<>>
            /\ Head(SvcAtDemand2) = "demand"
            /\ Head(SvcAtDemand4) = "demand"
            /\ Head(SvcAtNoRestart2) = "no_restart"
        BY SvcHeads
      <3>. QED BY <1>1, <1>5, <2>4, <3>1 DEF SvcLeft, SvcNext, SvcSteps, SvcAt, SvcRestAt, SvcStepAt
    <2>5. CASE steps = SvcAtDemand4
      <3>1. /\ SvcAtDemand4 # <<>> /\ Head(SvcAtDemand4) = "demand" /\ Tail(SvcAtDemand4) = SvcAtNoRestart2
            /\ SvcAtNoRestart2 # <<>> /\ Head(SvcAtNoRestart2) = "no_restart"
            /\ SvcAtDemand4 # SvcAtDemand2
            /\ Head(SvcAtDemand2) = "demand"
            /\ Head(SvcAtDemand4) = "demand"
            /\ Head(SvcAtNoRestart2) = "no_restart"
        BY SvcHeads
      <3>. QED BY <1>1, <1>5, <2>5, <3>1 DEF SvcLeft, SvcNext, SvcSteps, SvcAt, SvcRestAt, SvcStepAt
    <2>6. CASE steps = SvcAtNoRestart2
      <3>1. /\ SvcAtNoRestart2 # <<>> /\ Head(SvcAtNoRestart2) = "no_restart" /\ Tail(SvcAtNoRestart2) = <<>>
            /\ Head(SvcAtDemand2) = "demand"
            /\ Head(SvcAtDemand4) = "demand"
            /\ Head(SvcAtNoRestart2) = "no_restart"
        BY SvcHeads
      <3>. QED BY <1>1, <1>5, <2>6, <3>1 DEF SvcLeft, SvcNext, SvcSteps, SvcAt, SvcRestAt, SvcStepAt
    <2>. QED BY <1>1, <1>5, <2>1, <2>2, <2>3, <2>4, <2>5, <2>6 DEF SvcLeft
  <1>6. CASE serviceCall.verb \in {"rebuild", "remove"}
    <2>1. CASE steps = SvcAtQuiesce
      <3>1. /\ SvcAtQuiesce # <<>> /\ Head(SvcAtQuiesce) = "quiesce" /\ Tail(SvcAtQuiesce) = SvcAtStop2
            /\ SvcAtStop2 # <<>> /\ Head(SvcAtStop2) = "stop"
            /\ Head(SvcAtDemand2) = "demand"
            /\ Head(SvcAtDemand4) = "demand"
            /\ Head(SvcAtNoRestart2) = "no_restart"
        BY SvcHeads
      <3>. QED BY <1>1, <1>6, <2>1, <3>1 DEF SvcLeft, SvcNext, SvcSteps, SvcAt, SvcRestAt, SvcStepAt
    <2>2. CASE steps = SvcAtStop2
      <3>1. /\ SvcAtStop2 # <<>> /\ Head(SvcAtStop2) = "stop" /\ Tail(SvcAtStop2) = SvcAtUninstall
            /\ SvcAtUninstall # <<>> /\ Head(SvcAtUninstall) = "uninstall"
            /\ Head(SvcAtDemand2) = "demand"
            /\ Head(SvcAtDemand4) = "demand"
            /\ Head(SvcAtNoRestart2) = "no_restart"
        BY SvcHeads
      <3>. QED BY <1>1, <1>6, <2>2, <3>1 DEF SvcLeft, SvcNext, SvcSteps, SvcAt, SvcRestAt, SvcStepAt
    <2>3. CASE steps = SvcAtUninstall
      <3>1. /\ SvcAtUninstall # <<>> /\ Head(SvcAtUninstall) = "uninstall" /\ Tail(SvcAtUninstall) = SvcAtRmtree
            /\ SvcAtRmtree # <<>> /\ Head(SvcAtRmtree) = "rmtree"
            /\ Head(SvcAtDemand2) = "demand"
            /\ Head(SvcAtDemand4) = "demand"
            /\ Head(SvcAtNoRestart2) = "no_restart"
        BY SvcHeads
      <3>. QED BY <1>1, <1>6, <2>3, <3>1 DEF SvcLeft, SvcNext, SvcSteps, SvcAt, SvcRestAt, SvcStepAt
    <2>4. CASE steps = SvcAtRmtree
      <3>1. /\ SvcAtRmtree # <<>> /\ Head(SvcAtRmtree) = "rmtree" /\ Tail(SvcAtRmtree) = <<>>
            /\ Head(SvcAtDemand2) = "demand"
            /\ Head(SvcAtDemand4) = "demand"
            /\ Head(SvcAtNoRestart2) = "no_restart"
        BY SvcHeads
      <3>. QED BY <1>1, <1>6, <2>4, <3>1 DEF SvcLeft, SvcNext, SvcSteps, SvcAt, SvcRestAt, SvcStepAt
    <2>. QED BY <1>1, <1>6, <2>1, <2>2, <2>3, <2>4 DEF SvcLeft
  <1>7. CASE serviceCall.verb = "none"
    BY <1>1, <1>7 DEF SvcLeft
  <1>. QED BY <1>1, <1>2, <1>3, <1>4, <1>5, <1>6, <1>7 DEF SERVICE_CALLS

\* The state of a service, and what it is like while a call is under way.
WinTypes ==
  /\ service \in {"absent", "stopped", "starting", "running", "stopping"}
  /\ copy \in {"none", "part", "whole"}
  /\ managed \in BOOLEAN /\ auto \in BOOLEAN /\ again \in BOOLEAN
  /\ marker \in BOOLEAN /\ enrolled \in BOOLEAN /\ askedToDrain \in BOOLEAN /\ caches \in BOOLEAN
  /\ serviceCall \in [verb : SERVICE_CALLS \cup {"none"}, answered : BOOLEAN]
  /\ SvcQueue

WinCourse ==
  /\ SvcAt # "over" => ~serviceCall.answered
  /\ service = "absent" => ~auto
  /\ enrolled => copy = "whole" /\ marker
  /\ serviceCall.verb = "create" /\ SvcAt # "over" => ~askedToDrain
  /\ serviceCall.verb \in {"start", "cancel_drain"} /\ SvcAt \notin {"unask", "over"} => ~askedToDrain
  /\ serviceCall.verb = "create" /\ SvcAt \notin {"dirs", "over"} => caches
  /\ serviceCall.verb = "create" /\ SvcAt \in {"mark", "start", "started"} => copy = "whole"
  /\ serviceCall.verb = "create" /\ SvcAt \in {"start", "started"} => marker
  /\ SvcAt \in {"copy", "mark", "start", "started"} => again
  /\ serviceCall.verb # "create" /\ SvcAt = "start_type" => again
  /\ SvcAt = "demand_last" => service = "stopped"
  /\ SvcAt \in {"stopped", "no_restart", "no_restart_last", "ask"} => ~auto
  /\ serviceCall.verb = "stop" /\ SvcAt = "stop" => ~auto
  /\ SvcAt = "ask" => ~again
  /\ SvcAt = "rmtree" => service = "absent"

WinInv == WinTypes /\ WinCourse

WinContractStep ==
  [WinContract!BeginCall \/ WinContract!Live \/ WinContract!Work]_(WinContract!contractVars)

LEMMA WinBegins == WinInit => WinInv /\ WinContract!ContractInit
  <1>. SUFFICES ASSUME WinInit PROVE WinInv /\ WinContract!ContractInit
    OBVIOUS
  <1>1. /\ serviceCall.verb = "none" /\ serviceCall.answered = FALSE
        /\ serviceCall \in [verb : SERVICE_CALLS \cup {"none"}, answered : BOOLEAN]
        /\ SvcAt = "over"
    BY DEF WinInit, SvcAt
  <1>2. WinTypes
    BY <1>1 DEF WinInit, WinTypes, SvcQueue
  <1>3. WinCourse
    BY <1>1 DEF WinInit, WinCourse
  <1>4. WinContract!ContractInit
    BY <1>1 DEF WinInit, WinContract!ContractInit, UpAtAll, Installed
  <1>. QED BY <1>2, <1>3, <1>4 DEF WinInv

LEMMA WinUnchanged ==
  ASSUME WinInv, UNCHANGED winVars PROVE WinInv' /\ WinContractStep
  BY DEF winVars, WinInv, WinTypes, SvcQueue, SvcLeft, SvcAt, WinCourse, WinContractStep,
      WinContract!contractVars, UpAtAll, Installed

LEMMA WinBeginsACall ==
  ASSUME WinInv, NEW verb \in SERVICE_CALLS, BeginService(verb) PROVE WinInv' /\ WinContractStep
  <1>1. /\ serviceCall'.verb = verb /\ serviceCall'.answered = FALSE
        /\ serviceCall' \in [verb : SERVICE_CALLS \cup {"none"}, answered : BOOLEAN]
        /\ UNCHANGED <<managed, service, auto, again, copy, marker, enrolled, askedToDrain, caches>>
        /\ verb = "create" => ~askedToDrain
    BY DEF BeginService, manager, files
  <1>2. steps' = CASE verb = "create" -> SvcAtDirs
                   [] verb \in {"start", "cancel_drain"} -> SvcAtUnask
                   [] verb = "stop" -> SvcAtLook
                   [] verb = "drain" -> SvcAtLookToDrain
                   [] verb \in {"rebuild", "remove"} -> SvcAtQuiesce
    BY DEF BeginService, StepsOf, SERVICE_CALLS, SvcAtDirs, SvcAtUnask, SvcAtLook, SvcAtLookToDrain,
        SvcAtQuiesce
  <1>3. SvcAt' = CASE verb = "create" -> "dirs"
                   [] verb \in {"start", "cancel_drain"} -> "unask"
                   [] verb = "stop" -> "look"
                   [] verb = "drain" -> "look_to_drain"
                   [] verb \in {"rebuild", "remove"} -> "quiesce"
    <2>1. SvcAtDirs # <<>> /\ SvcAtDirs # SvcAtDemand2 /\ SvcAtDirs # SvcAtDemand4 /\ SvcAtDirs # SvcAtNoRestart2
      BY SvcHeads
    <2>3. SvcAtUnask # <<>> /\ SvcAtUnask # SvcAtDemand2 /\ SvcAtUnask # SvcAtDemand4 /\ SvcAtUnask # SvcAtNoRestart2
      BY SvcHeads
    <2>4. SvcAtLook # <<>> /\ SvcAtLook # SvcAtDemand2 /\ SvcAtLook # SvcAtDemand4 /\ SvcAtLook # SvcAtNoRestart2
      BY SvcHeads
    <2>5. SvcAtLookToDrain # <<>> /\ SvcAtLookToDrain # SvcAtDemand2 /\ SvcAtLookToDrain # SvcAtDemand4 /\ SvcAtLookToDrain # SvcAtNoRestart2
      BY SvcHeads
    <2>6. SvcAtQuiesce # <<>> /\ SvcAtQuiesce # SvcAtDemand2 /\ SvcAtQuiesce # SvcAtDemand4 /\ SvcAtQuiesce # SvcAtNoRestart2
      BY SvcHeads
    <2>2. /\ Head(SvcAtDirs) = "dirs" /\ Head(SvcAtUnask) = "unask" /\ Head(SvcAtLook) = "look"
          /\ Head(SvcAtLookToDrain) = "look_to_drain" /\ Head(SvcAtQuiesce) = "quiesce"
      BY SvcHeads
    <2>. QED BY <1>2, <2>1, <2>2, <2>3, <2>4, <2>5, <2>6 DEF SvcAt, SERVICE_CALLS
  <1>7. SvcQueue'
    <2>1. steps' \in SvcLeft(verb)
      BY <1>2 DEF SvcLeft, SERVICE_CALLS
    <2>. QED BY <1>1, <2>1 DEF SvcQueue
  <1>4. WinTypes'
    BY <1>1, <1>7 DEF WinInv, WinTypes
  <1>5. WinCourse'
    BY <1>1, <1>3 DEF WinInv, WinCourse, SERVICE_CALLS
  <1>6. WinContract!BeginCall
    BY <1>1 DEF SERVICE_CALLS, WinContract!BeginCall, WinContract!UNIT_CALLS, WinContract!INTO,
        WinContract!OUT, WinContract!AWAY, UpAtAll, Installed
  <1>. QED BY <1>4, <1>5, <1>6 DEF WinInv, WinContractStep

LEMMA WinCut ==
  ASSUME WinInv, ServiceCut PROVE WinInv' /\ WinContractStep
  <1>1. /\ steps' = <<>> /\ SvcAt' = "over"
        /\ UNCHANGED <<managed, service, auto, again, copy, marker, enrolled, askedToDrain, caches, serviceCall>>
    BY DEF ServiceCut, manager, files, SvcAt
  <1>2. WinInv'
    BY <1>1 DEF WinInv, WinTypes, SvcQueue, WinCourse
  <1>. QED BY <1>1, <1>2 DEF WinContractStep, WinContract!contractVars, UpAtAll, Installed

LEMMA WinDoes ==
  ASSUME WinInv, NEW step, NEW possible \in BOOLEAN, Through(step, possible)
  PROVE  /\ SvcStepAt(SvcAt) = step /\ SvcAt \in SvcSteps(serviceCall.verb) /\ SvcAt # "over"
         /\ SvcAt' = IF possible THEN SvcNext(serviceCall.verb, SvcAt) ELSE "over"
         /\ SvcQueue'
         /\ serviceCall' \in [verb : SERVICE_CALLS \cup {"none"}, answered : BOOLEAN]
         /\ serviceCall'.verb = serviceCall.verb /\ serviceCall.verb \in SERVICE_CALLS /\ ~serviceCall.answered
         /\ serviceCall'.answered <=> possible /\ SvcAt' = "over"
  <1>1. serviceCall.verb \in SERVICE_CALLS \cup {"none"} /\ SvcQueue /\ steps # <<>> /\ Head(steps) = step
    BY DEF WinInv, WinTypes, Through, Carries
  <1>2. /\ SvcStepAt(SvcAt) = step /\ SvcAt # "over" /\ SvcAt \in SvcSteps(serviceCall.verb)
        /\ SvcRestAt = SvcNext(serviceCall.verb, SvcAt)
        /\ Tail(steps) = <<>> <=> SvcNext(serviceCall.verb, SvcAt) = "over"
        /\ Tail(steps) = <<>> \/ Tail(steps) \in SvcLeft(serviceCall.verb)
    BY <1>1, SvcGoesOn
  <1>3. /\ serviceCall' \in [verb : SERVICE_CALLS \cup {"none"}, answered : BOOLEAN]
        /\ serviceCall'.verb = serviceCall.verb
        /\ serviceCall'.answered <=> possible /\ Tail(steps) = <<>>
        /\ steps' = IF possible THEN Tail(steps) ELSE <<>>
    BY DEF Through, WinInv, WinTypes
  <1>4. SvcAt' = IF possible THEN SvcNext(serviceCall.verb, SvcAt) ELSE "over"
    BY <1>2, <1>3 DEF SvcAt, SvcRestAt
  <1>5. SvcQueue'
    BY <1>2, <1>3 DEF SvcQueue
  <1>6. ~serviceCall.answered
    BY <1>2 DEF WinInv, WinCourse
  <1>7. serviceCall.verb \in SERVICE_CALLS
    BY <1>1, <1>2 DEF SvcSteps, SERVICE_CALLS
  <1>. QED BY <1>2, <1>3, <1>4, <1>5, <1>6, <1>7

LEMMA WinMakeDirs ==
  ASSUME WinInv, MakeDirs PROVE WinInv' /\ WinContractStep
  <1>1. Through("dirs", TRUE) /\ TRUE \in BOOLEAN
    BY DEF MakeDirs, WinInv, WinTypes, Installed, Settled
  <1>2. /\ SvcStepAt(SvcAt) = "dirs" /\ SvcAt \in SvcSteps(serviceCall.verb)
        /\ SvcAt' = IF TRUE THEN SvcNext(serviceCall.verb, SvcAt) ELSE "over"
        /\ SvcQueue'
        /\ serviceCall' \in [verb : SERVICE_CALLS \cup {"none"}, answered : BOOLEAN]
        /\ serviceCall'.verb = serviceCall.verb /\ serviceCall.verb \in SERVICE_CALLS /\ ~serviceCall.answered
        /\ serviceCall'.answered <=> TRUE /\ SvcAt' = "over"
    BY <1>1, WinDoes, Zenon
  <1>3. serviceCall.verb = "create" /\ SvcAt = "dirs" /\ SvcAt' = "install"
    BY <1>2 DEF SvcSteps, SvcNext, SvcStepAt, SERVICE_CALLS
  <1>4. UNCHANGED <<managed, service, auto, again, marker, enrolled, askedToDrain>>
    BY <1>1 DEF MakeDirs, Through, calling, manager, files
  <1>5. WinTypes'
    BY <1>2, <1>4 DEF MakeDirs, WinInv, WinTypes, manager, Installed
  <1>6. WinCourse'
    BY <1>2, <1>3, <1>4 DEF MakeDirs, WinInv, WinTypes, WinCourse, manager, Installed, Settled,
        Incomplete
  <1>7. WinContractStep
    <2>1. ~serviceCall.answered /\ serviceCall'.verb = serviceCall.verb
      BY <1>2
    <2>2. UNCHANGED <<IF UpAtAll THEN "up" ELSE IF Installed THEN "down" ELSE "absent", auto \/ (again /\ UpAtAll)>>
      BY <1>4 DEF UpAtAll, Installed
    <2>3. serviceCall'.answered => WinContract!Brought(serviceCall.verb)'
      BY <1>2, <1>3, <1>4 DEF MakeDirs, manager, WinInv, WinTypes, WinCourse, UpAtAll, Installed,
          WinContract!Brought, WinContract!INTO, WinContract!OUT, WinContract!AWAY
    <2>4. askedToDrain' => askedToDrain \/ serviceCall.verb = "drain"
      BY <1>3, <1>4 DEF MakeDirs, manager, WinInv, WinTypes, WinCourse, UpAtAll, Installed
    <2>5. (IF copy = "whole" /\ ~marker THEN "part" ELSE copy)' # (IF copy = "whole" /\ ~marker THEN "part" ELSE copy)
            => serviceCall.verb \in WinContract!AWAY
               \/ (serviceCall.verb = "create" /\ (IF copy = "whole" /\ ~marker THEN "part" ELSE copy)' # "none")
      BY <1>3, <1>4 DEF MakeDirs, manager, WinInv, WinTypes, WinCourse, UpAtAll, Installed,
          WinContract!AWAY
    <2>6. /\ ~caches /\ caches' => serviceCall.verb = "create"
          /\ caches /\ ~caches' => serviceCall.verb = "remove"
          /\ caches \in BOOLEAN /\ caches' \in BOOLEAN
      BY <1>3, <1>4, <1>5 DEF MakeDirs, manager, WinInv, WinTypes, WinCourse, UpAtAll, Installed
    <2>7. caches' # caches => serviceCall.verb = (IF caches' THEN "create" ELSE "remove")
      BY <2>6
    <2>. QED BY <2>1, <2>2, <2>3, <2>4, <2>5, <2>7 DEF WinContractStep, WinContract!Work
  <1>. QED BY <1>5, <1>6, <1>7 DEF WinInv

LEMMA WinInstall ==
  ASSUME WinInv, Install PROVE WinInv' /\ WinContractStep
  <1>1. Through("install", TRUE) /\ TRUE \in BOOLEAN
    BY DEF Install, WinInv, WinTypes, Installed, Settled
  <1>2. /\ SvcStepAt(SvcAt) = "install" /\ SvcAt \in SvcSteps(serviceCall.verb)
        /\ SvcAt' = IF TRUE THEN SvcNext(serviceCall.verb, SvcAt) ELSE "over"
        /\ SvcQueue'
        /\ serviceCall' \in [verb : SERVICE_CALLS \cup {"none"}, answered : BOOLEAN]
        /\ serviceCall'.verb = serviceCall.verb /\ serviceCall.verb \in SERVICE_CALLS /\ ~serviceCall.answered
        /\ serviceCall'.answered <=> TRUE /\ SvcAt' = "over"
    BY <1>1, WinDoes, Zenon
  <1>3. serviceCall.verb = "create" /\ SvcAt = "install" /\ SvcAt' = "start_type"
    BY <1>2 DEF SvcSteps, SvcNext, SvcStepAt, SERVICE_CALLS
  <1>4. UNCHANGED <<managed, copy, marker, enrolled, askedToDrain, caches>>
    BY <1>1 DEF Install, Through, calling, manager, files
  <1>5. WinTypes'
    BY <1>2, <1>4 DEF Install, WinInv, WinTypes, manager, Installed
  <1>6. WinCourse'
    BY <1>2, <1>3, <1>4 DEF Install, WinInv, WinTypes, WinCourse, manager, Installed, Settled,
        Incomplete
  <1>7. WinContractStep
    BY <1>2, <1>3, <1>4 DEF Install, manager, WinInv, WinTypes, WinCourse, UpAtAll, Installed,
        Settled, Incomplete, WinContractStep, WinContract!contractVars, WinContract!Work,
        WinContract!Brought, WinContract!INTO, WinContract!OUT, WinContract!AWAY
  <1>. QED BY <1>5, <1>6, <1>7 DEF WinInv

LEMMA WinSetStartType ==
  ASSUME WinInv, SetStartType PROVE WinInv' /\ WinContractStep
  <1>1. Through("start_type", Installed) /\ Installed \in BOOLEAN
    BY DEF SetStartType, WinInv, WinTypes, Installed, Settled
  <1>2. /\ SvcStepAt(SvcAt) = "start_type" /\ SvcAt \in SvcSteps(serviceCall.verb)
        /\ SvcAt' = IF Installed THEN SvcNext(serviceCall.verb, SvcAt) ELSE "over"
        /\ SvcQueue'
        /\ serviceCall' \in [verb : SERVICE_CALLS \cup {"none"}, answered : BOOLEAN]
        /\ serviceCall'.verb = serviceCall.verb /\ serviceCall.verb \in SERVICE_CALLS /\ ~serviceCall.answered
        /\ serviceCall'.answered <=> Installed /\ SvcAt' = "over"
    BY <1>1, WinDoes, Zenon
  <1>3. \/ serviceCall.verb = "create" /\ SvcAt = "start_type" /\ SvcAt' = IF Installed THEN "restart" ELSE "over"
        \/ serviceCall.verb \in {"cancel_drain", "start"} /\ SvcAt = "start_type" /\ SvcAt' = IF Installed THEN "start" ELSE "over"
    BY <1>2 DEF SvcSteps, SvcNext, SvcStepAt, SERVICE_CALLS
  <1>4. UNCHANGED <<managed, service, again, copy, marker, enrolled, askedToDrain, caches>>
    BY <1>1 DEF SetStartType, Through, calling, manager, files
  <1>20. auto' \in BOOLEAN
    BY <1>1, Zenon DEF SetStartType, WinInv, WinTypes, Installed
  <1>5. WinTypes'
    BY <1>2, <1>4, <1>20 DEF SetStartType, WinInv, WinTypes, manager, Installed
  <1>6. WinCourse'
    BY <1>2, <1>3, <1>4 DEF SetStartType, WinInv, WinTypes, WinCourse, manager, Installed, Settled,
        Incomplete
  <1>7. WinContractStep
    BY <1>2, <1>3, <1>4 DEF SetStartType, manager, WinInv, WinTypes, WinCourse, UpAtAll, Installed,
        Settled, Incomplete, WinContractStep, WinContract!contractVars, WinContract!Work,
        WinContract!Brought, WinContract!INTO, WinContract!OUT, WinContract!AWAY
  <1>. QED BY <1>5, <1>6, <1>7 DEF WinInv

LEMMA WinSetDemand ==
  ASSUME WinInv, SetDemand PROVE WinInv' /\ WinContractStep
  <1>1. Through("demand", Installed) /\ Installed \in BOOLEAN
    BY DEF SetDemand, WinInv, WinTypes, Installed, Settled
  <1>2. /\ SvcStepAt(SvcAt) = "demand" /\ SvcAt \in SvcSteps(serviceCall.verb)
        /\ SvcAt' = IF Installed THEN SvcNext(serviceCall.verb, SvcAt) ELSE "over"
        /\ SvcQueue'
        /\ serviceCall' \in [verb : SERVICE_CALLS \cup {"none"}, answered : BOOLEAN]
        /\ serviceCall'.verb = serviceCall.verb /\ serviceCall.verb \in SERVICE_CALLS /\ ~serviceCall.answered
        /\ serviceCall'.answered <=> Installed /\ SvcAt' = "over"
    BY <1>1, WinDoes, Zenon
  <1>3. \/ serviceCall.verb = "stop" /\ SvcAt = "demand" /\ SvcAt' = IF Installed THEN "stop" ELSE "over"
        \/ serviceCall.verb = "stop" /\ SvcAt = "demand_last" /\ SvcAt' = "over"
        \/ serviceCall.verb = "drain" /\ SvcAt = "demand" /\ SvcAt' = IF Installed THEN "no_restart" ELSE "over"
        \/ serviceCall.verb = "drain" /\ SvcAt = "demand_short" /\ SvcAt' = IF Installed THEN "no_restart_last" ELSE "over"
    BY <1>2 DEF SvcSteps, SvcNext, SvcStepAt, SERVICE_CALLS
  <1>4. UNCHANGED <<managed, service, again, copy, marker, enrolled, askedToDrain, caches>>
    BY <1>1 DEF SetDemand, Through, calling, manager, files
  <1>5. WinTypes'
    BY <1>2, <1>4 DEF SetDemand, WinInv, WinTypes, manager, Installed
  <1>6. WinCourse'
    BY <1>2, <1>3, <1>4 DEF SetDemand, WinInv, WinTypes, WinCourse, manager, Installed, Settled,
        Incomplete
  <1>7. WinContractStep
    BY <1>2, <1>3, <1>4 DEF SetDemand, manager, WinInv, WinTypes, WinCourse, UpAtAll, Installed,
        Settled, Incomplete, WinContractStep, WinContract!contractVars, WinContract!Work,
        WinContract!Brought, WinContract!INTO, WinContract!OUT, WinContract!AWAY
  <1>. QED BY <1>5, <1>6, <1>7 DEF WinInv

LEMMA WinSetRestart ==
  ASSUME WinInv, SetRestart PROVE WinInv' /\ WinContractStep
  <1>1. Through("restart", Installed) /\ Installed \in BOOLEAN
    BY DEF SetRestart, WinInv, WinTypes, Installed, Settled
  <1>2. /\ SvcStepAt(SvcAt) = "restart" /\ SvcAt \in SvcSteps(serviceCall.verb)
        /\ SvcAt' = IF Installed THEN SvcNext(serviceCall.verb, SvcAt) ELSE "over"
        /\ SvcQueue'
        /\ serviceCall' \in [verb : SERVICE_CALLS \cup {"none"}, answered : BOOLEAN]
        /\ serviceCall'.verb = serviceCall.verb /\ serviceCall.verb \in SERVICE_CALLS /\ ~serviceCall.answered
        /\ serviceCall'.answered <=> Installed /\ SvcAt' = "over"
    BY <1>1, WinDoes, Zenon
  <1>3. \/ serviceCall.verb = "create" /\ SvcAt = "restart" /\ SvcAt' = IF Installed THEN "copy" ELSE "over"
        \/ serviceCall.verb \in {"cancel_drain", "start"} /\ SvcAt = "restart" /\ SvcAt' = IF Installed THEN "start_type" ELSE "over"
    BY <1>2 DEF SvcSteps, SvcNext, SvcStepAt, SERVICE_CALLS
  <1>4. UNCHANGED <<managed, service, auto, copy, marker, enrolled, askedToDrain, caches>>
    BY <1>1 DEF SetRestart, Through, calling, manager, files
  <1>20. again' \in BOOLEAN
    BY <1>1, Zenon DEF SetRestart, WinInv, WinTypes, Installed
  <1>5. WinTypes'
    BY <1>2, <1>4, <1>20 DEF SetRestart, WinInv, WinTypes, manager, Installed
  <1>6. WinCourse'
    <2>1. again' = Installed
      BY DEF SetRestart
    <2>2. CASE Installed
      <3>1. again' = TRUE /\ service # "absent"
        BY <2>1, <2>2 DEF Installed
      <3>. QED BY <1>2, <1>3, <1>4, <2>2, <3>1 DEF WinInv, WinTypes, WinCourse
    <2>3. CASE ~Installed
      <3>1. SvcAt' = "over"
        BY <1>2, <2>3
      <3>. QED BY <1>2, <1>3, <1>4, <3>1 DEF WinInv, WinTypes, WinCourse
    <2>. QED BY <2>2, <2>3
  <1>7. WinContractStep
    BY <1>2, <1>3, <1>4 DEF SetRestart, manager, WinInv, WinTypes, WinCourse, UpAtAll, Installed,
        Settled, Incomplete, WinContractStep, WinContract!contractVars, WinContract!Work,
        WinContract!Brought, WinContract!INTO, WinContract!OUT, WinContract!AWAY
  <1>. QED BY <1>5, <1>6, <1>7 DEF WinInv

LEMMA WinSetNoRestart ==
  ASSUME WinInv, SetNoRestart PROVE WinInv' /\ WinContractStep
  <1>1. Through("no_restart", Installed) /\ Installed \in BOOLEAN
    BY DEF SetNoRestart, WinInv, WinTypes, Installed, Settled
  <1>2. /\ SvcStepAt(SvcAt) = "no_restart" /\ SvcAt \in SvcSteps(serviceCall.verb)
        /\ SvcAt' = IF Installed THEN SvcNext(serviceCall.verb, SvcAt) ELSE "over"
        /\ SvcQueue'
        /\ serviceCall' \in [verb : SERVICE_CALLS \cup {"none"}, answered : BOOLEAN]
        /\ serviceCall'.verb = serviceCall.verb /\ serviceCall.verb \in SERVICE_CALLS /\ ~serviceCall.answered
        /\ serviceCall'.answered <=> Installed /\ SvcAt' = "over"
    BY <1>1, WinDoes, Zenon
  <1>3. \/ serviceCall.verb = "drain" /\ SvcAt = "no_restart" /\ SvcAt' = IF Installed THEN "ask" ELSE "over"
        \/ serviceCall.verb = "drain" /\ SvcAt = "no_restart_last" /\ SvcAt' = "over"
    BY <1>2 DEF SvcSteps, SvcNext, SvcStepAt, SERVICE_CALLS
  <1>4. UNCHANGED <<managed, service, auto, copy, marker, enrolled, askedToDrain, caches>>
    BY <1>1 DEF SetNoRestart, Through, calling, manager, files
  <1>5. WinTypes'
    BY <1>2, <1>4 DEF SetNoRestart, WinInv, WinTypes, manager, Installed
  <1>6. WinCourse'
    BY <1>2, <1>3, <1>4 DEF SetNoRestart, WinInv, WinTypes, WinCourse, manager, Installed, Settled,
        Incomplete
  <1>7. WinContractStep
    BY <1>2, <1>3, <1>4 DEF SetNoRestart, manager, WinInv, WinTypes, WinCourse, UpAtAll, Installed,
        Settled, Incomplete, WinContractStep, WinContract!contractVars, WinContract!Work,
        WinContract!Brought, WinContract!INTO, WinContract!OUT, WinContract!AWAY
  <1>. QED BY <1>5, <1>6, <1>7 DEF WinInv

LEMMA WinCopy ==
  ASSUME WinInv, Copy PROVE WinInv' /\ WinContractStep
  <1>1. Through("copy", TRUE) /\ TRUE \in BOOLEAN
    BY DEF Copy, WinInv, WinTypes, Installed, Settled
  <1>2. /\ SvcStepAt(SvcAt) = "copy" /\ SvcAt \in SvcSteps(serviceCall.verb)
        /\ SvcAt' = IF TRUE THEN SvcNext(serviceCall.verb, SvcAt) ELSE "over"
        /\ SvcQueue'
        /\ serviceCall' \in [verb : SERVICE_CALLS \cup {"none"}, answered : BOOLEAN]
        /\ serviceCall'.verb = serviceCall.verb /\ serviceCall.verb \in SERVICE_CALLS /\ ~serviceCall.answered
        /\ serviceCall'.answered <=> TRUE /\ SvcAt' = "over"
    BY <1>1, WinDoes, Zenon
  <1>3. serviceCall.verb = "create" /\ SvcAt = "copy" /\ SvcAt' = "mark"
    BY <1>2 DEF SvcSteps, SvcNext, SvcStepAt, SERVICE_CALLS
  <1>4. UNCHANGED <<managed, service, auto, again, marker, enrolled, askedToDrain, caches>>
    BY <1>1 DEF Copy, Through, calling, manager, files
  <1>5. WinTypes'
    BY <1>2, <1>4 DEF Copy, WinInv, WinTypes, manager, Installed
  <1>6. WinCourse'
    BY <1>2, <1>3, <1>4 DEF Copy, WinInv, WinTypes, WinCourse, manager, Installed, Settled, Incomplete
  <1>7. WinContractStep
    BY <1>2, <1>3, <1>4 DEF Copy, manager, WinInv, WinTypes, WinCourse, UpAtAll, Installed, Settled,
        Incomplete, WinContractStep, WinContract!contractVars, WinContract!Work,
        WinContract!Brought, WinContract!INTO, WinContract!OUT, WinContract!AWAY
  <1>. QED BY <1>5, <1>6, <1>7 DEF WinInv

LEMMA WinMark ==
  ASSUME WinInv, Mark PROVE WinInv' /\ WinContractStep
  <1>1. Through("mark", TRUE) /\ TRUE \in BOOLEAN
    BY DEF Mark, WinInv, WinTypes, Installed, Settled
  <1>2. /\ SvcStepAt(SvcAt) = "mark" /\ SvcAt \in SvcSteps(serviceCall.verb)
        /\ SvcAt' = IF TRUE THEN SvcNext(serviceCall.verb, SvcAt) ELSE "over"
        /\ SvcQueue'
        /\ serviceCall' \in [verb : SERVICE_CALLS \cup {"none"}, answered : BOOLEAN]
        /\ serviceCall'.verb = serviceCall.verb /\ serviceCall.verb \in SERVICE_CALLS /\ ~serviceCall.answered
        /\ serviceCall'.answered <=> TRUE /\ SvcAt' = "over"
    BY <1>1, WinDoes, Zenon
  <1>3. serviceCall.verb = "create" /\ SvcAt = "mark" /\ SvcAt' = "start"
    BY <1>2 DEF SvcSteps, SvcNext, SvcStepAt, SERVICE_CALLS
  <1>4. UNCHANGED <<managed, service, auto, again, copy, enrolled, askedToDrain, caches>>
    BY <1>1 DEF Mark, Through, calling, manager, files
  <1>5. WinTypes'
    BY <1>2, <1>4 DEF Mark, WinInv, WinTypes, manager, Installed
  <1>6. WinCourse'
    BY <1>2, <1>3, <1>4 DEF Mark, WinInv, WinTypes, WinCourse, manager, Installed, Settled, Incomplete
  <1>7. WinContractStep
    BY <1>2, <1>3, <1>4 DEF Mark, manager, WinInv, WinTypes, WinCourse, UpAtAll, Installed, Settled,
        Incomplete, WinContractStep, WinContract!contractVars, WinContract!Work,
        WinContract!Brought, WinContract!INTO, WinContract!OUT, WinContract!AWAY
  <1>. QED BY <1>5, <1>6, <1>7 DEF WinInv

LEMMA WinUnask ==
  ASSUME WinInv, Unask PROVE WinInv' /\ WinContractStep
  <1>1. Through("unask", TRUE) /\ TRUE \in BOOLEAN
    BY DEF Unask, WinInv, WinTypes, Installed, Settled
  <1>2. /\ SvcStepAt(SvcAt) = "unask" /\ SvcAt \in SvcSteps(serviceCall.verb)
        /\ SvcAt' = IF TRUE THEN SvcNext(serviceCall.verb, SvcAt) ELSE "over"
        /\ SvcQueue'
        /\ serviceCall' \in [verb : SERVICE_CALLS \cup {"none"}, answered : BOOLEAN]
        /\ serviceCall'.verb = serviceCall.verb /\ serviceCall.verb \in SERVICE_CALLS /\ ~serviceCall.answered
        /\ serviceCall'.answered <=> TRUE /\ SvcAt' = "over"
    BY <1>1, WinDoes, Zenon
  <1>3. serviceCall.verb \in {"cancel_drain", "start"} /\ SvcAt = "unask" /\ SvcAt' = "restart"
    BY <1>2 DEF SvcSteps, SvcNext, SvcStepAt, SERVICE_CALLS
  <1>4. UNCHANGED <<managed, service, auto, again, copy, marker, enrolled, caches>>
    BY <1>1 DEF Unask, Through, calling, manager, files
  <1>5. WinTypes'
    BY <1>2, <1>4 DEF Unask, WinInv, WinTypes, manager, Installed
  <1>6. WinCourse'
    BY <1>2, <1>3, <1>4 DEF Unask, WinInv, WinTypes, WinCourse, manager, Installed, Settled, Incomplete
  <1>7. WinContractStep
    BY <1>2, <1>3, <1>4 DEF Unask, manager, WinInv, WinTypes, WinCourse, UpAtAll, Installed,
        Settled, Incomplete, WinContractStep, WinContract!contractVars, WinContract!Work,
        WinContract!Brought, WinContract!INTO, WinContract!OUT, WinContract!AWAY
  <1>. QED BY <1>5, <1>6, <1>7 DEF WinInv

LEMMA WinStartService ==
  ASSUME WinInv, StartService PROVE WinInv' /\ WinContractStep
  <1>1. Through("start", (Settled /\ Installed)) /\ (Settled /\ Installed) \in BOOLEAN
    BY DEF StartService, WinInv, WinTypes, Installed, Settled
  <1>2. /\ SvcStepAt(SvcAt) = "start" /\ SvcAt \in SvcSteps(serviceCall.verb)
        /\ SvcAt' = IF (Settled /\ Installed) THEN SvcNext(serviceCall.verb, SvcAt) ELSE "over"
        /\ SvcQueue'
        /\ serviceCall' \in [verb : SERVICE_CALLS \cup {"none"}, answered : BOOLEAN]
        /\ serviceCall'.verb = serviceCall.verb /\ serviceCall.verb \in SERVICE_CALLS /\ ~serviceCall.answered
        /\ serviceCall'.answered <=> (Settled /\ Installed) /\ SvcAt' = "over"
    BY <1>1, WinDoes, Zenon
  <1>3. serviceCall.verb \in {"cancel_drain", "create", "start"} /\ SvcAt = "start" /\ SvcAt' = IF (Settled /\ Installed) THEN "started" ELSE "over"
    BY <1>2 DEF SvcSteps, SvcNext, SvcStepAt, SERVICE_CALLS
  <1>4. UNCHANGED <<managed, auto, again, copy, marker, enrolled, askedToDrain, caches>>
    BY <1>1 DEF StartService, Through, calling, manager, files
  <1>5. WinTypes'
    BY <1>2, <1>4 DEF StartService, WinInv, WinTypes, manager, Installed
  <1>6. WinCourse'
    BY <1>2, <1>3, <1>4 DEF StartService, WinInv, WinTypes, WinCourse, manager, Installed, Settled,
        Incomplete
  <1>7. WinContractStep
    BY <1>2, <1>3, <1>4 DEF StartService, manager, WinInv, WinTypes, WinCourse, UpAtAll, Installed,
        Settled, Incomplete, WinContractStep, WinContract!contractVars, WinContract!Work,
        WinContract!Brought, WinContract!INTO, WinContract!OUT, WinContract!AWAY
  <1>. QED BY <1>5, <1>6, <1>7 DEF WinInv

LEMMA WinConfirmStart ==
  ASSUME WinInv, ConfirmStart PROVE WinInv' /\ WinContractStep
  <1>1. Through("started", (service = "running")) /\ (service = "running") \in BOOLEAN
    BY DEF ConfirmStart, WinInv, WinTypes, Installed, Settled
  <1>2. /\ SvcStepAt(SvcAt) = "started" /\ SvcAt \in SvcSteps(serviceCall.verb)
        /\ SvcAt' = IF (service = "running") THEN SvcNext(serviceCall.verb, SvcAt) ELSE "over"
        /\ SvcQueue'
        /\ serviceCall' \in [verb : SERVICE_CALLS \cup {"none"}, answered : BOOLEAN]
        /\ serviceCall'.verb = serviceCall.verb /\ serviceCall.verb \in SERVICE_CALLS /\ ~serviceCall.answered
        /\ serviceCall'.answered <=> (service = "running") /\ SvcAt' = "over"
    BY <1>1, WinDoes, Zenon
  <1>3. serviceCall.verb \in {"cancel_drain", "create", "start"} /\ SvcAt = "started" /\ SvcAt' = "over"
    BY <1>2 DEF SvcSteps, SvcNext, SvcStepAt, SERVICE_CALLS
  <1>4. UNCHANGED <<managed, service, auto, again, copy, marker, enrolled, askedToDrain, caches>>
    BY <1>1 DEF ConfirmStart, Through, calling, manager, files
  <1>5. WinTypes'
    BY <1>2, <1>4 DEF ConfirmStart, WinInv, WinTypes, manager, Installed
  <1>6. WinCourse'
    BY <1>2, <1>3, <1>4 DEF ConfirmStart, WinInv, WinTypes, WinCourse, manager, Installed, Settled,
        Incomplete
  <1>7. WinContractStep
    BY <1>2, <1>3, <1>4 DEF ConfirmStart, manager, WinInv, WinTypes, WinCourse, UpAtAll, Installed,
        Settled, Incomplete, WinContractStep, WinContract!contractVars, WinContract!Work,
        WinContract!Brought, WinContract!INTO, WinContract!OUT, WinContract!AWAY
  <1>. QED BY <1>5, <1>6, <1>7 DEF WinInv

LEMMA WinStopService ==
  ASSUME WinInv, StopService PROVE WinInv' /\ WinContractStep
  <1>1. Through("stop", TRUE) /\ TRUE \in BOOLEAN
    BY DEF StopService, WinInv, WinTypes, Installed, Settled
  <1>2. /\ SvcStepAt(SvcAt) = "stop" /\ SvcAt \in SvcSteps(serviceCall.verb)
        /\ SvcAt' = IF TRUE THEN SvcNext(serviceCall.verb, SvcAt) ELSE "over"
        /\ SvcQueue'
        /\ serviceCall' \in [verb : SERVICE_CALLS \cup {"none"}, answered : BOOLEAN]
        /\ serviceCall'.verb = serviceCall.verb /\ serviceCall.verb \in SERVICE_CALLS /\ ~serviceCall.answered
        /\ serviceCall'.answered <=> TRUE /\ SvcAt' = "over"
    BY <1>1, WinDoes, Zenon
  <1>3. \/ serviceCall.verb = "stop" /\ SvcAt = "stop" /\ SvcAt' = "stopped"
        \/ serviceCall.verb \in {"rebuild", "remove"} /\ SvcAt = "stop" /\ SvcAt' = "uninstall"
    BY <1>2 DEF SvcSteps, SvcNext, SvcStepAt, SERVICE_CALLS
  <1>4. UNCHANGED <<managed, auto, again, copy, marker, enrolled, askedToDrain, caches>>
    BY <1>1 DEF StopService, Through, calling, manager, files
  <1>5. WinTypes'
    BY <1>2, <1>4 DEF StopService, WinInv, WinTypes, manager, Installed
  <1>6. WinCourse'
    BY <1>2, <1>3, <1>4 DEF StopService, WinInv, WinTypes, WinCourse, manager, Installed, Settled,
        Incomplete
  <1>7. WinContractStep
    BY <1>2, <1>3, <1>4 DEF StopService, manager, WinInv, WinTypes, WinCourse, UpAtAll, Installed,
        Settled, Incomplete, WinContractStep, WinContract!contractVars, WinContract!Work,
        WinContract!Brought, WinContract!INTO, WinContract!OUT, WinContract!AWAY
  <1>. QED BY <1>5, <1>6, <1>7 DEF WinInv

LEMMA WinConfirmStop ==
  ASSUME WinInv, ConfirmStop PROVE WinInv' /\ WinContractStep
  <1>1. Through("stopped", (service = "stopped")) /\ (service = "stopped") \in BOOLEAN
    BY DEF ConfirmStop, WinInv, WinTypes, Installed, Settled
  <1>2. /\ SvcStepAt(SvcAt) = "stopped" /\ SvcAt \in SvcSteps(serviceCall.verb)
        /\ SvcAt' = IF (service = "stopped") THEN SvcNext(serviceCall.verb, SvcAt) ELSE "over"
        /\ SvcQueue'
        /\ serviceCall' \in [verb : SERVICE_CALLS \cup {"none"}, answered : BOOLEAN]
        /\ serviceCall'.verb = serviceCall.verb /\ serviceCall.verb \in SERVICE_CALLS /\ ~serviceCall.answered
        /\ serviceCall'.answered <=> (service = "stopped") /\ SvcAt' = "over"
    BY <1>1, WinDoes, Zenon
  <1>3. serviceCall.verb = "stop" /\ SvcAt = "stopped" /\ SvcAt' = "over"
    BY <1>2 DEF SvcSteps, SvcNext, SvcStepAt, SERVICE_CALLS
  <1>4. UNCHANGED <<managed, service, auto, again, copy, marker, enrolled, askedToDrain, caches>>
    BY <1>1 DEF ConfirmStop, Through, calling, manager, files
  <1>5. WinTypes'
    BY <1>2, <1>4 DEF ConfirmStop, WinInv, WinTypes, manager, Installed
  <1>6. WinCourse'
    BY <1>2, <1>3, <1>4 DEF ConfirmStop, WinInv, WinTypes, WinCourse, manager, Installed, Settled,
        Incomplete
  <1>7. WinContractStep
    BY <1>2, <1>3, <1>4 DEF ConfirmStop, manager, WinInv, WinTypes, WinCourse, UpAtAll, Installed,
        Settled, Incomplete, WinContractStep, WinContract!contractVars, WinContract!Work,
        WinContract!Brought, WinContract!INTO, WinContract!OUT, WinContract!AWAY
  <1>. QED BY <1>5, <1>6, <1>7 DEF WinInv

LEMMA WinAskToDrain ==
  ASSUME WinInv, AskToDrain PROVE WinInv' /\ WinContractStep
  <1>1. Through("ask", TRUE) /\ TRUE \in BOOLEAN
    BY DEF AskToDrain, WinInv, WinTypes, Installed, Settled
  <1>2. /\ SvcStepAt(SvcAt) = "ask" /\ SvcAt \in SvcSteps(serviceCall.verb)
        /\ SvcAt' = IF TRUE THEN SvcNext(serviceCall.verb, SvcAt) ELSE "over"
        /\ SvcQueue'
        /\ serviceCall' \in [verb : SERVICE_CALLS \cup {"none"}, answered : BOOLEAN]
        /\ serviceCall'.verb = serviceCall.verb /\ serviceCall.verb \in SERVICE_CALLS /\ ~serviceCall.answered
        /\ serviceCall'.answered <=> TRUE /\ SvcAt' = "over"
    BY <1>1, WinDoes, Zenon
  <1>3. serviceCall.verb = "drain" /\ SvcAt = "ask" /\ SvcAt' = "over"
    BY <1>2 DEF SvcSteps, SvcNext, SvcStepAt, SERVICE_CALLS
  <1>4. UNCHANGED <<managed, service, auto, again, copy, marker, enrolled, caches>>
    BY <1>1 DEF AskToDrain, Through, calling, manager, files
  <1>5. WinTypes'
    BY <1>2, <1>4 DEF AskToDrain, WinInv, WinTypes, manager, Installed
  <1>6. WinCourse'
    BY <1>2, <1>3, <1>4 DEF AskToDrain, WinInv, WinTypes, WinCourse, manager, Installed, Settled,
        Incomplete
  <1>7. WinContractStep
    <2>1. ~serviceCall.answered /\ serviceCall'.verb = serviceCall.verb
      BY <1>2
    <2>2. UNCHANGED <<IF UpAtAll THEN "up" ELSE IF Installed THEN "down" ELSE "absent", auto \/ (again /\ UpAtAll)>>
      BY <1>4 DEF UpAtAll, Installed
    <2>3. serviceCall'.answered => WinContract!Brought(serviceCall.verb)'
      BY <1>2, <1>3, <1>4 DEF AskToDrain, manager, WinInv, WinTypes, WinCourse, UpAtAll, Installed,
          WinContract!Brought, WinContract!INTO, WinContract!OUT, WinContract!AWAY
    <2>4. askedToDrain' => askedToDrain \/ serviceCall.verb = "drain"
      BY <1>3, <1>4 DEF AskToDrain, manager, WinInv, WinTypes, WinCourse, UpAtAll, Installed
    <2>5. (IF copy = "whole" /\ ~marker THEN "part" ELSE copy)' # (IF copy = "whole" /\ ~marker THEN "part" ELSE copy)
            => serviceCall.verb \in WinContract!AWAY
               \/ (serviceCall.verb = "create" /\ (IF copy = "whole" /\ ~marker THEN "part" ELSE copy)' # "none")
      BY <1>3, <1>4 DEF AskToDrain, manager, WinInv, WinTypes, WinCourse, UpAtAll, Installed,
          WinContract!AWAY
    <2>6. /\ ~caches /\ caches' => serviceCall.verb = "create"
          /\ caches /\ ~caches' => serviceCall.verb = "remove"
          /\ caches \in BOOLEAN /\ caches' \in BOOLEAN
      BY <1>3, <1>4, <1>5 DEF AskToDrain, manager, WinInv, WinTypes, WinCourse, UpAtAll, Installed
    <2>7. caches' # caches => serviceCall.verb = (IF caches' THEN "create" ELSE "remove")
      BY <2>6
    <2>. QED BY <2>1, <2>2, <2>3, <2>4, <2>5, <2>7 DEF WinContractStep, WinContract!Work
  <1>. QED BY <1>5, <1>6, <1>7 DEF WinInv

LEMMA WinQuiesce ==
  ASSUME WinInv, Quiesce PROVE WinInv' /\ WinContractStep
  <1>1. Through("quiesce", (~managed \/ Settled)) /\ (~managed \/ Settled) \in BOOLEAN
    BY DEF Quiesce, WinInv, WinTypes, Installed, Settled
  <1>2. /\ SvcStepAt(SvcAt) = "quiesce" /\ SvcAt \in SvcSteps(serviceCall.verb)
        /\ SvcAt' = IF (~managed \/ Settled) THEN SvcNext(serviceCall.verb, SvcAt) ELSE "over"
        /\ SvcQueue'
        /\ serviceCall' \in [verb : SERVICE_CALLS \cup {"none"}, answered : BOOLEAN]
        /\ serviceCall'.verb = serviceCall.verb /\ serviceCall.verb \in SERVICE_CALLS /\ ~serviceCall.answered
        /\ serviceCall'.answered <=> (~managed \/ Settled) /\ SvcAt' = "over"
    BY <1>1, WinDoes, Zenon
  <1>3. serviceCall.verb \in {"rebuild", "remove"} /\ SvcAt = "quiesce" /\ SvcAt' = IF (~managed \/ Settled) THEN "stop" ELSE "over"
    BY <1>2 DEF SvcSteps, SvcNext, SvcStepAt, SERVICE_CALLS
  <1>4. UNCHANGED <<managed, service, again, copy, marker, enrolled, askedToDrain, caches>>
    BY <1>1 DEF Quiesce, Through, calling, manager, files
  <1>20. auto' \in BOOLEAN
    BY <1>1, Zenon DEF Quiesce, WinInv, WinTypes, Installed
  <1>5. WinTypes'
    BY <1>2, <1>4, <1>20 DEF Quiesce, WinInv, WinTypes, manager, Installed
  <1>6. WinCourse'
    BY <1>2, <1>3, <1>4 DEF Quiesce, WinInv, WinTypes, WinCourse, manager, Installed, Settled,
        Incomplete
  <1>7. WinContractStep
    BY <1>2, <1>3, <1>4 DEF Quiesce, manager, WinInv, WinTypes, WinCourse, UpAtAll, Installed,
        Settled, Incomplete, WinContractStep, WinContract!contractVars, WinContract!Work,
        WinContract!Brought, WinContract!INTO, WinContract!OUT, WinContract!AWAY
  <1>. QED BY <1>5, <1>6, <1>7 DEF WinInv

LEMMA WinUninstall ==
  ASSUME WinInv, Uninstall PROVE WinInv' /\ WinContractStep
  <1>1. Through("uninstall", (service \in {"absent", "stopped"})) /\ (service \in {"absent", "stopped"}) \in BOOLEAN
    BY DEF Uninstall, WinInv, WinTypes, Installed, Settled
  <1>2. /\ SvcStepAt(SvcAt) = "uninstall" /\ SvcAt \in SvcSteps(serviceCall.verb)
        /\ SvcAt' = IF (service \in {"absent", "stopped"}) THEN SvcNext(serviceCall.verb, SvcAt) ELSE "over"
        /\ SvcQueue'
        /\ serviceCall' \in [verb : SERVICE_CALLS \cup {"none"}, answered : BOOLEAN]
        /\ serviceCall'.verb = serviceCall.verb /\ serviceCall.verb \in SERVICE_CALLS /\ ~serviceCall.answered
        /\ serviceCall'.answered <=> (service \in {"absent", "stopped"}) /\ SvcAt' = "over"
    BY <1>1, WinDoes, Zenon
  <1>3. serviceCall.verb \in {"rebuild", "remove"} /\ SvcAt = "uninstall" /\ SvcAt' = IF (service \in {"absent", "stopped"}) THEN "rmtree" ELSE "over"
    BY <1>2 DEF SvcSteps, SvcNext, SvcStepAt, SERVICE_CALLS
  <1>4. UNCHANGED <<managed, copy, marker, enrolled, askedToDrain, caches>>
    BY <1>1 DEF Uninstall, Through, calling, manager, files
  <1>5. WinTypes'
    BY <1>2, <1>4 DEF Uninstall, WinInv, WinTypes, manager, Installed
  <1>6. WinCourse'
    BY <1>2, <1>3, <1>4 DEF Uninstall, WinInv, WinTypes, WinCourse, manager, Installed, Settled,
        Incomplete
  <1>7. WinContractStep
    BY <1>2, <1>3, <1>4 DEF Uninstall, manager, WinInv, WinTypes, WinCourse, UpAtAll, Installed,
        Settled, Incomplete, WinContractStep, WinContract!contractVars, WinContract!Work,
        WinContract!Brought, WinContract!INTO, WinContract!OUT, WinContract!AWAY
  <1>. QED BY <1>5, <1>6, <1>7 DEF WinInv

LEMMA WinRemoveTree ==
  ASSUME WinInv, RemoveTree PROVE WinInv' /\ WinContractStep
  <1>1. Through("rmtree", TRUE) /\ TRUE \in BOOLEAN
    BY DEF RemoveTree, WinInv, WinTypes, Installed, Settled
  <1>2. /\ SvcStepAt(SvcAt) = "rmtree" /\ SvcAt \in SvcSteps(serviceCall.verb)
        /\ SvcAt' = IF TRUE THEN SvcNext(serviceCall.verb, SvcAt) ELSE "over"
        /\ SvcQueue'
        /\ serviceCall' \in [verb : SERVICE_CALLS \cup {"none"}, answered : BOOLEAN]
        /\ serviceCall'.verb = serviceCall.verb /\ serviceCall.verb \in SERVICE_CALLS /\ ~serviceCall.answered
        /\ serviceCall'.answered <=> TRUE /\ SvcAt' = "over"
    BY <1>1, WinDoes, Zenon
  <1>3. serviceCall.verb \in {"rebuild", "remove"} /\ SvcAt = "rmtree" /\ SvcAt' = "over"
    BY <1>2 DEF SvcSteps, SvcNext, SvcStepAt, SERVICE_CALLS
  <1>4. UNCHANGED <<managed, service, auto, again>>
    BY <1>1 DEF RemoveTree, Through, calling, manager, files
  <1>20. caches' \in BOOLEAN
    BY <1>1, Zenon DEF RemoveTree, WinInv, WinTypes, Installed
  <1>5. WinTypes'
    BY <1>2, <1>4, <1>20 DEF RemoveTree, WinInv, WinTypes, manager, Installed
  <1>6. WinCourse'
    BY <1>2, <1>3, <1>4 DEF RemoveTree, WinInv, WinTypes, WinCourse, manager, Installed, Settled,
        Incomplete
  <1>7. WinContractStep
    BY <1>2, <1>3, <1>4 DEF RemoveTree, manager, WinInv, WinTypes, WinCourse, UpAtAll, Installed,
        Settled, Incomplete, WinContractStep, WinContract!contractVars, WinContract!Work,
        WinContract!Brought, WinContract!INTO, WinContract!OUT, WinContract!AWAY
  <1>. QED BY <1>5, <1>6, <1>7 DEF WinInv

LEMMA WinRemoveSome ==
  ASSUME WinInv, RemoveSome PROVE WinInv' /\ WinContractStep
  <1>1. Through("rmtree", FALSE) /\ FALSE \in BOOLEAN
    BY DEF RemoveSome, WinInv, WinTypes, Installed, Settled
  <1>2. /\ SvcStepAt(SvcAt) = "rmtree" /\ SvcAt \in SvcSteps(serviceCall.verb)
        /\ SvcAt' = IF FALSE THEN SvcNext(serviceCall.verb, SvcAt) ELSE "over"
        /\ SvcQueue'
        /\ serviceCall' \in [verb : SERVICE_CALLS \cup {"none"}, answered : BOOLEAN]
        /\ serviceCall'.verb = serviceCall.verb /\ serviceCall.verb \in SERVICE_CALLS /\ ~serviceCall.answered
        /\ serviceCall'.answered <=> FALSE /\ SvcAt' = "over"
    BY <1>1, WinDoes, Zenon
  <1>3. serviceCall.verb \in {"rebuild", "remove"} /\ SvcAt = "rmtree" /\ SvcAt' = "over"
    BY <1>2 DEF SvcSteps, SvcNext, SvcStepAt, SERVICE_CALLS
  <1>4. UNCHANGED <<managed, service, auto, again>>
    BY <1>1 DEF RemoveSome, Through, calling, manager, files
  <1>5. WinTypes'
    BY <1>2, <1>4 DEF RemoveSome, WinInv, WinTypes, manager, Installed
  <1>6. WinCourse'
    BY <1>2, <1>3, <1>4 DEF RemoveSome, WinInv, WinTypes, WinCourse, manager, Installed, Settled,
        Incomplete
  <1>7. WinContractStep
    <2>1. ~serviceCall.answered /\ serviceCall'.verb = serviceCall.verb
      BY <1>2
    <2>2. UNCHANGED <<IF UpAtAll THEN "up" ELSE IF Installed THEN "down" ELSE "absent", auto \/ (again /\ UpAtAll)>>
      BY <1>4 DEF UpAtAll, Installed
    <2>3. serviceCall'.answered => WinContract!Brought(serviceCall.verb)'
      BY <1>2, <1>3, <1>4 DEF RemoveSome, manager, WinInv, WinTypes, WinCourse, UpAtAll, Installed,
          WinContract!Brought, WinContract!INTO, WinContract!OUT, WinContract!AWAY
    <2>4. askedToDrain' => askedToDrain \/ serviceCall.verb = "drain"
      BY <1>3, <1>4 DEF RemoveSome, manager, WinInv, WinTypes, WinCourse, UpAtAll, Installed
    <2>5. (IF copy = "whole" /\ ~marker THEN "part" ELSE copy)' # (IF copy = "whole" /\ ~marker THEN "part" ELSE copy)
            => serviceCall.verb \in WinContract!AWAY
               \/ (serviceCall.verb = "create" /\ (IF copy = "whole" /\ ~marker THEN "part" ELSE copy)' # "none")
      BY <1>3, <1>4 DEF RemoveSome, manager, WinInv, WinTypes, WinCourse, UpAtAll, Installed,
          WinContract!AWAY
    <2>6. /\ ~caches /\ caches' => serviceCall.verb = "create"
          /\ caches /\ ~caches' => serviceCall.verb = "remove"
          /\ caches \in BOOLEAN /\ caches' \in BOOLEAN
      BY <1>3, <1>4, <1>5 DEF RemoveSome, manager, WinInv, WinTypes, WinCourse, UpAtAll, Installed
    <2>7. caches' # caches => serviceCall.verb = (IF caches' THEN "create" ELSE "remove")
      BY <2>6
    <2>. QED BY <2>1, <2>2, <2>3, <2>4, <2>5, <2>7 DEF WinContractStep, WinContract!Work
  <1>. QED BY <1>5, <1>6, <1>7 DEF WinInv

LEMMA WinLookToStop ==
  ASSUME WinInv, LookToStop PROVE WinInv' /\ WinContractStep
  <1>1. /\ serviceCall.verb \in SERVICE_CALLS \cup {"none"} /\ SvcQueue /\ steps # <<>> /\ Head(steps) = "look"
        /\ UNCHANGED <<managed, service, auto, again, copy, marker, enrolled, askedToDrain, caches>>
        /\ serviceCall' \in [verb : SERVICE_CALLS \cup {"none"}, answered : BOOLEAN]
        /\ serviceCall'.verb = serviceCall.verb
        /\ serviceCall'.answered <=> service = "absent"
    BY DEF LookToStop, WinInv, WinTypes, Carries, calling, manager, files, Installed
  <1>2. SvcAt = "look" /\ serviceCall.verb = "stop"
    BY <1>1, SvcGoesOn DEF SvcStepAt, SvcSteps, SERVICE_CALLS
  <1>3. steps' = CASE service = "running" -> SvcAtDemand
                   [] service = "stopped" -> SvcAtDemand2
                   [] OTHER -> <<>>
    BY DEF LookToStop, SvcAtDemand, SvcAtDemand2
  <1>4. SvcAt' = CASE service = "running" -> "demand"
                   [] service = "stopped" -> "demand_last"
                   [] OTHER -> "over"
    <2>1. /\ SvcAtDemand # <<>> /\ SvcAtDemand # SvcAtDemand2 /\ SvcAtDemand # SvcAtDemand4
          /\ SvcAtDemand # SvcAtNoRestart2 /\ Head(SvcAtDemand) = "demand" /\ SvcAtDemand2 # <<>>
      BY SvcHeads
    <2>. QED BY <1>3, <2>1 DEF SvcAt
  <1>5. SvcQueue'
    <2>1. steps' = <<>> \/ steps' \in SvcLeft("stop")
      BY <1>3 DEF SvcLeft
    <2>2. serviceCall'.verb = "stop"
      BY <1>1, <1>2
    <2>. QED BY <2>1, <2>2 DEF SvcQueue
  <1>6. WinTypes'
    BY <1>1, <1>5 DEF WinInv, WinTypes
  <1>7. WinCourse'
    BY <1>1, <1>2, <1>4 DEF WinInv, WinTypes, WinCourse
  <1>8. WinContractStep
    <2>1. ~serviceCall.answered /\ serviceCall'.verb = "stop"
      BY <1>1, <1>2 DEF WinInv, WinCourse
    <2>2. service = "absent" => ~auto
      BY DEF WinInv, WinCourse
    <2>. QED BY <1>1, <1>2, <2>1, <2>2 DEF UpAtAll, Installed, WinContractStep, WinContract!Work,
        WinContract!Brought, WinContract!INTO, WinContract!OUT, WinContract!AWAY
  <1>. QED BY <1>6, <1>7, <1>8 DEF WinInv

LEMMA WinLookToDrain ==
  ASSUME WinInv, LookToDrain PROVE WinInv' /\ WinContractStep
  <1>1. /\ serviceCall.verb \in SERVICE_CALLS \cup {"none"} /\ SvcQueue /\ steps # <<>> /\ Head(steps) = "look_to_drain"
        /\ UNCHANGED <<managed, service, auto, again, copy, marker, enrolled, askedToDrain, caches, serviceCall>>
    BY DEF LookToDrain, WinInv, WinTypes, Carries, calling, manager, files
  <1>2. SvcAt = "look_to_drain" /\ serviceCall.verb = "drain"
    BY <1>1, SvcGoesOn DEF SvcStepAt, SvcSteps, SERVICE_CALLS
  <1>3. steps' = IF service = "stopped" THEN SvcAtDemand4 ELSE SvcAtDemand3
    BY DEF LookToDrain, SvcAtDemand3, SvcAtDemand4
  <1>4. SvcAt' = IF service = "stopped" THEN "demand_short" ELSE "demand"
    <2>1. /\ SvcAtDemand3 # <<>> /\ SvcAtDemand3 # SvcAtDemand2 /\ SvcAtDemand3 # SvcAtDemand4
          /\ SvcAtDemand3 # SvcAtNoRestart2 /\ Head(SvcAtDemand3) = "demand"
          /\ SvcAtDemand4 # <<>> /\ SvcAtDemand4 # SvcAtDemand2
      BY SvcHeads
    <2>. QED BY <1>3, <2>1 DEF SvcAt
  <1>5. SvcQueue'
    <2>1. steps' \in SvcLeft("drain")
      BY <1>3 DEF SvcLeft
    <2>. QED BY <1>1, <1>2, <2>1 DEF SvcQueue
  <1>6. WinTypes'
    BY <1>1, <1>5 DEF WinInv, WinTypes
  <1>7. WinCourse'
    BY <1>1, <1>2, <1>4 DEF WinInv, WinTypes, WinCourse
  <1>8. WinContractStep
    BY <1>1 DEF WinContractStep, WinContract!contractVars, UpAtAll, Installed
  <1>. QED BY <1>6, <1>7, <1>8 DEF WinInv

LEMMA WinByItself ==
  ASSUME WinInv, Settles \/ ProgramExits \/ WinHostReboots \/ Registers PROVE WinInv' /\ WinContractStep
  <1>1. CASE Settles \/ ProgramExits
    <2>1. UNCHANGED <<managed, auto, again, copy, marker, enrolled, askedToDrain, caches, serviceCall, steps, SvcAt>>
      BY <1>1 DEF Settles, ProgramExits, calling, files, SvcAt
    <2>2. /\ service \in {"starting", "stopping", "running"} /\ service' \in {"running", "stopped"}
          /\ service = "running" => service' = "stopped"
      BY <1>1 DEF Settles, ProgramExits
    <2>3. WinTypes'
      BY <2>1, <2>2 DEF WinInv, WinTypes, SvcQueue, SvcLeft
    <2>4. WinCourse'
      BY <2>1, <2>2 DEF WinInv, WinTypes, WinCourse
    <2>5. WinContractStep
      BY <2>1, <2>2 DEF WinInv, WinTypes, WinCourse, UpAtAll, Installed, WinContractStep,
          WinContract!contractVars, WinContract!Live
    <2>. QED BY <2>3, <2>4, <2>5 DEF WinInv
  <1>2. CASE WinHostReboots
    <2>1. /\ UNCHANGED <<managed, auto, again, copy, marker, enrolled, askedToDrain, caches, serviceCall>>
          /\ steps' = <<>> /\ SvcAt' = "over"
          /\ service # "absent" /\ service' = IF auto THEN "starting" ELSE "stopped"
      BY <1>2 DEF WinHostReboots, calling, files, SvcAt, Installed
    <2>3. WinTypes'
      BY <2>1 DEF WinInv, WinTypes, SvcQueue
    <2>4. WinCourse'
      BY <2>1 DEF WinInv, WinTypes, WinCourse
    <2>5. WinContractStep
      BY <2>1 DEF WinInv, WinTypes, WinCourse, UpAtAll, Installed, WinContractStep,
          WinContract!contractVars, WinContract!Live
    <2>. QED BY <2>3, <2>4, <2>5 DEF WinInv
  <1>3. CASE Registers
    <2>1. /\ UNCHANGED <<managed, service, auto, again, copy, marker, askedToDrain, caches, serviceCall, steps, SvcAt>>
          /\ copy = "whole" /\ marker /\ enrolled' = TRUE
      BY <1>3 DEF Registers, manager, calling, SvcAt
    <2>3. WinTypes'
      BY <2>1 DEF WinInv, WinTypes, SvcQueue, SvcLeft
    <2>4. WinCourse'
      BY <2>1 DEF WinInv, WinTypes, WinCourse
    <2>5. WinContractStep
      BY <2>1 DEF UpAtAll, Installed, WinContractStep, WinContract!contractVars
    <2>. QED BY <2>3, <2>4, <2>5 DEF WinInv
  <1>. QED BY <1>1, <1>2, <1>3

\* A Windows service keeps the promises of a unit, whatever step fails and
\* whatever its service manager does meanwhile (windows_process.py).
THEOREM ServiceKeepsTheContract == WinSpec => ServiceIsAUnit
  <1>1. WinInv /\ [WinNext]_winVars => WinInv' /\ WinContractStep
    <2>. SUFFICES ASSUME WinInv, [WinNext]_winVars PROVE WinInv' /\ WinContractStep
      OBVIOUS
    <2>. QED BY WinUnchanged, WinBeginsACall, WinCut, WinMakeDirs, WinInstall, WinSetStartType,
        WinSetDemand, WinSetRestart, WinSetNoRestart, WinCopy, WinMark, WinUnask, WinStartService,
        WinConfirmStart, WinLookToStop, WinLookToDrain, WinStopService, WinConfirmStop,
        WinAskToDrain, WinQuiesce, WinUninstall, WinRemoveTree, WinRemoveSome, WinByItself DEF
        WinNext, ServiceStep
  <1>. QED BY <1>1, WinBegins, PTL DEF WinSpec, ServiceIsAUnit, WinContract!ContractSpec,
      WinContractStep

-----------------------------------------------------------------------------
(* A launchd job on a shared Mac (MacUnit).                                *)

\* What is left of a call, once it is at a step.
JobAtKick == <<"kick">>
JobAtBootout == <<"bootout">>
JobAtSignal == <<"signal">>
JobAtRmtree == <<"rmtree">>
JobAtLoad == <<"load", "kick">>
JobAtDisable == <<"disable", "bootout">>
JobAtDisable2 == <<"disable", "signal">>
JobAtRmPlist == <<"rm_plist", "rmtree">>
JobAtEnable == <<"enable", "load", "kick">>
JobAtPolicy == <<"policy", "disable", "signal">>
JobAtBootout2 == <<"bootout", "rm_plist", "rmtree">>
JobAtPlist == <<"plist", "enable", "load", "kick">>
JobAtDisable3 == <<"disable", "bootout", "rm_plist", "rmtree">>
JobAtTemplate == <<"template", "plist", "enable", "load", "kick">>
JobAtCopy == <<"copy", "template", "plist", "enable", "load", "kick">>
JobAtStorage == <<"storage", "copy", "template", "plist", "enable", "load", "kick">>

LEMMA JobHeads ==
  /\ JobAtKick # <<>> /\ Head(JobAtKick) = "kick" /\ Tail(JobAtKick) = <<>>
  /\ JobAtBootout # <<>> /\ Head(JobAtBootout) = "bootout" /\ Tail(JobAtBootout) = <<>>
  /\ JobAtSignal # <<>> /\ Head(JobAtSignal) = "signal" /\ Tail(JobAtSignal) = <<>>
  /\ JobAtRmtree # <<>> /\ Head(JobAtRmtree) = "rmtree" /\ Tail(JobAtRmtree) = <<>>
  /\ JobAtLoad # <<>> /\ Head(JobAtLoad) = "load" /\ Tail(JobAtLoad) = JobAtKick
  /\ JobAtDisable # <<>> /\ Head(JobAtDisable) = "disable" /\ Tail(JobAtDisable) = JobAtBootout
  /\ JobAtDisable2 # <<>> /\ Head(JobAtDisable2) = "disable" /\ Tail(JobAtDisable2) = JobAtSignal
  /\ JobAtRmPlist # <<>> /\ Head(JobAtRmPlist) = "rm_plist" /\ Tail(JobAtRmPlist) = JobAtRmtree
  /\ JobAtEnable # <<>> /\ Head(JobAtEnable) = "enable" /\ Tail(JobAtEnable) = JobAtLoad
  /\ JobAtPolicy # <<>> /\ Head(JobAtPolicy) = "policy" /\ Tail(JobAtPolicy) = JobAtDisable2
  /\ JobAtBootout2 # <<>> /\ Head(JobAtBootout2) = "bootout" /\ Tail(JobAtBootout2) = JobAtRmPlist
  /\ JobAtPlist # <<>> /\ Head(JobAtPlist) = "plist" /\ Tail(JobAtPlist) = JobAtEnable
  /\ JobAtDisable3 # <<>> /\ Head(JobAtDisable3) = "disable" /\ Tail(JobAtDisable3) = JobAtBootout2
  /\ JobAtTemplate # <<>> /\ Head(JobAtTemplate) = "template" /\ Tail(JobAtTemplate) = JobAtPlist
  /\ JobAtCopy # <<>> /\ Head(JobAtCopy) = "copy" /\ Tail(JobAtCopy) = JobAtTemplate
  /\ JobAtStorage # <<>> /\ Head(JobAtStorage) = "storage" /\ Tail(JobAtStorage) = JobAtCopy
BY DEF JobAtKick, JobAtBootout, JobAtSignal, JobAtRmtree, JobAtLoad, JobAtDisable, JobAtDisable2,
    JobAtRmPlist, JobAtEnable, JobAtPolicy, JobAtBootout2, JobAtPlist, JobAtDisable3, JobAtTemplate,
    JobAtCopy, JobAtStorage

JobLeft(verb) ==
  CASE verb = "create" -> {JobAtStorage, JobAtCopy, JobAtTemplate, JobAtPlist, JobAtEnable,
          JobAtLoad, JobAtKick}
    [] verb \in {"start", "cancel_drain"} -> {JobAtEnable, JobAtLoad, JobAtKick}
    [] verb = "stop" -> {JobAtDisable, JobAtBootout}
    [] verb = "drain" -> {JobAtPolicy, JobAtDisable2, JobAtSignal}
    [] verb \in {"rebuild", "remove"} -> {JobAtDisable3, JobAtBootout2, JobAtRmPlist, JobAtRmtree}
    [] OTHER -> {}

JobAt == IF todo = <<>> THEN "over" ELSE Head(todo)

JobQueue == todo = <<>> \/ todo \in JobLeft(jobCall.verb)

\* The step after a step.
JobNext(verb, step) ==
  CASE verb = "create" ->
         (CASE step = "storage" -> "copy" [] step = "copy" -> "template"
            [] step = "template" -> "plist" [] step = "plist" -> "enable"
            [] step = "enable" -> "load" [] step = "load" -> "kick" [] step = "kick" -> "over")
    [] verb \in {"start", "cancel_drain"} ->
         (CASE step = "enable" -> "load" [] step = "load" -> "kick" [] step = "kick" -> "over")
    [] verb = "stop" ->
         (CASE step = "disable" -> "bootout" [] step = "bootout" -> "over")
    [] verb = "drain" ->
         (CASE step = "policy" -> "disable" [] step = "disable" -> "signal"
            [] step = "signal" -> "over")
    [] verb \in {"rebuild", "remove"} ->
         (CASE step = "disable" -> "bootout" [] step = "bootout" -> "rm_plist"
            [] step = "rm_plist" -> "rmtree" [] step = "rmtree" -> "over")

JobSteps(verb) ==
  CASE verb = "create" -> {"storage", "copy", "template", "plist", "enable", "load", "kick"}
    [] verb \in {"start", "cancel_drain"} -> {"enable", "load", "kick"}
    [] verb = "stop" -> {"disable", "bootout"}
    [] verb = "drain" -> {"policy", "disable", "signal"}
    [] verb \in {"rebuild", "remove"} -> {"disable", "bootout", "rm_plist", "rmtree"}
    [] OTHER -> {}

JobRestAt ==
  IF Tail(todo) = <<>> THEN "over"
  ELSE Head(Tail(todo))

LEMMA JobGoesOn ==
  ASSUME jobCall.verb \in JOB_CALLS \cup {"none"}, JobQueue, todo # <<>>
  PROVE  /\ JobAt = Head(todo) /\ JobAt # "over" /\ JobAt \in JobSteps(jobCall.verb)
         /\ JobRestAt = JobNext(jobCall.verb, JobAt)
         /\ Tail(todo) = <<>> <=> JobNext(jobCall.verb, JobAt) = "over"
         /\ Tail(todo) = <<>> \/ Tail(todo) \in JobLeft(jobCall.verb)
  <1>1. todo \in JobLeft(jobCall.verb)
    BY DEF JobQueue
  <1>2. CASE jobCall.verb = "create"
    <2>1. CASE todo = JobAtStorage
      <3>1. /\ JobAtStorage # <<>> /\ Head(JobAtStorage) = "storage" /\ Tail(JobAtStorage) = JobAtCopy
            /\ JobAtCopy # <<>> /\ Head(JobAtCopy) = "copy"
        BY JobHeads
      <3>. QED BY <1>1, <1>2, <2>1, <3>1 DEF JobLeft, JobNext, JobSteps, JobAt, JobRestAt
    <2>2. CASE todo = JobAtCopy
      <3>1. /\ JobAtCopy # <<>> /\ Head(JobAtCopy) = "copy" /\ Tail(JobAtCopy) = JobAtTemplate
            /\ JobAtTemplate # <<>> /\ Head(JobAtTemplate) = "template"
        BY JobHeads
      <3>. QED BY <1>1, <1>2, <2>2, <3>1 DEF JobLeft, JobNext, JobSteps, JobAt, JobRestAt
    <2>3. CASE todo = JobAtTemplate
      <3>1. /\ JobAtTemplate # <<>> /\ Head(JobAtTemplate) = "template" /\ Tail(JobAtTemplate) = JobAtPlist
            /\ JobAtPlist # <<>> /\ Head(JobAtPlist) = "plist"
        BY JobHeads
      <3>. QED BY <1>1, <1>2, <2>3, <3>1 DEF JobLeft, JobNext, JobSteps, JobAt, JobRestAt
    <2>4. CASE todo = JobAtPlist
      <3>1. /\ JobAtPlist # <<>> /\ Head(JobAtPlist) = "plist" /\ Tail(JobAtPlist) = JobAtEnable
            /\ JobAtEnable # <<>> /\ Head(JobAtEnable) = "enable"
        BY JobHeads
      <3>. QED BY <1>1, <1>2, <2>4, <3>1 DEF JobLeft, JobNext, JobSteps, JobAt, JobRestAt
    <2>5. CASE todo = JobAtEnable
      <3>1. /\ JobAtEnable # <<>> /\ Head(JobAtEnable) = "enable" /\ Tail(JobAtEnable) = JobAtLoad
            /\ JobAtLoad # <<>> /\ Head(JobAtLoad) = "load"
        BY JobHeads
      <3>. QED BY <1>1, <1>2, <2>5, <3>1 DEF JobLeft, JobNext, JobSteps, JobAt, JobRestAt
    <2>6. CASE todo = JobAtLoad
      <3>1. /\ JobAtLoad # <<>> /\ Head(JobAtLoad) = "load" /\ Tail(JobAtLoad) = JobAtKick
            /\ JobAtKick # <<>> /\ Head(JobAtKick) = "kick"
        BY JobHeads
      <3>. QED BY <1>1, <1>2, <2>6, <3>1 DEF JobLeft, JobNext, JobSteps, JobAt, JobRestAt
    <2>7. CASE todo = JobAtKick
      <3>1. /\ JobAtKick # <<>> /\ Head(JobAtKick) = "kick" /\ Tail(JobAtKick) = <<>>
        BY JobHeads
      <3>. QED BY <1>1, <1>2, <2>7, <3>1 DEF JobLeft, JobNext, JobSteps, JobAt, JobRestAt
    <2>. QED BY <1>1, <1>2, <2>1, <2>2, <2>3, <2>4, <2>5, <2>6, <2>7 DEF JobLeft
  <1>3. CASE jobCall.verb \in {"start", "cancel_drain"}
    <2>1. CASE todo = JobAtEnable
      <3>1. /\ JobAtEnable # <<>> /\ Head(JobAtEnable) = "enable" /\ Tail(JobAtEnable) = JobAtLoad
            /\ JobAtLoad # <<>> /\ Head(JobAtLoad) = "load"
        BY JobHeads
      <3>. QED BY <1>1, <1>3, <2>1, <3>1 DEF JobLeft, JobNext, JobSteps, JobAt, JobRestAt
    <2>2. CASE todo = JobAtLoad
      <3>1. /\ JobAtLoad # <<>> /\ Head(JobAtLoad) = "load" /\ Tail(JobAtLoad) = JobAtKick
            /\ JobAtKick # <<>> /\ Head(JobAtKick) = "kick"
        BY JobHeads
      <3>. QED BY <1>1, <1>3, <2>2, <3>1 DEF JobLeft, JobNext, JobSteps, JobAt, JobRestAt
    <2>3. CASE todo = JobAtKick
      <3>1. /\ JobAtKick # <<>> /\ Head(JobAtKick) = "kick" /\ Tail(JobAtKick) = <<>>
        BY JobHeads
      <3>. QED BY <1>1, <1>3, <2>3, <3>1 DEF JobLeft, JobNext, JobSteps, JobAt, JobRestAt
    <2>. QED BY <1>1, <1>3, <2>1, <2>2, <2>3 DEF JobLeft
  <1>4. CASE jobCall.verb = "stop"
    <2>1. CASE todo = JobAtDisable
      <3>1. /\ JobAtDisable # <<>> /\ Head(JobAtDisable) = "disable" /\ Tail(JobAtDisable) = JobAtBootout
            /\ JobAtBootout # <<>> /\ Head(JobAtBootout) = "bootout"
        BY JobHeads
      <3>. QED BY <1>1, <1>4, <2>1, <3>1 DEF JobLeft, JobNext, JobSteps, JobAt, JobRestAt
    <2>2. CASE todo = JobAtBootout
      <3>1. /\ JobAtBootout # <<>> /\ Head(JobAtBootout) = "bootout" /\ Tail(JobAtBootout) = <<>>
        BY JobHeads
      <3>. QED BY <1>1, <1>4, <2>2, <3>1 DEF JobLeft, JobNext, JobSteps, JobAt, JobRestAt
    <2>. QED BY <1>1, <1>4, <2>1, <2>2 DEF JobLeft
  <1>5. CASE jobCall.verb = "drain"
    <2>1. CASE todo = JobAtPolicy
      <3>1. /\ JobAtPolicy # <<>> /\ Head(JobAtPolicy) = "policy" /\ Tail(JobAtPolicy) = JobAtDisable2
            /\ JobAtDisable2 # <<>> /\ Head(JobAtDisable2) = "disable"
        BY JobHeads
      <3>. QED BY <1>1, <1>5, <2>1, <3>1 DEF JobLeft, JobNext, JobSteps, JobAt, JobRestAt
    <2>2. CASE todo = JobAtDisable2
      <3>1. /\ JobAtDisable2 # <<>> /\ Head(JobAtDisable2) = "disable" /\ Tail(JobAtDisable2) = JobAtSignal
            /\ JobAtSignal # <<>> /\ Head(JobAtSignal) = "signal"
        BY JobHeads
      <3>. QED BY <1>1, <1>5, <2>2, <3>1 DEF JobLeft, JobNext, JobSteps, JobAt, JobRestAt
    <2>3. CASE todo = JobAtSignal
      <3>1. /\ JobAtSignal # <<>> /\ Head(JobAtSignal) = "signal" /\ Tail(JobAtSignal) = <<>>
        BY JobHeads
      <3>. QED BY <1>1, <1>5, <2>3, <3>1 DEF JobLeft, JobNext, JobSteps, JobAt, JobRestAt
    <2>. QED BY <1>1, <1>5, <2>1, <2>2, <2>3 DEF JobLeft
  <1>6. CASE jobCall.verb \in {"rebuild", "remove"}
    <2>1. CASE todo = JobAtDisable3
      <3>1. /\ JobAtDisable3 # <<>> /\ Head(JobAtDisable3) = "disable" /\ Tail(JobAtDisable3) = JobAtBootout2
            /\ JobAtBootout2 # <<>> /\ Head(JobAtBootout2) = "bootout"
        BY JobHeads
      <3>. QED BY <1>1, <1>6, <2>1, <3>1 DEF JobLeft, JobNext, JobSteps, JobAt, JobRestAt
    <2>2. CASE todo = JobAtBootout2
      <3>1. /\ JobAtBootout2 # <<>> /\ Head(JobAtBootout2) = "bootout" /\ Tail(JobAtBootout2) = JobAtRmPlist
            /\ JobAtRmPlist # <<>> /\ Head(JobAtRmPlist) = "rm_plist"
        BY JobHeads
      <3>. QED BY <1>1, <1>6, <2>2, <3>1 DEF JobLeft, JobNext, JobSteps, JobAt, JobRestAt
    <2>3. CASE todo = JobAtRmPlist
      <3>1. /\ JobAtRmPlist # <<>> /\ Head(JobAtRmPlist) = "rm_plist" /\ Tail(JobAtRmPlist) = JobAtRmtree
            /\ JobAtRmtree # <<>> /\ Head(JobAtRmtree) = "rmtree"
        BY JobHeads
      <3>. QED BY <1>1, <1>6, <2>3, <3>1 DEF JobLeft, JobNext, JobSteps, JobAt, JobRestAt
    <2>4. CASE todo = JobAtRmtree
      <3>1. /\ JobAtRmtree # <<>> /\ Head(JobAtRmtree) = "rmtree" /\ Tail(JobAtRmtree) = <<>>
        BY JobHeads
      <3>. QED BY <1>1, <1>6, <2>4, <3>1 DEF JobLeft, JobNext, JobSteps, JobAt, JobRestAt
    <2>. QED BY <1>1, <1>6, <2>1, <2>2, <2>3, <2>4 DEF JobLeft
  <1>7. CASE jobCall.verb = "none"
    BY <1>1, <1>7 DEF JobLeft
  <1>. QED BY <1>1, <1>2, <1>3, <1>4, <1>5, <1>6, <1>7 DEF JOB_CALLS

\* The state of a launchd job, and what it is like while a call is under way.
MacTypes ==
  /\ plist \in BOOLEAN /\ enabled \in BOOLEAN /\ loaded \in BOOLEAN
  /\ template \in BOOLEAN /\ keeps \in BOOLEAN
  /\ process \in {"none", "serving", "finishing"}
  /\ software \in {"none", "part", "whole"}
  /\ jobCall \in [verb : JOB_CALLS \cup {"none"}, answered : BOOLEAN]
  /\ JobQueue

ServesAgain == jobCall.verb \in {"create", "start", "cancel_drain"}

MacCourse ==
  /\ JobAt # "over" => ~jobCall.answered
  /\ loaded \/ process # "none" => plist
  /\ process = "finishing" => ~enabled
  /\ JobAt # "over" /\ ServesAgain => process # "finishing"
  /\ JobAt \in {"storage", "copy"} => (template => software = "whole")
  /\ JobAt \in {"copy", "template"} => software # "none" /\ keeps
  /\ JobAt = "template" => software = "whole"
  /\ JobAt \in {"plist", "enable", "load", "kick"} /\ jobCall.verb = "create"
       => software = "whole" /\ template /\ keeps
  /\ JobAt \in {"load", "kick"} => enabled
  /\ JobAt \in {"signal", "bootout", "rm_plist", "rmtree"} => ~enabled
  /\ JobAt \in {"rm_plist", "rmtree"} => process = "none" /\ ~loaded
  /\ JobAt = "rmtree" => ~plist

MacInv == MacTypes /\ MacCourse

MacContractStep ==
  [MacContract!BeginCall \/ MacContract!Live \/ MacContract!Work]_(MacContract!contractVars)

LEMMA MacBegins == MacInit => MacInv /\ MacContract!ContractInit
  <1>. SUFFICES ASSUME MacInit PROVE MacInv /\ MacContract!ContractInit
    OBVIOUS
  <1>1. /\ jobCall.verb = "none" /\ jobCall.answered = FALSE
        /\ jobCall \in [verb : JOB_CALLS \cup {"none"}, answered : BOOLEAN]
        /\ JobAt = "over"
    BY DEF MacInit, JobAt
  <1>2. MacTypes
    BY <1>1 DEF MacInit, MacTypes, JobQueue
  <1>3. MacCourse
    BY <1>1 DEF MacInit, MacCourse
  <1>4. MacContract!ContractInit
    BY <1>1 DEF MacInit, MacContract!ContractInit
  <1>. QED BY <1>2, <1>3, <1>4 DEF MacInv

LEMMA MacUnchanged ==
  ASSUME MacInv, UNCHANGED macVars PROVE MacInv' /\ MacContractStep
  BY DEF macVars, MacInv, MacTypes, JobQueue, JobLeft, JobAt, MacCourse, ServesAgain,
      MacContractStep, MacContract!contractVars

LEMMA MacBeginsACall ==
  ASSUME MacInv, NEW verb \in JOB_CALLS, BeginJobCall(verb) PROVE MacInv' /\ MacContractStep
  <1>1. /\ jobCall'.verb = verb /\ jobCall'.answered = FALSE
        /\ jobCall' \in [verb : JOB_CALLS \cup {"none"}, answered : BOOLEAN]
        /\ UNCHANGED <<plist, enabled, loaded, process, software, template, keeps>>
        /\ MayBegin(verb)
    BY DEF BeginJobCall, launchd, disk
  <1>2. todo' = CASE verb = "create" -> JobAtStorage
                  [] verb \in {"start", "cancel_drain"} -> JobAtEnable
                  [] verb = "stop" -> JobAtDisable
                  [] verb = "drain" -> JobAtPolicy
                  [] verb \in {"rebuild", "remove"} -> JobAtDisable3
    BY DEF BeginJobCall, TodoOf, Drains, JOB_CALLS, JobAtStorage, JobAtEnable, JobAtDisable,
        JobAtPolicy, JobAtDisable3
  <1>3. JobAt' = CASE verb = "create" -> "storage"
                   [] verb \in {"start", "cancel_drain"} -> "enable"
                   [] verb = "drain" -> "policy"
                   [] OTHER -> "disable"
    BY <1>2, JobHeads, SMTT(30) DEF JobAt, JOB_CALLS
  <1>7. JobQueue'
    <2>1. todo' \in JobLeft(verb)
      <3>1. CASE verb = "create"
        BY <1>2, <3>1 DEF JobLeft
      <3>2. CASE verb \in {"start", "cancel_drain"}
        BY <1>2, <3>2 DEF JobLeft
      <3>3. CASE verb = "stop"
        BY <1>2, <3>3 DEF JobLeft
      <3>4. CASE verb = "drain"
        BY <1>2, <3>4 DEF JobLeft
      <3>5. CASE verb \in {"rebuild", "remove"}
        BY <1>2, <3>5 DEF JobLeft
      <3>. QED BY <3>1, <3>2, <3>3, <3>4, <3>5 DEF JOB_CALLS
    <2>. QED BY <1>1, <2>1 DEF JobQueue
  <1>4. MacTypes'
    BY <1>1, <1>7 DEF MacInv, MacTypes
  <1>5. MacCourse'
    BY <1>1, <1>3 DEF MacInv, MacCourse, JOB_CALLS, ServesAgain, MayBegin
  <1>6. MacContract!BeginCall
    BY <1>1 DEF JOB_CALLS, MacContract!BeginCall, MacContract!UNIT_CALLS, MacContract!INTO,
        MacContract!OUT, MacContract!AWAY
  <1>. QED BY <1>4, <1>5, <1>6 DEF MacInv, MacContractStep

LEMMA MacCut ==
  ASSUME MacInv, JobCallCut PROVE MacInv' /\ MacContractStep
  <1>1. /\ todo' = <<>> /\ JobAt' = "over"
        /\ UNCHANGED <<plist, enabled, loaded, process, software, template, keeps, jobCall>>
    BY DEF JobCallCut, launchd, disk, JobAt
  <1>2. MacInv'
    BY <1>1 DEF MacInv, MacTypes, JobQueue, MacCourse, ServesAgain
  <1>. QED BY <1>1, <1>2 DEF MacContractStep, MacContract!contractVars

LEMMA MacDoes ==
  ASSUME MacInv, NEW step, NEW possible \in BOOLEAN, Does(step, possible)
  PROVE  /\ JobAt = step /\ step \in JobSteps(jobCall.verb) /\ step # "over"
         /\ JobAt' = IF possible THEN JobNext(jobCall.verb, step) ELSE "over"
         /\ JobQueue'
         /\ jobCall' \in [verb : JOB_CALLS \cup {"none"}, answered : BOOLEAN]
         /\ jobCall'.verb = jobCall.verb /\ jobCall.verb \in JOB_CALLS /\ ~jobCall.answered
         /\ jobCall'.answered <=> possible /\ JobAt' = "over"
  <1>1. jobCall.verb \in JOB_CALLS \cup {"none"} /\ JobQueue /\ todo # <<>> /\ Head(todo) = step
    BY DEF MacInv, MacTypes, Does
  <1>2. /\ JobAt = step /\ step # "over" /\ step \in JobSteps(jobCall.verb)
        /\ Tail(todo) = <<>> <=> JobNext(jobCall.verb, step) = "over"
        /\ Tail(todo) # <<>> => /\ Head(Tail(todo)) = JobNext(jobCall.verb, step)
                               /\ Tail(todo) \in JobLeft(jobCall.verb)
    BY <1>1, JobGoesOn DEF JobRestAt
  <1>3. /\ jobCall' \in [verb : JOB_CALLS \cup {"none"}, answered : BOOLEAN]
        /\ jobCall'.verb = jobCall.verb
        /\ jobCall'.answered <=> possible /\ Tail(todo) = <<>>
        /\ todo' = IF possible THEN Tail(todo) ELSE <<>>
    BY DEF Does, MacInv, MacTypes
  <1>4. JobAt' = IF possible THEN JobNext(jobCall.verb, step) ELSE "over"
    BY <1>2, <1>3 DEF JobAt
  <1>5. JobQueue'
    BY <1>2, <1>3 DEF JobQueue
  <1>6. ~jobCall.answered
    BY <1>2 DEF MacInv, MacCourse
  <1>7. jobCall.verb \in JOB_CALLS
    BY <1>1, <1>2 DEF JobSteps, JOB_CALLS
  <1>. QED BY <1>2, <1>3, <1>4, <1>5, <1>6, <1>7

LEMMA MacMakeStorage ==
  ASSUME MacInv, MakeStorage PROVE MacInv' /\ MacContractStep
  <1>1. Does("storage", TRUE) /\ TRUE \in BOOLEAN
    BY DEF MakeStorage, MacInv, MacTypes
  <1>2. /\ JobAt = "storage" /\ "storage" \in JobSteps(jobCall.verb)
        /\ JobAt' = IF TRUE THEN JobNext(jobCall.verb, "storage") ELSE "over"
        /\ JobQueue'
        /\ jobCall' \in [verb : JOB_CALLS \cup {"none"}, answered : BOOLEAN]
        /\ jobCall'.verb = jobCall.verb /\ jobCall.verb \in JOB_CALLS /\ ~jobCall.answered
        /\ jobCall'.answered <=> TRUE /\ JobAt' = "over"
    BY <1>1, MacDoes, Zenon
  <1>3. jobCall.verb = "create" /\ JobAt' = "copy"
    BY <1>2 DEF JobSteps, JobNext, JOB_CALLS
  <1>4. UNCHANGED <<plist, enabled, loaded, process, template>>
    BY DEF MakeStorage, launchd, disk
  <1>5. MacTypes'
    BY <1>2, <1>4 DEF MakeStorage, MacInv, MacTypes
  <1>6. MacCourse'
    BY <1>2, <1>3, <1>4 DEF MakeStorage, MacInv, MacTypes, MacCourse, ServesAgain
  <1>7. MacContractStep
    BY <1>2, <1>3, <1>4 DEF MakeStorage, MacInv, MacTypes, MacCourse, ServesAgain, MacContractStep,
        MacContract!contractVars, MacContract!Work, MacContract!Brought, MacContract!INTO,
        MacContract!OUT, MacContract!AWAY
  <1>. QED BY <1>5, <1>6, <1>7 DEF MacInv

LEMMA MacCopySoftware ==
  ASSUME MacInv, CopySoftware PROVE MacInv' /\ MacContractStep
  <1>1. Does("copy", TRUE) /\ TRUE \in BOOLEAN
    BY DEF CopySoftware, MacInv, MacTypes
  <1>2. /\ JobAt = "copy" /\ "copy" \in JobSteps(jobCall.verb)
        /\ JobAt' = IF TRUE THEN JobNext(jobCall.verb, "copy") ELSE "over"
        /\ JobQueue'
        /\ jobCall' \in [verb : JOB_CALLS \cup {"none"}, answered : BOOLEAN]
        /\ jobCall'.verb = jobCall.verb /\ jobCall.verb \in JOB_CALLS /\ ~jobCall.answered
        /\ jobCall'.answered <=> TRUE /\ JobAt' = "over"
    BY <1>1, MacDoes, Zenon
  <1>3. jobCall.verb = "create" /\ JobAt' = "template"
    BY <1>2 DEF JobSteps, JobNext, JOB_CALLS
  <1>4. UNCHANGED <<plist, enabled, loaded, process, template, keeps>>
    BY DEF CopySoftware, launchd, disk
  <1>5. MacTypes'
    BY <1>2, <1>4 DEF CopySoftware, MacInv, MacTypes
  <1>6. MacCourse'
    BY <1>2, <1>3, <1>4 DEF CopySoftware, MacInv, MacTypes, MacCourse, ServesAgain
  <1>7. MacContractStep
    BY <1>2, <1>3, <1>4 DEF CopySoftware, MacInv, MacTypes, MacCourse, ServesAgain, MacContractStep,
        MacContract!contractVars, MacContract!Work, MacContract!Brought, MacContract!INTO,
        MacContract!OUT, MacContract!AWAY
  <1>. QED BY <1>5, <1>6, <1>7 DEF MacInv

LEMMA MacNoteTemplate ==
  ASSUME MacInv, NoteTemplate PROVE MacInv' /\ MacContractStep
  <1>1. Does("template", TRUE) /\ TRUE \in BOOLEAN
    BY DEF NoteTemplate, MacInv, MacTypes
  <1>2. /\ JobAt = "template" /\ "template" \in JobSteps(jobCall.verb)
        /\ JobAt' = IF TRUE THEN JobNext(jobCall.verb, "template") ELSE "over"
        /\ JobQueue'
        /\ jobCall' \in [verb : JOB_CALLS \cup {"none"}, answered : BOOLEAN]
        /\ jobCall'.verb = jobCall.verb /\ jobCall.verb \in JOB_CALLS /\ ~jobCall.answered
        /\ jobCall'.answered <=> TRUE /\ JobAt' = "over"
    BY <1>1, MacDoes, Zenon
  <1>3. jobCall.verb = "create" /\ JobAt' = "plist"
    BY <1>2 DEF JobSteps, JobNext, JOB_CALLS
  <1>4. UNCHANGED <<plist, enabled, loaded, process, software, keeps>>
    BY DEF NoteTemplate, launchd, disk
  <1>5. MacTypes'
    BY <1>2, <1>4 DEF NoteTemplate, MacInv, MacTypes
  <1>6. MacCourse'
    BY <1>2, <1>3, <1>4 DEF NoteTemplate, MacInv, MacTypes, MacCourse, ServesAgain
  <1>7. MacContractStep
    BY <1>2, <1>3, <1>4 DEF NoteTemplate, MacInv, MacTypes, MacCourse, ServesAgain, MacContractStep,
        MacContract!contractVars, MacContract!Work, MacContract!Brought, MacContract!INTO,
        MacContract!OUT, MacContract!AWAY
  <1>. QED BY <1>5, <1>6, <1>7 DEF MacInv

LEMMA MacWritePlist ==
  ASSUME MacInv, WritePlist PROVE MacInv' /\ MacContractStep
  <1>1. Does("plist", TRUE) /\ TRUE \in BOOLEAN
    BY DEF WritePlist, MacInv, MacTypes
  <1>2. /\ JobAt = "plist" /\ "plist" \in JobSteps(jobCall.verb)
        /\ JobAt' = IF TRUE THEN JobNext(jobCall.verb, "plist") ELSE "over"
        /\ JobQueue'
        /\ jobCall' \in [verb : JOB_CALLS \cup {"none"}, answered : BOOLEAN]
        /\ jobCall'.verb = jobCall.verb /\ jobCall.verb \in JOB_CALLS /\ ~jobCall.answered
        /\ jobCall'.answered <=> TRUE /\ JobAt' = "over"
    BY <1>1, MacDoes, Zenon
  <1>3. jobCall.verb = "create" /\ JobAt' = "enable"
    BY <1>2 DEF JobSteps, JobNext, JOB_CALLS
  <1>4. UNCHANGED <<enabled, loaded, process, software, template, keeps>>
    BY DEF WritePlist, launchd, disk
  <1>5. MacTypes'
    BY <1>2, <1>4 DEF WritePlist, MacInv, MacTypes
  <1>6. MacCourse'
    BY <1>2, <1>3, <1>4 DEF WritePlist, MacInv, MacTypes, MacCourse, ServesAgain
  <1>7. MacContractStep
    BY <1>2, <1>3, <1>4 DEF WritePlist, MacInv, MacTypes, MacCourse, ServesAgain, MacContractStep,
        MacContract!contractVars, MacContract!Work, MacContract!Brought, MacContract!INTO,
        MacContract!OUT, MacContract!AWAY
  <1>. QED BY <1>5, <1>6, <1>7 DEF MacInv

LEMMA MacEnable ==
  ASSUME MacInv, Enable PROVE MacInv' /\ MacContractStep
  <1>1. Does("enable", TRUE) /\ TRUE \in BOOLEAN
    BY DEF Enable, MacInv, MacTypes
  <1>2. /\ JobAt = "enable" /\ "enable" \in JobSteps(jobCall.verb)
        /\ JobAt' = IF TRUE THEN JobNext(jobCall.verb, "enable") ELSE "over"
        /\ JobQueue'
        /\ jobCall' \in [verb : JOB_CALLS \cup {"none"}, answered : BOOLEAN]
        /\ jobCall'.verb = jobCall.verb /\ jobCall.verb \in JOB_CALLS /\ ~jobCall.answered
        /\ jobCall'.answered <=> TRUE /\ JobAt' = "over"
    BY <1>1, MacDoes, Zenon
  <1>3. jobCall.verb \in {"create", "start", "cancel_drain"} /\ JobAt' = "load"
    BY <1>2 DEF JobSteps, JobNext, JOB_CALLS
  <1>4. UNCHANGED <<plist, loaded, process, software, template, keeps>>
    BY DEF Enable, launchd, disk
  <1>5. MacTypes'
    BY <1>2, <1>4 DEF Enable, MacInv, MacTypes
  <1>6. MacCourse'
    BY <1>2, <1>3, <1>4 DEF Enable, MacInv, MacTypes, MacCourse, ServesAgain
  <1>7. MacContractStep
    BY <1>2, <1>3, <1>4 DEF Enable, MacInv, MacTypes, MacCourse, ServesAgain, MacContractStep,
        MacContract!contractVars, MacContract!Work, MacContract!Brought, MacContract!INTO,
        MacContract!OUT, MacContract!AWAY
  <1>. QED BY <1>5, <1>6, <1>7 DEF MacInv

LEMMA MacLoad ==
  ASSUME MacInv, Load PROVE MacInv' /\ MacContractStep
  <1>1. Does("load", (loaded \/ (plist /\ enabled))) /\ (loaded \/ (plist /\ enabled)) \in BOOLEAN
    BY DEF Load, MacInv, MacTypes
  <1>2. /\ JobAt = "load" /\ "load" \in JobSteps(jobCall.verb)
        /\ JobAt' = IF (loaded \/ (plist /\ enabled)) THEN JobNext(jobCall.verb, "load") ELSE "over"
        /\ JobQueue'
        /\ jobCall' \in [verb : JOB_CALLS \cup {"none"}, answered : BOOLEAN]
        /\ jobCall'.verb = jobCall.verb /\ jobCall.verb \in JOB_CALLS /\ ~jobCall.answered
        /\ jobCall'.answered <=> (loaded \/ (plist /\ enabled)) /\ JobAt' = "over"
    BY <1>1, MacDoes, Zenon
  <1>3. jobCall.verb \in {"create", "start", "cancel_drain"} /\ JobAt' = IF (loaded \/ (plist /\ enabled)) THEN "kick" ELSE "over"
    BY <1>2 DEF JobSteps, JobNext, JOB_CALLS
  <1>4. UNCHANGED <<plist, enabled, software, template, keeps>>
    BY DEF Load, launchd, disk
  <1>5. MacTypes'
    BY <1>2, <1>4 DEF Load, MacInv, MacTypes
  <1>6. MacCourse'
    BY <1>2, <1>3, <1>4 DEF Load, MacInv, MacTypes, MacCourse, ServesAgain
  <1>7. MacContractStep
    BY <1>2, <1>3, <1>4 DEF Load, MacInv, MacTypes, MacCourse, ServesAgain, MacContractStep,
        MacContract!contractVars, MacContract!Work, MacContract!Brought, MacContract!INTO,
        MacContract!OUT, MacContract!AWAY
  <1>. QED BY <1>5, <1>6, <1>7 DEF MacInv

LEMMA MacKick ==
  ASSUME MacInv, Kick PROVE MacInv' /\ MacContractStep
  <1>1. Does("kick", loaded) /\ loaded \in BOOLEAN
    BY DEF Kick, MacInv, MacTypes
  <1>2. /\ JobAt = "kick" /\ "kick" \in JobSteps(jobCall.verb)
        /\ JobAt' = IF loaded THEN JobNext(jobCall.verb, "kick") ELSE "over"
        /\ JobQueue'
        /\ jobCall' \in [verb : JOB_CALLS \cup {"none"}, answered : BOOLEAN]
        /\ jobCall'.verb = jobCall.verb /\ jobCall.verb \in JOB_CALLS /\ ~jobCall.answered
        /\ jobCall'.answered <=> loaded /\ JobAt' = "over"
    BY <1>1, MacDoes, Zenon
  <1>3. jobCall.verb \in {"create", "start", "cancel_drain"} /\ JobAt' = "over"
    BY <1>2 DEF JobSteps, JobNext, JOB_CALLS
  <1>4. UNCHANGED <<plist, enabled, loaded, software, template, keeps>>
    BY DEF Kick, launchd, disk
  <1>5. MacTypes'
    BY <1>2, <1>4 DEF Kick, MacInv, MacTypes
  <1>6. MacCourse'
    BY <1>2, <1>3, <1>4 DEF Kick, MacInv, MacTypes, MacCourse, ServesAgain
  <1>7. MacContractStep
    BY <1>2, <1>3, <1>4 DEF Kick, MacInv, MacTypes, MacCourse, ServesAgain, MacContractStep,
        MacContract!contractVars, MacContract!Work, MacContract!Brought, MacContract!INTO,
        MacContract!OUT, MacContract!AWAY
  <1>. QED BY <1>5, <1>6, <1>7 DEF MacInv

LEMMA MacDisable ==
  ASSUME MacInv, Disable PROVE MacInv' /\ MacContractStep
  <1>1. Does("disable", TRUE) /\ TRUE \in BOOLEAN
    BY DEF Disable, MacInv, MacTypes
  <1>2. /\ JobAt = "disable" /\ "disable" \in JobSteps(jobCall.verb)
        /\ JobAt' = IF TRUE THEN JobNext(jobCall.verb, "disable") ELSE "over"
        /\ JobQueue'
        /\ jobCall' \in [verb : JOB_CALLS \cup {"none"}, answered : BOOLEAN]
        /\ jobCall'.verb = jobCall.verb /\ jobCall.verb \in JOB_CALLS /\ ~jobCall.answered
        /\ jobCall'.answered <=> TRUE /\ JobAt' = "over"
    BY <1>1, MacDoes, Zenon
  <1>3. \/ jobCall.verb \in {"stop", "rebuild", "remove"} /\ JobAt' = "bootout"
        \/ jobCall.verb = "drain" /\ JobAt' = "signal"
    BY <1>2 DEF JobSteps, JobNext, JOB_CALLS
  <1>4. UNCHANGED <<plist, loaded, process, software, template, keeps>>
    BY DEF Disable, launchd, disk
  <1>5. MacTypes'
    BY <1>2, <1>4 DEF Disable, MacInv, MacTypes
  <1>6. MacCourse'
    BY <1>2, <1>3, <1>4 DEF Disable, MacInv, MacTypes, MacCourse, ServesAgain
  <1>7. MacContractStep
    BY <1>2, <1>3, <1>4 DEF Disable, MacInv, MacTypes, MacCourse, ServesAgain, MacContractStep,
        MacContract!contractVars, MacContract!Work, MacContract!Brought, MacContract!INTO,
        MacContract!OUT, MacContract!AWAY
  <1>. QED BY <1>5, <1>6, <1>7 DEF MacInv

LEMMA MacBootout ==
  ASSUME MacInv, Bootout PROVE MacInv' /\ MacContractStep
  <1>1. Does("bootout", TRUE) /\ TRUE \in BOOLEAN
    BY DEF Bootout, MacInv, MacTypes
  <1>2. /\ JobAt = "bootout" /\ "bootout" \in JobSteps(jobCall.verb)
        /\ JobAt' = IF TRUE THEN JobNext(jobCall.verb, "bootout") ELSE "over"
        /\ JobQueue'
        /\ jobCall' \in [verb : JOB_CALLS \cup {"none"}, answered : BOOLEAN]
        /\ jobCall'.verb = jobCall.verb /\ jobCall.verb \in JOB_CALLS /\ ~jobCall.answered
        /\ jobCall'.answered <=> TRUE /\ JobAt' = "over"
    BY <1>1, MacDoes, Zenon
  <1>3. \/ jobCall.verb = "stop" /\ JobAt' = "over"
        \/ jobCall.verb \in {"rebuild", "remove"} /\ JobAt' = "rm_plist"
    BY <1>2 DEF JobSteps, JobNext, JOB_CALLS
  <1>4. UNCHANGED <<plist, enabled, software, template, keeps>>
    BY DEF Bootout, launchd, disk
  <1>5. MacTypes'
    BY <1>2, <1>4 DEF Bootout, MacInv, MacTypes
  <1>6. MacCourse'
    BY <1>2, <1>3, <1>4 DEF Bootout, MacInv, MacTypes, MacCourse, ServesAgain
  <1>7. MacContractStep
    BY <1>2, <1>3, <1>4 DEF Bootout, MacInv, MacTypes, MacCourse, ServesAgain, MacContractStep,
        MacContract!contractVars, MacContract!Work, MacContract!Brought, MacContract!INTO,
        MacContract!OUT, MacContract!AWAY
  <1>. QED BY <1>5, <1>6, <1>7 DEF MacInv

LEMMA MacCheckPolicy ==
  ASSUME MacInv, CheckPolicy PROVE MacInv' /\ MacContractStep
  <1>1. Does("policy", plist) /\ plist \in BOOLEAN
    BY DEF CheckPolicy, MacInv, MacTypes
  <1>2. /\ JobAt = "policy" /\ "policy" \in JobSteps(jobCall.verb)
        /\ JobAt' = IF plist THEN JobNext(jobCall.verb, "policy") ELSE "over"
        /\ JobQueue'
        /\ jobCall' \in [verb : JOB_CALLS \cup {"none"}, answered : BOOLEAN]
        /\ jobCall'.verb = jobCall.verb /\ jobCall.verb \in JOB_CALLS /\ ~jobCall.answered
        /\ jobCall'.answered <=> plist /\ JobAt' = "over"
    BY <1>1, MacDoes, Zenon
  <1>3. jobCall.verb = "drain" /\ JobAt' = IF plist THEN "disable" ELSE "over"
    BY <1>2 DEF JobSteps, JobNext, JOB_CALLS
  <1>4. UNCHANGED <<plist, enabled, loaded, process, software, template, keeps>>
    BY DEF CheckPolicy, launchd, disk
  <1>5. MacTypes'
    BY <1>2, <1>4 DEF CheckPolicy, MacInv, MacTypes
  <1>6. MacCourse'
    BY <1>2, <1>3, <1>4 DEF CheckPolicy, MacInv, MacTypes, MacCourse, ServesAgain
  <1>7. MacContractStep
    BY <1>2, <1>3, <1>4 DEF CheckPolicy, MacInv, MacTypes, MacCourse, ServesAgain, MacContractStep,
        MacContract!contractVars, MacContract!Work, MacContract!Brought, MacContract!INTO,
        MacContract!OUT, MacContract!AWAY
  <1>. QED BY <1>5, <1>6, <1>7 DEF MacInv

LEMMA MacSignal ==
  ASSUME MacInv, Signal PROVE MacInv' /\ MacContractStep
  <1>1. Does("signal", TRUE) /\ TRUE \in BOOLEAN
    BY DEF Signal, MacInv, MacTypes
  <1>2. /\ JobAt = "signal" /\ "signal" \in JobSteps(jobCall.verb)
        /\ JobAt' = IF TRUE THEN JobNext(jobCall.verb, "signal") ELSE "over"
        /\ JobQueue'
        /\ jobCall' \in [verb : JOB_CALLS \cup {"none"}, answered : BOOLEAN]
        /\ jobCall'.verb = jobCall.verb /\ jobCall.verb \in JOB_CALLS /\ ~jobCall.answered
        /\ jobCall'.answered <=> TRUE /\ JobAt' = "over"
    BY <1>1, MacDoes, Zenon
  <1>3. jobCall.verb = "drain" /\ JobAt' = "over"
    BY <1>2 DEF JobSteps, JobNext, JOB_CALLS
  <1>4. UNCHANGED <<plist, enabled, loaded, software, template, keeps>>
    BY DEF Signal, launchd, disk
  <1>5. MacTypes'
    BY <1>2, <1>4 DEF Signal, MacInv, MacTypes
  <1>6. MacCourse'
    BY <1>2, <1>3, <1>4 DEF Signal, MacInv, MacTypes, MacCourse, ServesAgain
  <1>7. MacContractStep
    BY <1>2, <1>3, <1>4 DEF Signal, MacInv, MacTypes, MacCourse, ServesAgain, MacContractStep,
        MacContract!contractVars, MacContract!Work, MacContract!Brought, MacContract!INTO,
        MacContract!OUT, MacContract!AWAY
  <1>. QED BY <1>5, <1>6, <1>7 DEF MacInv

LEMMA MacRemovePlist ==
  ASSUME MacInv, RemovePlist PROVE MacInv' /\ MacContractStep
  <1>1. Does("rm_plist", TRUE) /\ TRUE \in BOOLEAN
    BY DEF RemovePlist, MacInv, MacTypes
  <1>2. /\ JobAt = "rm_plist" /\ "rm_plist" \in JobSteps(jobCall.verb)
        /\ JobAt' = IF TRUE THEN JobNext(jobCall.verb, "rm_plist") ELSE "over"
        /\ JobQueue'
        /\ jobCall' \in [verb : JOB_CALLS \cup {"none"}, answered : BOOLEAN]
        /\ jobCall'.verb = jobCall.verb /\ jobCall.verb \in JOB_CALLS /\ ~jobCall.answered
        /\ jobCall'.answered <=> TRUE /\ JobAt' = "over"
    BY <1>1, MacDoes, Zenon
  <1>3. jobCall.verb \in {"rebuild", "remove"} /\ JobAt' = "rmtree"
    BY <1>2 DEF JobSteps, JobNext, JOB_CALLS
  <1>4. UNCHANGED <<enabled, loaded, process, software, template, keeps>>
    BY DEF RemovePlist, launchd, disk
  <1>5. MacTypes'
    BY <1>2, <1>4 DEF RemovePlist, MacInv, MacTypes
  <1>6. MacCourse'
    BY <1>2, <1>3, <1>4 DEF RemovePlist, MacInv, MacTypes, MacCourse, ServesAgain
  <1>7. MacContractStep
    BY <1>2, <1>3, <1>4 DEF RemovePlist, MacInv, MacTypes, MacCourse, ServesAgain, MacContractStep,
        MacContract!contractVars, MacContract!Work, MacContract!Brought, MacContract!INTO,
        MacContract!OUT, MacContract!AWAY
  <1>. QED BY <1>5, <1>6, <1>7 DEF MacInv

LEMMA MacRemoveAll ==
  ASSUME MacInv, RemoveAll PROVE MacInv' /\ MacContractStep
  <1>1. Does("rmtree", TRUE) /\ TRUE \in BOOLEAN
    BY DEF RemoveAll, MacInv, MacTypes
  <1>2. /\ JobAt = "rmtree" /\ "rmtree" \in JobSteps(jobCall.verb)
        /\ JobAt' = IF TRUE THEN JobNext(jobCall.verb, "rmtree") ELSE "over"
        /\ JobQueue'
        /\ jobCall' \in [verb : JOB_CALLS \cup {"none"}, answered : BOOLEAN]
        /\ jobCall'.verb = jobCall.verb /\ jobCall.verb \in JOB_CALLS /\ ~jobCall.answered
        /\ jobCall'.answered <=> TRUE /\ JobAt' = "over"
    BY <1>1, MacDoes, Zenon
  <1>3. jobCall.verb \in {"rebuild", "remove"} /\ JobAt' = "over"
    BY <1>2 DEF JobSteps, JobNext, JOB_CALLS
  <1>4. UNCHANGED <<plist, enabled, loaded, process>>
    BY DEF RemoveAll, launchd, disk
  <1>5. MacTypes'
    BY <1>2, <1>4 DEF RemoveAll, MacInv, MacTypes
  <1>6. MacCourse'
    BY <1>2, <1>3, <1>4 DEF RemoveAll, MacInv, MacTypes, MacCourse, ServesAgain
  <1>7. MacContractStep
    BY <1>2, <1>3, <1>4 DEF RemoveAll, MacInv, MacTypes, MacCourse, ServesAgain, MacContractStep,
        MacContract!contractVars, MacContract!Work, MacContract!Brought, MacContract!INTO,
        MacContract!OUT, MacContract!AWAY
  <1>. QED BY <1>5, <1>6, <1>7 DEF MacInv

LEMMA MacRemovePart ==
  ASSUME MacInv, RemovePart PROVE MacInv' /\ MacContractStep
  <1>1. Does("rmtree", FALSE) /\ FALSE \in BOOLEAN
    BY DEF RemovePart, MacInv, MacTypes
  <1>2. /\ JobAt = "rmtree" /\ "rmtree" \in JobSteps(jobCall.verb)
        /\ JobAt' = IF FALSE THEN JobNext(jobCall.verb, "rmtree") ELSE "over"
        /\ JobQueue'
        /\ jobCall' \in [verb : JOB_CALLS \cup {"none"}, answered : BOOLEAN]
        /\ jobCall'.verb = jobCall.verb /\ jobCall.verb \in JOB_CALLS /\ ~jobCall.answered
        /\ jobCall'.answered <=> FALSE /\ JobAt' = "over"
    BY <1>1, MacDoes, Zenon
  <1>3. jobCall.verb \in {"rebuild", "remove"} /\ JobAt' = "over"
    BY <1>2 DEF JobSteps, JobNext, JOB_CALLS
  <1>4. UNCHANGED <<plist, enabled, loaded, process>>
    BY DEF RemovePart, launchd, disk
  <1>5. MacTypes'
    BY <1>2, <1>4 DEF RemovePart, MacInv, MacTypes
  <1>6. MacCourse'
    BY <1>2, <1>3, <1>4 DEF RemovePart, MacInv, MacTypes, MacCourse, ServesAgain
  <1>7. MacContractStep
    BY <1>2, <1>3, <1>4 DEF RemovePart, MacInv, MacTypes, MacCourse, ServesAgain, MacContractStep,
        MacContract!contractVars, MacContract!Work, MacContract!Brought, MacContract!INTO,
        MacContract!OUT, MacContract!AWAY
  <1>. QED BY <1>5, <1>6, <1>7 DEF MacInv

LEMMA MacByItself ==
  ASSUME MacInv, ExitsCleanly \/ GuestReboots PROVE MacInv' /\ MacContractStep
  <1>1. CASE ExitsCleanly
    <2>1. process # "none" /\ process' = "none" /\ UNCHANGED <<plist, enabled, loaded, software, template, keeps, jobCall, todo>>
      BY <1>1 DEF ExitsCleanly, disk
    <2>2. MacInv'
      BY <2>1 DEF MacInv, MacTypes, MacCourse, ServesAgain, JobQueue, JobLeft, JobAt
    <2>3. MacContract!Live
      BY <2>1 DEF MacInv, MacTypes, MacCourse, MacContract!Live
    <2>. QED BY <2>2, <2>3 DEF MacContractStep
  <1>2. CASE GuestReboots
    <2>1. /\ todo' = <<>> /\ UNCHANGED <<plist, enabled, software, template, keeps, jobCall>>
          /\ loaded' = (plist /\ enabled) /\ process' = IF plist /\ enabled THEN "serving" ELSE "none"
      BY <1>2 DEF GuestReboots, disk
    <2>2. loaded' \in BOOLEAN
      BY <2>1, Zenon
    <2>3. MacTypes'
      BY <2>1, <2>2 DEF MacInv, MacTypes, JobQueue
    <2>4. MacCourse'
      BY <2>1 DEF MacInv, MacTypes, MacCourse, ServesAgain, JobAt
    <2>5. MacContract!Live \/ UNCHANGED MacContract!contractVars
      BY <2>1 DEF MacInv, MacTypes, MacCourse, MacContract!Live, MacContract!contractVars
    <2>. QED BY <2>3, <2>4, <2>5 DEF MacContractStep, MacInv
  <1>. QED BY <1>1, <1>2

\* A launchd job keeps the promises of a unit, whatever step fails and whenever
\* the Mac restarts (macos_appliance.py).
THEOREM LaunchdJobKeepsTheContract == MacSpec => LaunchdJobIsAUnit
  <1>1. MacInv /\ [MacNext]_macVars => MacInv' /\ MacContractStep
    <2>. SUFFICES ASSUME MacInv, [MacNext]_macVars PROVE MacInv' /\ MacContractStep
      OBVIOUS
    <2>. QED BY MacUnchanged, MacBeginsACall, MacCut, MacMakeStorage, MacCopySoftware,
        MacNoteTemplate, MacWritePlist, MacEnable, MacLoad, MacKick, MacDisable, MacBootout,
        MacCheckPolicy, MacSignal, MacRemovePlist, MacRemoveAll, MacRemovePart, MacByItself DEF
        MacNext, JobStep
  <1>. QED BY <1>1, MacBegins, PTL DEF MacSpec, LaunchdJobIsAUnit, MacContract!ContractSpec,
      MacContractStep

-----------------------------------------------------------------------------
(* The image of a runner on Linux (LinuxDisk).                             *)

\* The state of an image, and what it is like while a call is under way.
ImageTypes ==
  /\ dir \subseteq {"base", "mnt"}
  /\ image \in {"none", "raw", "fs"} /\ content \subseteq {"reg", "kept"}
  /\ mounted \in BOOLEAN /\ strange \in {"none", "beside", "under"}
  /\ imageCall \in [verb : {"none", "ensure", "boot", "reset", "remove"}, answered : BOOLEAN]
  /\ at \in {"over"} \cup ENSURE \cup RESET \cup REMOVE /\ fresh \in BOOLEAN

ImageCourse ==
  /\ mounted => image = "fs"
  /\ image # "fs" => content = {}
  /\ "base" \notin dir => image = "none"
  /\ at # "over" => ~imageCall.answered
  /\ at \in ENSURE => imageCall.verb \in {"ensure", "boot"}
  /\ at \in RESET => imageCall.verb = "reset"
  /\ at \in REMOVE => imageCall.verb = "remove"
  /\ at \in ENSURE \ {"base"} => "base" \in dir
  /\ at \in ENSURE \ {"base", "meta"} => strange # "beside"
  /\ at \in {"base", "meta", "image"} => ~fresh
  /\ at = "mkfs" => image = "raw"
  /\ at \in {"mnt", "mount", "areas"} => image = "fs"
  /\ at = "unlink" => ~mounted
  /\ at \in {"meta unlink", "base rmdir"} => image = "none"

ImageInv == ImageTypes /\ ImageCourse

ImageContractStep == [ImageDisk!DiskNext]_(ImageDisk!diskVars)

LEMMA ImageBegins == ImageInit => ImageInv /\ ImageDisk!DiskInit
  <1>. SUFFICES ASSUME ImageInit PROVE ImageInv /\ ImageDisk!DiskInit
    OBVIOUS
  <1>1. imageCall.verb = "none" /\ imageCall.answered = FALSE
    BY DEF ImageInit
  <1>2. ImageTypes
    BY DEF ImageInit, ImageTypes
  <1>3. ImageCourse
    BY <1>1 DEF ImageInit, ImageCourse, ENSURE, RESET, REMOVE
  <1>4. ImageDisk!DiskInit
    BY <1>1 DEF ImageInit, ImageDisk!DiskInit
  <1>. QED BY <1>2, <1>3, <1>4 DEF ImageInv

LEMMA ImageBeginsACall ==
  ASSUME ImageInv, NEW verb \in {"ensure", "boot", "reset", "remove"}, BeginImageCall(verb)
  PROVE  ImageInv' /\ ImageContractStep
  <1>1. imageCall'.verb = verb /\ imageCall'.answered = FALSE
    BY DEF BeginImageCall
  <1>2. ImageTypes'
    BY DEF BeginImageCall, ImageInv, ImageTypes, theDisk, ENSURE, RESET, REMOVE
  <1>3. ImageCourse'
    BY <1>1 DEF BeginImageCall, ImageInv, ImageTypes, ImageCourse, theDisk, ENSURE, RESET, REMOVE
  <1>4. ImageDisk!BeginDiskCall
    BY <1>1 DEF BeginImageCall, ImageDisk!BeginDiskCall, theDisk
  <1>. QED BY <1>2, <1>3, <1>4 DEF ImageInv, ImageContractStep, ImageDisk!DiskNext

LEMMA ImageSteps ==
  ASSUME ImageInv, NEW step, NEW next
  PROVE  /\ AtStep(step, next) => imageCall' = imageCall
         /\ AnswerAt(step) => imageCall'.verb = imageCall.verb /\ imageCall'.answered = TRUE
                /\ imageCall' \in [verb : {"none", "ensure", "boot", "reset", "remove"}, answered : BOOLEAN]
  BY DEF ImageInv, ImageTypes, AtStep, AnswerAt

LEMMA ImageTypesKept ==
  ASSUME ImageInv, [ImageNext]_imageVars, \A verb \in {"ensure", "boot", "reset", "remove"} : ~BeginImageCall(verb) PROVE ImageTypes'
  <1>1. CASE CallEndsEarly
    BY <1>1, ImageSteps DEF CallEndsEarly, ImageInv, ImageTypes, Identified, ImageIsFine, MayFormat,
        AtStep, AnswerAt, theDisk, ENSURE, RESET, REMOVE
  <1>2. CASE MakeBase
    BY <1>2, ImageSteps DEF MakeBase, ImageInv, ImageTypes, Identified, ImageIsFine, MayFormat,
        AtStep, AnswerAt, theDisk, ENSURE, RESET, REMOVE
  <1>3. CASE WriteMetadata
    BY <1>3, ImageSteps DEF WriteMetadata, ImageInv, ImageTypes, Identified, ImageIsFine, MayFormat,
        AtStep, AnswerAt, theDisk, ENSURE, RESET, REMOVE
  <1>4. CASE ReadMetadata
    BY <1>4, ImageSteps DEF ReadMetadata, ImageInv, ImageTypes, Identified, ImageIsFine, MayFormat,
        AtStep, AnswerAt, theDisk, ENSURE, RESET, REMOVE
  <1>5. CASE CreateImage
    BY <1>5, ImageSteps DEF CreateImage, ImageInv, ImageTypes, Identified, ImageIsFine, MayFormat,
        AtStep, AnswerAt, theDisk, ENSURE, RESET, REMOVE
  <1>6. CASE FindImage
    BY <1>6, ImageSteps DEF FindImage, ImageInv, ImageTypes, Identified, ImageIsFine, MayFormat,
        AtStep, AnswerAt, theDisk, ENSURE, RESET, REMOVE
  <1>7. CASE Mkfs
    BY <1>7, ImageSteps DEF Mkfs, ImageInv, ImageTypes, Identified, ImageIsFine, MayFormat, AtStep,
        AnswerAt, theDisk, ENSURE, RESET, REMOVE
  <1>8. CASE CheckImage
    BY <1>8, ImageSteps DEF CheckImage, ImageInv, ImageTypes, Identified, ImageIsFine, MayFormat,
        AtStep, AnswerAt, theDisk, ENSURE, RESET, REMOVE
  <1>9. CASE MakeMountPoint
    BY <1>9, ImageSteps DEF MakeMountPoint, ImageInv, ImageTypes, Identified, ImageIsFine,
        MayFormat, AtStep, AnswerAt, theDisk, ENSURE, RESET, REMOVE
  <1>10. CASE MountImage
    BY <1>10, ImageSteps DEF MountImage, ImageInv, ImageTypes, Identified, ImageIsFine, MayFormat,
        AtStep, AnswerAt, theDisk, ENSURE, RESET, REMOVE
  <1>11. CASE MakeAreas
    BY <1>11, ImageSteps DEF MakeAreas, ImageInv, ImageTypes, Identified, ImageIsFine, MayFormat,
        AtStep, AnswerAt, theDisk, ENSURE, RESET, REMOVE
  <1>12. CASE FindMounted
    BY <1>12, ImageSteps DEF FindMounted, ImageInv, ImageTypes, Identified, ImageIsFine, MayFormat,
        AtStep, AnswerAt, theDisk, ENSURE, RESET, REMOVE
  <1>13. CASE DeleteRegistration
    BY <1>13, ImageSteps DEF DeleteRegistration, ImageInv, ImageTypes, Identified, ImageIsFine,
        MayFormat, AtStep, AnswerAt, theDisk, ENSURE, RESET, REMOVE
  <1>14. CASE NothingToRemove
    BY <1>14, ImageSteps DEF NothingToRemove, ImageInv, ImageTypes, Identified, ImageIsFine,
        MayFormat, AtStep, AnswerAt, theDisk, ENSURE, RESET, REMOVE
  <1>15. CASE Identify
    BY <1>15, ImageSteps DEF Identify, ImageInv, ImageTypes, Identified, ImageIsFine, MayFormat,
        AtStep, AnswerAt, theDisk, ENSURE, RESET, REMOVE
  <1>16. CASE Umount
    BY <1>16, ImageSteps DEF Umount, ImageInv, ImageTypes, Identified, ImageIsFine, MayFormat,
        AtStep, AnswerAt, theDisk, ENSURE, RESET, REMOVE
  <1>17. CASE RemoveMountPoint
    BY <1>17, ImageSteps DEF RemoveMountPoint, ImageInv, ImageTypes, Identified, ImageIsFine,
        MayFormat, AtStep, AnswerAt, theDisk, ENSURE, RESET, REMOVE
  <1>18. CASE NotAttached
    BY <1>18, ImageSteps DEF NotAttached, ImageInv, ImageTypes, Identified, ImageIsFine, MayFormat,
        AtStep, AnswerAt, theDisk, ENSURE, RESET, REMOVE
  <1>19. CASE Unlink
    BY <1>19, ImageSteps DEF Unlink, ImageInv, ImageTypes, Identified, ImageIsFine, MayFormat,
        AtStep, AnswerAt, theDisk, ENSURE, RESET, REMOVE
  <1>20. CASE UnlinkMetadata
    BY <1>20, ImageSteps DEF UnlinkMetadata, ImageInv, ImageTypes, Identified, ImageIsFine,
        MayFormat, AtStep, AnswerAt, theDisk, ENSURE, RESET, REMOVE
  <1>21. CASE RemoveBase
    BY <1>21, ImageSteps DEF RemoveBase, ImageInv, ImageTypes, Identified, ImageIsFine, MayFormat,
        AtStep, AnswerAt, theDisk, ENSURE, RESET, REMOVE
  <1>22. CASE JobsWrite
    BY <1>22, ImageSteps, ZenonT(40) DEF JobsWrite, ImageInv, ImageTypes, Identified, ImageIsFine, MayFormat,
        AtStep, AnswerAt, theDisk, ENSURE, RESET, REMOVE
  <1>23. CASE ImageHostReboots
    BY <1>23, ImageSteps DEF ImageHostReboots, ImageInv, ImageTypes, Identified, ImageIsFine,
        MayFormat, AtStep, AnswerAt, theDisk, ENSURE, RESET, REMOVE
  <1>24. CASE StrangeFiles
    BY <1>24, ImageSteps DEF StrangeFiles, ImageInv, ImageTypes, Identified, ImageIsFine, MayFormat,
        AtStep, AnswerAt, theDisk, ENSURE, RESET, REMOVE
  <1>u. CASE UNCHANGED imageVars
    BY <1>u DEF imageVars, ImageInv, ImageTypes
  <1>. QED BY <1>1, <1>2, <1>3, <1>4, <1>5, <1>6, <1>7, <1>8, <1>9, <1>10, <1>11, <1>12, <1>13,
      <1>14, <1>15, <1>16, <1>17, <1>18, <1>19, <1>20, <1>21, <1>22, <1>23, <1>24, <1>u DEF
      ImageNext

LEMMA ImageCourseKept ==
  ASSUME ImageInv, [ImageNext]_imageVars, \A verb \in {"ensure", "boot", "reset", "remove"} : ~BeginImageCall(verb) PROVE ImageCourse'
  <1>1. CASE CallEndsEarly
    BY <1>1, ImageSteps DEF CallEndsEarly, ImageInv, ImageTypes, ImageCourse, Identified,
        ImageIsFine, MayFormat, AtStep, AnswerAt, theDisk, ENSURE, RESET, REMOVE
  <1>2. CASE MakeBase
    BY <1>2, ImageSteps DEF MakeBase, ImageInv, ImageTypes, ImageCourse, Identified, ImageIsFine,
        MayFormat, AtStep, AnswerAt, theDisk, ENSURE, RESET, REMOVE
  <1>3. CASE WriteMetadata
    <2>1. CASE AtStep("meta", "image")
      BY <1>3, <2>1 DEF WriteMetadata, ImageInv, ImageTypes, ImageCourse, AtStep, ENSURE, RESET, REMOVE
    <2>2. CASE AtStep("meta", "over")
      BY <1>3, <2>2 DEF WriteMetadata, ImageInv, ImageTypes, ImageCourse, AtStep, ENSURE, RESET, REMOVE
    <2>. QED BY <1>3, <2>1, <2>2 DEF WriteMetadata
  <1>4. CASE ReadMetadata
    BY <1>4, ImageSteps DEF ReadMetadata, ImageInv, ImageTypes, ImageCourse, Identified,
        ImageIsFine, MayFormat, AtStep, AnswerAt, theDisk, ENSURE, RESET, REMOVE
  <1>5. CASE CreateImage
    BY <1>5, ImageSteps DEF CreateImage, ImageInv, ImageTypes, ImageCourse, Identified, ImageIsFine,
        MayFormat, AtStep, AnswerAt, theDisk, ENSURE, RESET, REMOVE
  <1>6. CASE FindImage
    BY <1>6, ImageSteps DEF FindImage, ImageInv, ImageTypes, ImageCourse, Identified, ImageIsFine,
        MayFormat, AtStep, AnswerAt, theDisk, ENSURE, RESET, REMOVE
  <1>7. CASE Mkfs
    BY <1>7, ImageSteps DEF Mkfs, ImageInv, ImageTypes, ImageCourse, Identified, ImageIsFine,
        MayFormat, AtStep, AnswerAt, theDisk, ENSURE, RESET, REMOVE
  <1>8. CASE CheckImage
    BY <1>8, ImageSteps DEF CheckImage, ImageInv, ImageTypes, ImageCourse, Identified, ImageIsFine,
        MayFormat, AtStep, AnswerAt, theDisk, ENSURE, RESET, REMOVE
  <1>9. CASE MakeMountPoint
    BY <1>9, ImageSteps DEF MakeMountPoint, ImageInv, ImageTypes, ImageCourse, Identified,
        ImageIsFine, MayFormat, AtStep, AnswerAt, theDisk, ENSURE, RESET, REMOVE
  <1>10. CASE MountImage
    BY <1>10, ImageSteps DEF MountImage, ImageInv, ImageTypes, ImageCourse, Identified, ImageIsFine,
        MayFormat, AtStep, AnswerAt, theDisk, ENSURE, RESET, REMOVE
  <1>11. CASE MakeAreas
    BY <1>11, ImageSteps DEF MakeAreas, ImageInv, ImageTypes, ImageCourse, Identified, ImageIsFine,
        MayFormat, AtStep, AnswerAt, theDisk, ENSURE, RESET, REMOVE
  <1>12. CASE FindMounted
    BY <1>12, ImageSteps DEF FindMounted, ImageInv, ImageTypes, ImageCourse, Identified,
        ImageIsFine, MayFormat, AtStep, AnswerAt, theDisk, ENSURE, RESET, REMOVE
  <1>13. CASE DeleteRegistration
    BY <1>13, ImageSteps DEF DeleteRegistration, ImageInv, ImageTypes, ImageCourse, Identified,
        ImageIsFine, MayFormat, AtStep, AnswerAt, theDisk, ENSURE, RESET, REMOVE
  <1>14. CASE NothingToRemove
    BY <1>14, ImageSteps DEF NothingToRemove, ImageInv, ImageTypes, ImageCourse, Identified,
        ImageIsFine, MayFormat, AtStep, AnswerAt, theDisk, ENSURE, RESET, REMOVE
  <1>15. CASE Identify
    BY <1>15, ImageSteps DEF Identify, ImageInv, ImageTypes, ImageCourse, Identified, ImageIsFine,
        MayFormat, AtStep, AnswerAt, theDisk, ENSURE, RESET, REMOVE
  <1>16. CASE Umount
    BY <1>16, ImageSteps DEF Umount, ImageInv, ImageTypes, ImageCourse, Identified, ImageIsFine,
        MayFormat, AtStep, AnswerAt, theDisk, ENSURE, RESET, REMOVE
  <1>17. CASE RemoveMountPoint
    BY <1>17, ImageSteps DEF RemoveMountPoint, ImageInv, ImageTypes, ImageCourse, Identified,
        ImageIsFine, MayFormat, AtStep, AnswerAt, theDisk, ENSURE, RESET, REMOVE
  <1>18. CASE NotAttached
    BY <1>18, ImageSteps DEF NotAttached, ImageInv, ImageTypes, ImageCourse, Identified,
        ImageIsFine, MayFormat, AtStep, AnswerAt, theDisk, ENSURE, RESET, REMOVE
  <1>19. CASE Unlink
    BY <1>19, ImageSteps DEF Unlink, ImageInv, ImageTypes, ImageCourse, Identified, ImageIsFine,
        MayFormat, AtStep, AnswerAt, theDisk, ENSURE, RESET, REMOVE
  <1>20. CASE UnlinkMetadata
    BY <1>20, ImageSteps DEF UnlinkMetadata, ImageInv, ImageTypes, ImageCourse, Identified,
        ImageIsFine, MayFormat, AtStep, AnswerAt, theDisk, ENSURE, RESET, REMOVE
  <1>21. CASE RemoveBase
    BY <1>21, ImageSteps DEF RemoveBase, ImageInv, ImageTypes, ImageCourse, Identified, ImageIsFine,
        MayFormat, AtStep, AnswerAt, theDisk, ENSURE, RESET, REMOVE
  <1>22. CASE JobsWrite
    BY <1>22, ImageSteps DEF JobsWrite, ImageInv, ImageTypes, ImageCourse, Identified, ImageIsFine,
        MayFormat, AtStep, AnswerAt, theDisk, ENSURE, RESET, REMOVE
  <1>23. CASE ImageHostReboots
    BY <1>23, ImageSteps DEF ImageHostReboots, ImageInv, ImageTypes, ImageCourse, Identified,
        ImageIsFine, MayFormat, AtStep, AnswerAt, theDisk, ENSURE, RESET, REMOVE
  <1>24. CASE StrangeFiles
    BY <1>24, ImageSteps DEF StrangeFiles, ImageInv, ImageTypes, ImageCourse, Identified,
        ImageIsFine, MayFormat, AtStep, AnswerAt, theDisk, ENSURE, RESET, REMOVE
  <1>u. CASE UNCHANGED imageVars
    BY <1>u DEF imageVars, ImageInv, ImageCourse
  <1>. QED BY <1>1, <1>2, <1>3, <1>4, <1>5, <1>6, <1>7, <1>8, <1>9, <1>10, <1>11, <1>12, <1>13,
      <1>14, <1>15, <1>16, <1>17, <1>18, <1>19, <1>20, <1>21, <1>22, <1>23, <1>24, <1>u DEF
      ImageNext

LEMMA ImageStepIsAllowed ==
  ASSUME ImageInv, [ImageNext]_imageVars, \A verb \in {"ensure", "boot", "reset", "remove"} : ~BeginImageCall(verb) PROVE ImageContractStep
  <1>1. CASE CallEndsEarly
    BY <1>1, ImageSteps DEF CallEndsEarly, ImageInv, ImageTypes, ImageCourse, Identified,
        ImageIsFine, MayFormat, AtStep, AnswerAt, theDisk, ENSURE, RESET, REMOVE, ImageContractStep,
        ImageDisk!diskVars
  <1>2. CASE MakeBase
    BY <1>2, ImageSteps DEF MakeBase, ImageInv, ImageTypes, ImageCourse, Identified, ImageIsFine,
        MayFormat, AtStep, AnswerAt, theDisk, ENSURE, RESET, REMOVE, ImageContractStep,
        ImageDisk!diskVars
  <1>3. CASE WriteMetadata
    BY <1>3, ImageSteps DEF WriteMetadata, ImageInv, ImageTypes, ImageCourse, Identified,
        ImageIsFine, MayFormat, AtStep, AnswerAt, theDisk, ENSURE, RESET, REMOVE, ImageContractStep,
        ImageDisk!diskVars
  <1>4. CASE ReadMetadata
    BY <1>4, ImageSteps DEF ReadMetadata, ImageInv, ImageTypes, ImageCourse, Identified,
        ImageIsFine, MayFormat, AtStep, AnswerAt, theDisk, ENSURE, RESET, REMOVE, ImageContractStep,
        ImageDisk!diskVars
  <1>5. CASE CreateImage
    BY <1>5, ImageSteps DEF CreateImage, ImageInv, ImageTypes, ImageCourse, Identified, ImageIsFine,
        MayFormat, AtStep, AnswerAt, theDisk, ENSURE, RESET, REMOVE, ImageContractStep,
        ImageDisk!diskVars
  <1>6. CASE FindImage
    BY <1>6, ImageSteps DEF FindImage, ImageInv, ImageTypes, ImageCourse, Identified, ImageIsFine,
        MayFormat, AtStep, AnswerAt, theDisk, ENSURE, RESET, REMOVE, ImageContractStep,
        ImageDisk!diskVars
  <1>7. CASE Mkfs
    BY <1>7, ImageSteps DEF Mkfs, ImageInv, ImageTypes, ImageCourse, Identified, ImageIsFine,
        MayFormat, AtStep, AnswerAt, theDisk, ENSURE, RESET, REMOVE, ImageContractStep,
        ImageDisk!diskVars, ImageDisk!DiskNext, ImageDisk!MakeDisk
  <1>8. CASE CheckImage
    BY <1>8, ImageSteps DEF CheckImage, ImageInv, ImageTypes, ImageCourse, Identified, ImageIsFine,
        MayFormat, AtStep, AnswerAt, theDisk, ENSURE, RESET, REMOVE, ImageContractStep,
        ImageDisk!diskVars
  <1>9. CASE MakeMountPoint
    BY <1>9, ImageSteps DEF MakeMountPoint, ImageInv, ImageTypes, ImageCourse, Identified,
        ImageIsFine, MayFormat, AtStep, AnswerAt, theDisk, ENSURE, RESET, REMOVE, ImageContractStep,
        ImageDisk!diskVars
  <1>10. CASE MountImage
    BY <1>10, ImageSteps DEF MountImage, ImageInv, ImageTypes, ImageCourse, Identified, ImageIsFine,
        MayFormat, AtStep, AnswerAt, theDisk, ENSURE, RESET, REMOVE, ImageContractStep,
        ImageDisk!diskVars, ImageDisk!DiskNext, ImageDisk!ComeIntoUse
  <1>11. CASE MakeAreas
    BY <1>11, ImageSteps DEF MakeAreas, ImageInv, ImageTypes, ImageCourse, Identified, ImageIsFine,
        MayFormat, AtStep, AnswerAt, theDisk, ENSURE, RESET, REMOVE, ImageContractStep,
        ImageDisk!diskVars, ImageDisk!DiskNext, ImageDisk!Grant
  <1>12. CASE FindMounted
    BY <1>12, ImageSteps DEF FindMounted, ImageInv, ImageTypes, ImageCourse, Identified,
        ImageIsFine, MayFormat, AtStep, AnswerAt, theDisk, ENSURE, RESET, REMOVE, ImageContractStep,
        ImageDisk!diskVars
  <1>13. CASE DeleteRegistration
    BY <1>13, ImageSteps DEF DeleteRegistration, ImageInv, ImageTypes, ImageCourse, Identified,
        ImageIsFine, MayFormat, AtStep, AnswerAt, theDisk, ENSURE, RESET, REMOVE, ImageContractStep,
        ImageDisk!diskVars, ImageDisk!DiskNext, ImageDisk!ResetDisk
  <1>14. CASE NothingToRemove
    BY <1>14, ImageSteps DEF NothingToRemove, ImageInv, ImageTypes, ImageCourse, Identified,
        ImageIsFine, MayFormat, AtStep, AnswerAt, theDisk, ENSURE, RESET, REMOVE, ImageContractStep,
        ImageDisk!diskVars, ImageDisk!DiskNext, ImageDisk!Grant
  <1>15. CASE Identify
    BY <1>15, ImageSteps DEF Identify, ImageInv, ImageTypes, ImageCourse, Identified, ImageIsFine,
        MayFormat, AtStep, AnswerAt, theDisk, ENSURE, RESET, REMOVE, ImageContractStep,
        ImageDisk!diskVars
  <1>16. CASE Umount
    BY <1>16, ImageSteps DEF Umount, ImageInv, ImageTypes, ImageCourse, Identified, ImageIsFine,
        MayFormat, AtStep, AnswerAt, theDisk, ENSURE, RESET, REMOVE, ImageContractStep,
        ImageDisk!diskVars, ImageDisk!DiskNext, ImageDisk!GoOutOfUse
  <1>17. CASE RemoveMountPoint
    BY <1>17, ImageSteps DEF RemoveMountPoint, ImageInv, ImageTypes, ImageCourse, Identified,
        ImageIsFine, MayFormat, AtStep, AnswerAt, theDisk, ENSURE, RESET, REMOVE, ImageContractStep,
        ImageDisk!diskVars
  <1>18. CASE NotAttached
    BY <1>18, ImageSteps DEF NotAttached, ImageInv, ImageTypes, ImageCourse, Identified,
        ImageIsFine, MayFormat, AtStep, AnswerAt, theDisk, ENSURE, RESET, REMOVE, ImageContractStep,
        ImageDisk!diskVars
  <1>19. CASE Unlink
    BY <1>19, ImageSteps DEF Unlink, ImageInv, ImageTypes, ImageCourse, Identified, ImageIsFine,
        MayFormat, AtStep, AnswerAt, theDisk, ENSURE, RESET, REMOVE, ImageContractStep,
        ImageDisk!diskVars, ImageDisk!DiskNext, ImageDisk!DeleteDisk
  <1>20. CASE UnlinkMetadata
    BY <1>20, ImageSteps DEF UnlinkMetadata, ImageInv, ImageTypes, ImageCourse, Identified,
        ImageIsFine, MayFormat, AtStep, AnswerAt, theDisk, ENSURE, RESET, REMOVE, ImageContractStep,
        ImageDisk!diskVars
  <1>21. CASE RemoveBase
    BY <1>21, ImageSteps DEF RemoveBase, ImageInv, ImageTypes, ImageCourse, Identified, ImageIsFine,
        MayFormat, AtStep, AnswerAt, theDisk, ENSURE, RESET, REMOVE, ImageContractStep,
        ImageDisk!diskVars, ImageDisk!DiskNext, ImageDisk!Grant
  <1>22. CASE JobsWrite
    BY <1>22, ImageSteps DEF JobsWrite, ImageInv, ImageTypes, ImageCourse, Identified, ImageIsFine,
        MayFormat, AtStep, AnswerAt, theDisk, ENSURE, RESET, REMOVE, ImageContractStep,
        ImageDisk!diskVars, ImageDisk!DiskNext, ImageDisk!WriteToDisk
  <1>23. CASE ImageHostReboots
    BY <1>23, ImageSteps DEF ImageHostReboots, ImageInv, ImageTypes, ImageCourse, Identified,
        ImageIsFine, MayFormat, AtStep, AnswerAt, theDisk, ENSURE, RESET, REMOVE, ImageContractStep,
        ImageDisk!diskVars, ImageDisk!DiskNext, ImageDisk!GoOutOfUse
  <1>24. CASE StrangeFiles
    BY <1>24, ImageSteps DEF StrangeFiles, ImageInv, ImageTypes, ImageCourse, Identified,
        ImageIsFine, MayFormat, AtStep, AnswerAt, theDisk, ENSURE, RESET, REMOVE, ImageContractStep,
        ImageDisk!diskVars, ImageDisk!DiskNext, ImageDisk!FilesAppear
  <1>u. CASE UNCHANGED imageVars
    BY <1>u DEF imageVars, ImageContractStep, ImageDisk!diskVars
  <1>. QED BY <1>1, <1>2, <1>3, <1>4, <1>5, <1>6, <1>7, <1>8, <1>9, <1>10, <1>11, <1>12, <1>13,
      <1>14, <1>15, <1>16, <1>17, <1>18, <1>19, <1>20, <1>21, <1>22, <1>23, <1>24, <1>u DEF
      ImageNext

\* The data in the image of a runner is only destroyed by its removal, wherever
\* making, resetting or removing it is cut off (linux_storage.py).
THEOREM ImageKeepsTheContract == ImageSpec => ImageKeepsItsData
  <1>1. ImageInv /\ [ImageNext]_imageVars => ImageInv' /\ ImageContractStep
    BY ImageBeginsACall, ImageTypesKept, ImageCourseKept, ImageStepIsAllowed DEF ImageInv
  <1>. QED BY <1>1, ImageBegins, PTL DEF ImageSpec, ImageKeepsItsData, ImageDisk!DiskSpec,
      ImageContractStep

-----------------------------------------------------------------------------
(* The virtual disk of a runner on Windows (WindowsDisk).                  *)

\* The state of a virtual disk, and what it is like while a call is under way.
VhdTypes ==
  /\ stage \in {"none", "planned", "partitioned", "ready", "deleting"}
  /\ identity \in {"none", "own", "other"} /\ vhdx \in {"none", "own", "other"}
  /\ format \in {"none", "raw", "gpt", "partition", "ntfs"} /\ stored \subseteq {"reg", "kept"}
  /\ private \in BOOLEAN /\ attached \in BOOLEAN /\ path \in BOOLEAN
  /\ folder \in {"none", "empty", "files"}
  /\ vhdCall \in [verb : {"none", "ensure", "mount", "remove"}, answered : BOOLEAN]
  /\ vhdAt \in VHD_STEPS

VhdCourse ==
  /\ vhdx = "none" => format = "none" /\ ~path /\ ~attached
  /\ path => folder # "files"
  /\ path /\ vhdx = "own" => format = "ntfs"
  /\ format # "ntfs" => stored = {}
  /\ stage \in {"ready", "deleting"} => identity = "own"
  /\ vhdAt # "over" => ~vhdCall.answered
  /\ vhdAt \in {"consider", "confirm", "release", "erase", "rmdir", "forget"} => vhdCall.verb = "remove"
  /\ vhdAt \in {"manifest", "image", "attach", "identify", "partition", "format", "mount", "acl", "prove"}
       => vhdCall.verb \in {"ensure", "mount"}
  /\ vhdAt \in {"attach", "identify", "partition", "format"} => vhdx # "none"
  /\ vhdAt \in {"partition", "format"} => identity = vhdx
  /\ vhdAt \in {"mount", "acl", "prove"} => vhdx = "own" /\ format = "ntfs"
  /\ vhdAt = "confirm" => stage \in {"ready", "deleting"}
  /\ vhdAt \in {"release", "erase"} => vhdx = "own"
  /\ vhdAt = "erase" => ~attached
  /\ vhdAt \in {"rmdir", "forget"} => vhdx = "none"

VhdInv == VhdTypes /\ VhdCourse

VhdContractStep == [VhdDisk!DiskNext]_(VhdDisk!diskVars)

LEMMA VhdBegins == VhdInit => VhdInv /\ VhdDisk!DiskInit
  <1>. SUFFICES ASSUME VhdInit PROVE VhdInv /\ VhdDisk!DiskInit
    OBVIOUS
  <1>1. vhdCall.verb = "none" /\ vhdCall.answered = FALSE
    BY DEF VhdInit
  <1>2. VhdTypes
    BY DEF VhdInit, VhdTypes, VHD_STEPS
  <1>3. VhdCourse
    BY <1>1 DEF VhdInit, VhdCourse
  <1>4. VhdDisk!DiskInit
    BY <1>1 DEF VhdInit, VhdDisk!DiskInit
  <1>. QED BY <1>2, <1>3, <1>4 DEF VhdInv

LEMMA VhdBeginsACall ==
  ASSUME VhdInv, NEW verb \in {"ensure", "mount", "remove"}, BeginVhdCall(verb)
  PROVE  VhdInv' /\ VhdContractStep
  <1>1. vhdCall'.verb = verb /\ vhdCall'.answered = FALSE
    BY DEF BeginVhdCall
  <1>2. VhdTypes'
    BY DEF BeginVhdCall, VhdInv, VhdTypes, theManifest, theImage, thePlace, VHD_STEPS
  <1>3. VhdCourse'
    BY <1>1 DEF BeginVhdCall, VhdInv, VhdTypes, VhdCourse, theManifest, theImage, thePlace
  <1>4. VhdDisk!BeginDiskCall
    BY <1>1 DEF BeginVhdCall, VhdDisk!BeginDiskCall, theManifest, theImage, thePlace
  <1>. QED BY <1>2, <1>3, <1>4 DEF VhdInv, VhdContractStep, VhdDisk!DiskNext

LEMMA VhdSteps ==
  ASSUME VhdInv, NEW step, NEW next
  PROVE  /\ VhdStep(step, next) => vhdCall' = vhdCall
         /\ VhdAnswer(step) => vhdCall'.verb = vhdCall.verb /\ vhdCall'.answered = TRUE
                /\ vhdCall' \in [verb : {"none", "ensure", "mount", "remove"}, answered : BOOLEAN]
  BY DEF VhdInv, VhdTypes, VhdStep, VhdAnswer

LEMMA VhdTypesKept ==
  ASSUME VhdInv, [VhdNext]_vhdVars, \A verb \in {"ensure", "mount", "remove"} : ~BeginVhdCall(verb)
  PROVE  VhdTypes'
  <1>1. CASE VhdCallEnds
    BY <1>1, VhdSteps DEF VhdCallEnds, VhdInv, VhdTypes, VHD_STEPS, VhdStep, VhdAnswer, theManifest,
        theImage, thePlace, IsOwned, NeverMade
  <1>2. CASE PlanDisk
    BY <1>2, VhdSteps DEF PlanDisk, VhdInv, VhdTypes, VHD_STEPS, VhdStep, VhdAnswer, theManifest,
        theImage, thePlace, IsOwned, NeverMade
  <1>3. CASE CreateVhdx
    BY <1>3, VhdSteps DEF CreateVhdx, VhdInv, VhdTypes, VHD_STEPS, VhdStep, VhdAnswer, theManifest,
        theImage, thePlace, IsOwned, NeverMade
  <1>4. CASE Attach
    BY <1>4, VhdSteps DEF Attach, VhdInv, VhdTypes, VHD_STEPS, VhdStep, VhdAnswer, theManifest,
        theImage, thePlace, IsOwned, NeverMade
  <1>5. CASE IdentifyVhdx
    <2>1. vhdAt' \in {"partition", "format", "over"} /\ identity' \in {identity, vhdx} /\ attached' \in {attached, FALSE}
      BY <1>5 DEF IdentifyVhdx, VhdStep
    <2>2. UNCHANGED <<stage, private, vhdx, format, stored, path, folder, vhdCall>>
      BY <1>5 DEF IdentifyVhdx, VhdStep, thePlace
    <2>3. attached' \in BOOLEAN
      BY <2>1 DEF VhdInv, VhdTypes
    <2>. QED BY <2>1, <2>2, <2>3 DEF VhdInv, VhdTypes, VHD_STEPS
  <1>6. CASE InitializeVhdx
    BY <1>6, VhdSteps DEF InitializeVhdx, VhdInv, VhdTypes, VHD_STEPS, VhdStep, VhdAnswer,
        theManifest, theImage, thePlace, IsOwned, NeverMade
  <1>7. CASE PartitionVhdx
    BY <1>7, VhdSteps DEF PartitionVhdx, VhdInv, VhdTypes, VHD_STEPS, VhdStep, VhdAnswer,
        theManifest, theImage, thePlace, IsOwned, NeverMade
  <1>8. CASE RecordPartition
    BY <1>8, VhdSteps DEF RecordPartition, VhdInv, VhdTypes, VHD_STEPS, VhdStep, VhdAnswer,
        theManifest, theImage, thePlace, IsOwned, NeverMade
  <1>9. CASE FormatVhdx
    BY <1>9, VhdSteps DEF FormatVhdx, VhdInv, VhdTypes, VHD_STEPS, VhdStep, VhdAnswer, theManifest,
        theImage, thePlace, IsOwned, NeverMade
  <1>10. CASE RecordVolume
    BY <1>10, VhdSteps DEF RecordVolume, VhdInv, VhdTypes, VHD_STEPS, VhdStep, VhdAnswer,
        theManifest, theImage, thePlace, IsOwned, NeverMade
  <1>11. CASE MountVhdx
    BY <1>11, VhdSteps DEF MountVhdx, VhdInv, VhdTypes, VHD_STEPS, VhdStep, VhdAnswer, theManifest,
        theImage, thePlace, IsOwned, NeverMade
  <1>12. CASE SetPrivate
    BY <1>12, VhdSteps DEF SetPrivate, VhdInv, VhdTypes, VHD_STEPS, VhdStep, VhdAnswer, theManifest,
        theImage, thePlace, IsOwned, NeverMade
  <1>13. CASE ProveMounted
    BY <1>13, VhdSteps, ZenonT(40) DEF ProveMounted, VhdInv, VhdTypes, VHD_STEPS, VhdStep, VhdAnswer,
        theManifest, theImage, thePlace, IsOwned, NeverMade
  <1>14. CASE RemoveNothing
    BY <1>14, VhdSteps DEF RemoveNothing, VhdInv, VhdTypes, VHD_STEPS, VhdStep, VhdAnswer,
        theManifest, theImage, thePlace, IsOwned, NeverMade
  <1>15. CASE ConsiderRemoval
    BY <1>15, VhdSteps DEF ConsiderRemoval, VhdInv, VhdTypes, VHD_STEPS, VhdStep, VhdAnswer,
        theManifest, theImage, thePlace, IsOwned, NeverMade
  <1>16. CASE ConfirmVhdx
    BY <1>16, VhdSteps DEF ConfirmVhdx, VhdInv, VhdTypes, VHD_STEPS, VhdStep, VhdAnswer,
        theManifest, theImage, thePlace, IsOwned, NeverMade
  <1>17. CASE ReleaseVhdx
    <2>1. path' \in BOOLEAN
      BY <1>17, Zenon DEF ReleaseVhdx
    <2>2. /\ UNCHANGED <<stage, identity, private, vhdx, format, stored, folder, vhdCall>>
          /\ vhdAt' = "erase" /\ attached' = FALSE
      BY <1>17 DEF ReleaseVhdx, VhdStep, theManifest
    <2>3. attached' \in BOOLEAN
      BY <2>2, Zenon
    <2>. QED BY <2>1, <2>2, <2>3 DEF VhdInv, VhdTypes, VHD_STEPS
  <1>18. CASE EraseVhdx
    BY <1>18, VhdSteps, ZenonT(40) DEF EraseVhdx, VhdInv, VhdTypes, VHD_STEPS, VhdStep, VhdAnswer, theManifest,
        theImage, thePlace, IsOwned, NeverMade
  <1>19. CASE RemoveFolder
    BY <1>19, VhdSteps DEF RemoveFolder, VhdInv, VhdTypes, VHD_STEPS, VhdStep, VhdAnswer,
        theManifest, theImage, thePlace, IsOwned, NeverMade
  <1>20. CASE ForgetDisk
    BY <1>20, VhdSteps DEF ForgetDisk, VhdInv, VhdTypes, VHD_STEPS, VhdStep, VhdAnswer, theManifest,
        theImage, thePlace, IsOwned, NeverMade
  <1>21. CASE RunnerWrites
    BY <1>21, VhdSteps DEF RunnerWrites, VhdInv, VhdTypes, VHD_STEPS, VhdStep, VhdAnswer,
        theManifest, theImage, thePlace, IsOwned, NeverMade
  <1>22. CASE VhdHostReboots
    <2>1. path' \in BOOLEAN
      BY <1>22 DEF VhdHostReboots, VhdInv, VhdTypes
    <2>2. /\ UNCHANGED <<stage, identity, private, vhdx, format, stored, folder, vhdCall>>
          /\ vhdAt' = "over" /\ attached' = FALSE
      BY <1>22 DEF VhdHostReboots, theManifest
    <2>3. attached' \in BOOLEAN
      BY <2>2, Zenon
    <2>. QED BY <2>1, <2>2, <2>3 DEF VhdInv, VhdTypes, VHD_STEPS
  <1>23. CASE Replaced
    BY <1>23, VhdSteps DEF Replaced, VhdInv, VhdTypes, VHD_STEPS, VhdStep, VhdAnswer, theManifest,
        theImage, thePlace, IsOwned, NeverMade
  <1>24. CASE FilesInFolder
    BY <1>24, VhdSteps DEF FilesInFolder, VhdInv, VhdTypes, VHD_STEPS, VhdStep, VhdAnswer,
        theManifest, theImage, thePlace, IsOwned, NeverMade
  <1>u. CASE UNCHANGED vhdVars
    BY <1>u DEF vhdVars, VhdInv, VhdTypes, VHD_STEPS
  <1>. QED BY <1>1, <1>2, <1>3, <1>4, <1>5, <1>6, <1>7, <1>8, <1>9, <1>10, <1>11, <1>12, <1>13,
      <1>14, <1>15, <1>16, <1>17, <1>18, <1>19, <1>20, <1>21, <1>22, <1>23, <1>24, <1>u DEF VhdNext

LEMMA VhdCourseKept ==
  ASSUME VhdInv, [VhdNext]_vhdVars, \A verb \in {"ensure", "mount", "remove"} : ~BeginVhdCall(verb)
  PROVE  VhdCourse'
  <1>1. CASE VhdCallEnds
    BY <1>1, VhdSteps DEF VhdCallEnds, VhdInv, VhdTypes, VhdCourse, VhdStep, VhdAnswer, theManifest,
        theImage, thePlace, IsOwned, NeverMade
  <1>2. CASE PlanDisk
    BY <1>2, VhdSteps DEF PlanDisk, VhdInv, VhdTypes, VhdCourse, VhdStep, VhdAnswer, theManifest,
        theImage, thePlace, IsOwned, NeverMade
  <1>3. CASE CreateVhdx
    BY <1>3, VhdSteps DEF CreateVhdx, VhdInv, VhdTypes, VhdCourse, VhdStep, VhdAnswer, theManifest,
        theImage, thePlace, IsOwned, NeverMade
  <1>4. CASE Attach
    BY <1>4, VhdSteps DEF Attach, VhdInv, VhdTypes, VhdCourse, VhdStep, VhdAnswer, theManifest,
        theImage, thePlace, IsOwned, NeverMade
  <1>5. CASE IdentifyVhdx
    BY <1>5, VhdSteps DEF IdentifyVhdx, VhdInv, VhdTypes, VhdCourse, VhdStep, VhdAnswer,
        theManifest, theImage, thePlace, IsOwned, NeverMade
  <1>6. CASE InitializeVhdx
    BY <1>6, VhdSteps DEF InitializeVhdx, VhdInv, VhdTypes, VhdCourse, VhdStep, VhdAnswer,
        theManifest, theImage, thePlace, IsOwned, NeverMade
  <1>7. CASE PartitionVhdx
    BY <1>7, VhdSteps DEF PartitionVhdx, VhdInv, VhdTypes, VhdCourse, VhdStep, VhdAnswer,
        theManifest, theImage, thePlace, IsOwned, NeverMade
  <1>8. CASE RecordPartition
    BY <1>8, VhdSteps DEF RecordPartition, VhdInv, VhdTypes, VhdCourse, VhdStep, VhdAnswer,
        theManifest, theImage, thePlace, IsOwned, NeverMade
  <1>9. CASE FormatVhdx
    BY <1>9, VhdSteps DEF FormatVhdx, VhdInv, VhdTypes, VhdCourse, VhdStep, VhdAnswer, theManifest,
        theImage, thePlace, IsOwned, NeverMade
  <1>10. CASE RecordVolume
    BY <1>10, VhdSteps DEF RecordVolume, VhdInv, VhdTypes, VhdCourse, VhdStep, VhdAnswer,
        theManifest, theImage, thePlace, IsOwned, NeverMade
  <1>11. CASE MountVhdx
    BY <1>11, VhdSteps DEF MountVhdx, VhdInv, VhdTypes, VhdCourse, VhdStep, VhdAnswer, theManifest,
        theImage, thePlace, IsOwned, NeverMade
  <1>12. CASE SetPrivate
    BY <1>12, VhdSteps DEF SetPrivate, VhdInv, VhdTypes, VhdCourse, VhdStep, VhdAnswer, theManifest,
        theImage, thePlace, IsOwned, NeverMade
  <1>13. CASE ProveMounted
    BY <1>13, VhdSteps DEF ProveMounted, VhdInv, VhdTypes, VhdCourse, VhdStep, VhdAnswer,
        theManifest, theImage, thePlace, IsOwned, NeverMade
  <1>14. CASE RemoveNothing
    BY <1>14, VhdSteps DEF RemoveNothing, VhdInv, VhdTypes, VhdCourse, VhdStep, VhdAnswer,
        theManifest, theImage, thePlace, IsOwned, NeverMade
  <1>15. CASE ConsiderRemoval
    BY <1>15, VhdSteps DEF ConsiderRemoval, VhdInv, VhdTypes, VhdCourse, VhdStep, VhdAnswer,
        theManifest, theImage, thePlace, IsOwned, NeverMade
  <1>16. CASE ConfirmVhdx
    BY <1>16, VhdSteps DEF ConfirmVhdx, VhdInv, VhdTypes, VhdCourse, VhdStep, VhdAnswer,
        theManifest, theImage, thePlace, IsOwned, NeverMade
  <1>17. CASE ReleaseVhdx
    BY <1>17, VhdSteps DEF ReleaseVhdx, VhdInv, VhdTypes, VhdCourse, VhdStep, VhdAnswer,
        theManifest, theImage, thePlace, IsOwned, NeverMade
  <1>18. CASE EraseVhdx
    BY <1>18, VhdSteps DEF EraseVhdx, VhdInv, VhdTypes, VhdCourse, VhdStep, VhdAnswer, theManifest,
        theImage, thePlace, IsOwned, NeverMade
  <1>19. CASE RemoveFolder
    BY <1>19, VhdSteps DEF RemoveFolder, VhdInv, VhdTypes, VhdCourse, VhdStep, VhdAnswer,
        theManifest, theImage, thePlace, IsOwned, NeverMade
  <1>20. CASE ForgetDisk
    BY <1>20, VhdSteps DEF ForgetDisk, VhdInv, VhdTypes, VhdCourse, VhdStep, VhdAnswer, theManifest,
        theImage, thePlace, IsOwned, NeverMade
  <1>21. CASE RunnerWrites
    BY <1>21, VhdSteps DEF RunnerWrites, VhdInv, VhdTypes, VhdCourse, VhdStep, VhdAnswer,
        theManifest, theImage, thePlace, IsOwned, NeverMade
  <1>22. CASE VhdHostReboots
    <2>1. (path' => path) /\ ~attached' /\ vhdAt' = "over"
      <3>1. path' = path \/ path' = FALSE
        BY <1>22 DEF VhdHostReboots
      <3>2. path' => path
        BY <3>1, Zenon
      <3>. QED BY <1>22, <3>2, Zenon DEF VhdHostReboots
    <2>2. UNCHANGED <<stage, identity, vhdx, format, stored, folder, vhdCall>>
      BY <1>22 DEF VhdHostReboots, theManifest
    <2>. QED BY <2>1, <2>2 DEF VhdInv, VhdCourse
  <1>23. CASE Replaced
    BY <1>23, VhdSteps DEF Replaced, VhdInv, VhdTypes, VhdCourse, VhdStep, VhdAnswer, theManifest,
        theImage, thePlace, IsOwned, NeverMade
  <1>24. CASE FilesInFolder
    BY <1>24, VhdSteps DEF FilesInFolder, VhdInv, VhdTypes, VhdCourse, VhdStep, VhdAnswer,
        theManifest, theImage, thePlace, IsOwned, NeverMade
  <1>u. CASE UNCHANGED vhdVars
    BY <1>u DEF vhdVars, VhdInv, VhdTypes, VhdCourse
  <1>. QED BY <1>1, <1>2, <1>3, <1>4, <1>5, <1>6, <1>7, <1>8, <1>9, <1>10, <1>11, <1>12, <1>13,
      <1>14, <1>15, <1>16, <1>17, <1>18, <1>19, <1>20, <1>21, <1>22, <1>23, <1>24, <1>u DEF VhdNext

LEMMA VhdStepIsAllowed ==
  ASSUME VhdInv, [VhdNext]_vhdVars, \A verb \in {"ensure", "mount", "remove"} : ~BeginVhdCall(verb)
  PROVE  VhdContractStep
  <1>1. CASE VhdCallEnds
    BY <1>1, VhdSteps DEF VhdCallEnds, VhdInv, VhdTypes, VhdCourse, VhdContractStep,
        VhdDisk!diskVars, VhdStep, VhdAnswer, theManifest, theImage, thePlace, IsOwned, NeverMade
  <1>2. CASE PlanDisk
    BY <1>2, VhdSteps DEF PlanDisk, VhdInv, VhdTypes, VhdCourse, VhdContractStep, VhdDisk!diskVars,
        VhdStep, VhdAnswer, theManifest, theImage, thePlace, IsOwned, NeverMade
  <1>3. CASE CreateVhdx
    BY <1>3, VhdSteps DEF CreateVhdx, VhdInv, VhdTypes, VhdCourse, VhdContractStep,
        VhdDisk!diskVars, VhdStep, VhdAnswer, theManifest, theImage, thePlace, IsOwned, NeverMade
  <1>4. CASE Attach
    BY <1>4, VhdSteps DEF Attach, VhdInv, VhdTypes, VhdCourse, VhdContractStep, VhdDisk!diskVars,
        VhdStep, VhdAnswer, theManifest, theImage, thePlace, IsOwned, NeverMade, VhdDisk!DiskNext,
        VhdDisk!ComeIntoUse
  <1>5. CASE IdentifyVhdx
    BY <1>5, VhdSteps DEF IdentifyVhdx, VhdInv, VhdTypes, VhdCourse, VhdContractStep,
        VhdDisk!diskVars, VhdStep, VhdAnswer, theManifest, theImage, thePlace, IsOwned, NeverMade,
        VhdDisk!DiskNext, VhdDisk!GoOutOfUse
  <1>6. CASE InitializeVhdx
    BY <1>6, VhdSteps DEF InitializeVhdx, VhdInv, VhdTypes, VhdCourse, VhdContractStep,
        VhdDisk!diskVars, VhdStep, VhdAnswer, theManifest, theImage, thePlace, IsOwned, NeverMade
  <1>7. CASE PartitionVhdx
    BY <1>7, VhdSteps DEF PartitionVhdx, VhdInv, VhdTypes, VhdCourse, VhdContractStep,
        VhdDisk!diskVars, VhdStep, VhdAnswer, theManifest, theImage, thePlace, IsOwned, NeverMade
  <1>8. CASE RecordPartition
    BY <1>8, VhdSteps DEF RecordPartition, VhdInv, VhdTypes, VhdCourse, VhdContractStep,
        VhdDisk!diskVars, VhdStep, VhdAnswer, theManifest, theImage, thePlace, IsOwned, NeverMade
  <1>9. CASE FormatVhdx
    BY <1>9, VhdSteps DEF FormatVhdx, VhdInv, VhdTypes, VhdCourse, VhdContractStep,
        VhdDisk!diskVars, VhdStep, VhdAnswer, theManifest, theImage, thePlace, IsOwned, NeverMade,
        VhdDisk!DiskNext, VhdDisk!MakeDisk
  <1>10. CASE RecordVolume
    BY <1>10, VhdSteps DEF RecordVolume, VhdInv, VhdTypes, VhdCourse, VhdContractStep,
        VhdDisk!diskVars, VhdStep, VhdAnswer, theManifest, theImage, thePlace, IsOwned, NeverMade
  <1>11. CASE MountVhdx
    BY <1>11, VhdSteps DEF MountVhdx, VhdInv, VhdTypes, VhdCourse, VhdContractStep,
        VhdDisk!diskVars, VhdStep, VhdAnswer, theManifest, theImage, thePlace, IsOwned, NeverMade,
        VhdDisk!DiskNext, VhdDisk!ComeIntoUse
  <1>12. CASE SetPrivate
    BY <1>12, VhdSteps DEF SetPrivate, VhdInv, VhdTypes, VhdCourse, VhdContractStep,
        VhdDisk!diskVars, VhdStep, VhdAnswer, theManifest, theImage, thePlace, IsOwned, NeverMade
  <1>13. CASE ProveMounted
    BY <1>13, VhdSteps DEF ProveMounted, VhdInv, VhdTypes, VhdCourse, VhdContractStep,
        VhdDisk!diskVars, VhdStep, VhdAnswer, theManifest, theImage, thePlace, IsOwned, NeverMade,
        VhdDisk!DiskNext, VhdDisk!Grant
  <1>14. CASE RemoveNothing
    BY <1>14, VhdSteps DEF RemoveNothing, VhdInv, VhdTypes, VhdCourse, VhdContractStep,
        VhdDisk!diskVars, VhdStep, VhdAnswer, theManifest, theImage, thePlace, IsOwned, NeverMade,
        VhdDisk!DiskNext, VhdDisk!Grant
  <1>15. CASE ConsiderRemoval
    BY <1>15, VhdSteps DEF ConsiderRemoval, VhdInv, VhdTypes, VhdCourse, VhdContractStep,
        VhdDisk!diskVars, VhdStep, VhdAnswer, theManifest, theImage, thePlace, IsOwned, NeverMade
  <1>16. CASE ConfirmVhdx
    BY <1>16, VhdSteps DEF ConfirmVhdx, VhdInv, VhdTypes, VhdCourse, VhdContractStep,
        VhdDisk!diskVars, VhdStep, VhdAnswer, theManifest, theImage, thePlace, IsOwned, NeverMade
  <1>17. CASE ReleaseVhdx
    BY <1>17, VhdSteps DEF ReleaseVhdx, VhdInv, VhdTypes, VhdCourse, VhdContractStep,
        VhdDisk!diskVars, VhdStep, VhdAnswer, theManifest, theImage, thePlace, IsOwned, NeverMade,
        VhdDisk!DiskNext, VhdDisk!GoOutOfUse
  <1>18. CASE EraseVhdx
    BY <1>18, VhdSteps DEF EraseVhdx, VhdInv, VhdTypes, VhdCourse, VhdContractStep,
        VhdDisk!diskVars, VhdStep, VhdAnswer, theManifest, theImage, thePlace, IsOwned, NeverMade,
        VhdDisk!DiskNext, VhdDisk!DeleteDisk
  <1>19. CASE RemoveFolder
    BY <1>19, VhdSteps DEF RemoveFolder, VhdInv, VhdTypes, VhdCourse, VhdContractStep,
        VhdDisk!diskVars, VhdStep, VhdAnswer, theManifest, theImage, thePlace, IsOwned, NeverMade
  <1>20. CASE ForgetDisk
    BY <1>20, VhdSteps DEF ForgetDisk, VhdInv, VhdTypes, VhdCourse, VhdContractStep,
        VhdDisk!diskVars, VhdStep, VhdAnswer, theManifest, theImage, thePlace, IsOwned, NeverMade,
        VhdDisk!DiskNext, VhdDisk!Grant
  <1>21. CASE RunnerWrites
    BY <1>21, VhdSteps DEF RunnerWrites, VhdInv, VhdTypes, VhdCourse, VhdContractStep,
        VhdDisk!diskVars, VhdStep, VhdAnswer, theManifest, theImage, thePlace, IsOwned, NeverMade,
        VhdDisk!DiskNext, VhdDisk!WriteToDisk
  <1>22. CASE VhdHostReboots
    BY <1>22, VhdSteps DEF VhdHostReboots, VhdInv, VhdTypes, VhdCourse, VhdContractStep,
        VhdDisk!diskVars, VhdStep, VhdAnswer, theManifest, theImage, thePlace, IsOwned, NeverMade,
        VhdDisk!DiskNext, VhdDisk!GoOutOfUse
  <1>23. CASE Replaced
    BY <1>23, VhdSteps DEF Replaced, VhdInv, VhdTypes, VhdCourse, VhdContractStep, VhdDisk!diskVars,
        VhdStep, VhdAnswer, theManifest, theImage, thePlace, IsOwned, NeverMade, VhdDisk!DiskNext,
        VhdDisk!FilesAppear
  <1>24. CASE FilesInFolder
    BY <1>24, VhdSteps DEF FilesInFolder, VhdInv, VhdTypes, VhdCourse, VhdContractStep,
        VhdDisk!diskVars, VhdStep, VhdAnswer, theManifest, theImage, thePlace, IsOwned, NeverMade,
        VhdDisk!DiskNext, VhdDisk!FilesAppear
  <1>u. CASE UNCHANGED vhdVars
    BY <1>u DEF vhdVars, VhdInv, VhdTypes, VhdCourse, VhdContractStep, VhdDisk!diskVars
  <1>. QED BY <1>1, <1>2, <1>3, <1>4, <1>5, <1>6, <1>7, <1>8, <1>9, <1>10, <1>11, <1>12, <1>13,
      <1>14, <1>15, <1>16, <1>17, <1>18, <1>19, <1>20, <1>21, <1>22, <1>23, <1>24, <1>u DEF VhdNext

\* The data on the virtual disk of a runner is only destroyed by its removal,
\* wherever making or removing it is cut off (windows_storage.py).
THEOREM VhdKeepsTheContract == VhdSpec => VhdKeepsItsData
  <1>1. VhdInv /\ [VhdNext]_vhdVars => VhdInv' /\ VhdContractStep
    BY VhdBeginsACall, VhdTypesKept, VhdCourseKept, VhdStepIsAllowed DEF VhdInv
  <1>. QED BY <1>1, VhdBegins, PTL DEF VhdSpec, VhdKeepsItsData, VhdDisk!DiskSpec, VhdContractStep
-----------------------------------------------------------------------------
(* A macOS guest of its own (MacPool).                                     *)

\* The calls by what they do, each with the longest list of steps it may have.
CREATIONS == {"fresh", "resumed", "later"}
COURSES ==
  CREATIONS \cup {"start", "stop", "drain", "discard", "purge", "remove", "upkeep", "nothing"}

PurgeSteps ==
  <<"upkeep_boot", "disable", "bootout", "rm_plist", "rmtree", "forget", "shutdown", "retain">>

PoolCourse(course) ==
  CASE course = "fresh" -> PrepareSteps \o FreshCreation
    [] course = "resumed" -> PrepareSteps \o ResumedCreation
    [] course = "later" -> PrepareSteps \o LaterCreation
    [] course = "start" -> Starts
    [] course = "stop" -> StopSteps
    [] course = "drain" -> DrainSteps
    [] course = "discard" -> FinishSteps \o <<"shutdown">> \o <<"rm">>
    [] course = "purge" -> FinishSteps \o PurgeSteps \o <<"rm">>
    [] course = "remove" -> FinishSteps \o <<"shutdown">> \o <<"rm", "rm_all">>
    [] course = "upkeep" -> UpkeepSteps
    [] course = "nothing" -> <<"nothing">>

\* The calls that may take a course.
PoolVerbs(course) ==
  CASE course \in CREATIONS -> {"create"}
    [] course = "start" -> {"start", "cancel_drain"}
    [] course \in {"stop", "drain", "remove"} -> {course}
    [] course \in {"discard", "purge"} -> {"rebuild"}
    [] course = "nothing" -> {"stop", "drain", "rebuild", "remove"}
    [] course = "upkeep" -> UNIT_VERBS \cup {"none"}

RECORDS == [known : BOOLEAN, initialized : BOOLEAN, native : BOOLEAN, retained : BOOLEAN,
            disabled : BOOLEAN]
GUEST_JOBS ==
  [plist : BOOLEAN, enabled : BOOLEAN, loaded : BOOLEAN, process : {"none", "serving", "finishing"}]
GUEST_TREES == [software : {"none", "part", "whole"}, template : BOOLEAN, keeps : BOOLEAN]

PoolTypes ==
  /\ power \in {"absent", "off", "on"}
  /\ instance \in RECORDS /\ overlay \in BOOLEAN
  /\ job \in GUEST_JOBS /\ guestTree \in GUEST_TREES
  /\ poolCall \in [verb : UNIT_VERBS \cup {"none"}, answered : BOOLEAN]
  /\ upkeep \in {"none", "absent", "off", "on"}

Whole == guestTree.software = "whole" /\ guestTree.template /\ guestTree.keeps
Gone == guestTree.software = "none" /\ ~guestTree.template /\ ~job.plist

\* What the guest, and the record of it, are like at any time.
GuestKept ==
  /\ job.process # "none" => job.loaded
  /\ job.loaded => job.plist /\ power = "on"
  /\ job.process = "finishing" => ~job.enabled
  /\ job.plist => Whole
  /\ instance.initialized => instance.native
  /\ instance.native /\ instance.disabled => ~(job.plist /\ job.enabled)
  /\ instance.native /\ ~instance.initialized /\ guestTree.software = "whole" => Whole
  /\ instance.retained => Gone
  /\ ~instance.known => /\ job.process = "none" /\ ~job.plist /\ job.enabled
                        /\ guestTree.software = "none" /\ ~guestTree.template /\ ~guestTree.keeps
                        /\ ~instance.initialized /\ ~instance.native /\ ~instance.retained

\* ... while a creation that is at a step is under way,
CreationAt(course, step) ==
  /\ job.process # "finishing"
  /\ (instance.initialized <=> course = "later")
  /\ course = "resumed" => instance.native
  /\ step # "allocate" => ~instance.retained
  /\ step \in {"allocate", "overlay", "container", "boot", "unless_serving"}
       => (job.process = "serving" => job.enabled)
  /\ (\/ step \in {"allocate", "overlay", "container", "boot", "unless_serving",
                   "disable_record", "not_loaded", "storage", "copy"}
      \/ step = "may_start" /\ course = "later")
     => (guestTree.template => guestTree.software = "whole")
  /\ step \in {"copy", "template"} => guestTree.keeps /\ guestTree.software # "none"
  /\ step = "template" => guestTree.software = "whole"
  /\ (\/ step \in {"plist", "disable", "native", "enable", "load", "kick", "initialized"}
      \/ step = "may_start" /\ course # "later")
     => Whole
  /\ step = "native" => ~job.enabled
  /\ step \in {"storage", "copy", "template", "plist"} /\ course = "later" => ~instance.disabled
  /\ course = "fresh" /\ step \in {"may_start", "enable", "load", "kick", "initialized"}
       => instance.native
  /\ course = "fresh" /\ step \notin {"may_start", "enable", "load", "kick", "initialized"}
       => ~instance.native
  /\ step = "initialized" => job.loaded

\* ... and a removal.
RemovalAt(course, step) ==
  /\ step \in {"rm_plist", "bootout", "disable_record"} => ~job.enabled
  /\ step = "disable_record" => ~job.loaded
  /\ step = "rm_plist" => ~job.loaded
  /\ step = "rmtree" => ~job.plist
  /\ course = "purge" /\ step \in {"forget", "shutdown", "retain", "rm"} => Gone
  /\ course = "discard" => Gone

PlaceKept(course, step) ==
  /\ poolCall.verb \in PoolVerbs(course)
  /\ upkeep = "none" <=> course # "upkeep"
  /\ course # "upkeep" => ~poolCall.answered
  /\ step \notin {"allocate", "nothing"} => instance.known
  /\ ~instance.native /\ instance.disabled /\ job.plist /\ job.enabled
       => course \in {"fresh", "remove"}
  /\ course \in CREATIONS => CreationAt(course, step)
  /\ course \in {"discard", "purge", "remove"} => RemovalAt(course, step)
  /\ course = "start" => job.process # "finishing"
  /\ step \in {"enable", "load", "kick", "initialized"} => ~instance.disabled
  /\ step \in {"load", "kick", "initialized"} => job.enabled
  /\ course \in {"stop", "drain"} /\ step = "boot" => power # "off"
  /\ course \in {"stop", "drain"} /\ step \in {"bootout", "signal", "disable_record"}
       => ~job.enabled
  /\ step = "work" => (instance.native => job.process = "none")
  /\ step = "nothing" => IF poolCall.verb \in {"stop", "drain"} THEN power # "on"
                         ELSE ~instance.known

\* A call is over, or at a place of its course.
OnCourse(route, course) ==
  \E pos \in 1 .. Len(PoolCourse(course)) :
    route = SubSeq(PoolCourse(course), pos, Len(PoolCourse(course)))

PoolPlace ==
  poolSteps # <<>> =>
    \E course \in COURSES :
      OnCourse(poolSteps, course) /\ PlaceKept(course, Head(poolSteps))

PoolInv == PoolTypes /\ GuestKept /\ PoolPlace

PoolContractStep ==
  [PoolContract!BeginCall \/ PoolContract!Live \/ PoolContract!Work]_(PoolContract!contractVars)

POOL_STEPS ==
  {"allocate", "overlay", "container", "boot", "disable_record", "not_loaded", "storage",
   "copy", "template", "plist", "disable", "native", "may_start", "enable", "load", "kick",
   "initialized", "verify", "unless_serving", "bootout", "shutdown", "policy", "signal",
   "not_serving", "rm", "upkeep_boot", "rm_plist", "rmtree", "forget", "retain", "rm_all",
   "work", "shutdown_if_it_was_off", "nothing"}

\* The step that follows a step, and the courses on which it does.
Follows(course, step, next) ==
  /\ step = "allocate" => course \in CREATIONS /\ next = "overlay"
  /\ step = "overlay" => course \in CREATIONS /\ next = "container"
  /\ step = "container" => course \in CREATIONS /\ next = "boot"
  /\ step = "boot" =>
       \/ course = "fresh" /\ next = "disable_record"
       \/ course = "resumed" /\ next = "verify"
       \/ course = "later" /\ next = "unless_serving"
       \/ course = "start" /\ next = "may_start"
       \/ course = "stop" /\ next = "disable"
       \/ course = "drain" /\ next = "policy"
  /\ step = "disable_record" =>
       \/ course = "fresh" /\ next = "not_loaded"
       \/ course \in {"stop", "discard", "remove"} /\ next = "shutdown"
       \/ course = "drain" /\ next = "over"
       \/ course = "purge" /\ next = "upkeep_boot"
  /\ step = "not_loaded" => course = "fresh" /\ next = "storage"
  /\ step = "storage" => course \in {"fresh", "later"} /\ next = "copy"
  /\ step = "copy" => course \in {"fresh", "later"} /\ next = "template"
  /\ step = "template" => course \in {"fresh", "later"} /\ next = "plist"
  /\ step = "plist" =>
       \/ course = "fresh" /\ next = "disable"
       \/ course = "later" /\ next = "enable"
  /\ step = "disable" =>
       \/ course = "fresh" /\ next = "native"
       \/ course \in {"stop", "discard", "purge", "remove"} /\ next = "bootout"
       \/ course = "drain" /\ next = "signal"
  /\ step = "native" => course = "fresh" /\ next = "may_start"
  /\ step = "may_start" =>
       \/ course \in {"fresh", "resumed", "start"} /\ next = "enable"
       \/ course = "later" /\ next = "storage"
  /\ step = "enable" => course \in CREATIONS \cup {"start"} /\ next = "load"
  /\ step = "load" => course \in CREATIONS \cup {"start"} /\ next = "kick"
  /\ step = "kick" =>
       \/ course \in CREATIONS /\ next = "initialized"
       \/ course = "start" /\ next = "over"
  /\ step = "initialized" => course \in CREATIONS /\ next = "over"
  /\ step = "verify" => course = "resumed" /\ next = "may_start"
  /\ step = "unless_serving" => course = "later" /\ next = "may_start"
  /\ step = "bootout" =>
       \/ course \in {"stop", "discard", "purge", "remove"} /\ next = "disable_record"
       \/ course = "purge" /\ next = "rm_plist"
  /\ step = "shutdown" =>
       \/ course = "stop" /\ next = "over"
       \/ course \in {"discard", "remove"} /\ next = "rm"
       \/ course = "purge" /\ next = "retain"
  /\ step = "policy" => course = "drain" /\ next = "disable"
  /\ step = "signal" => course = "drain" /\ next = "disable_record"
  /\ step = "not_serving" => course \in {"discard", "purge", "remove"} /\ next = "disable"
  /\ step = "rm" =>
       \/ course \in {"discard", "purge"} /\ next = "over"
       \/ course = "remove" /\ next = "rm_all"
  /\ step = "upkeep_boot" =>
       \/ course = "purge" /\ next = "disable"
       \/ course = "upkeep" /\ next = "work"
  /\ step = "rm_plist" => course = "purge" /\ next = "rmtree"
  /\ step = "rmtree" => course = "purge" /\ next = "forget"
  /\ step = "forget" => course = "purge" /\ next = "shutdown"
  /\ step = "retain" => course = "purge" /\ next = "rm"
  /\ step = "rm_all" => course = "remove" /\ next = "over"
  /\ step = "work" => course = "upkeep" /\ next = "shutdown_if_it_was_off"
  /\ step = "shutdown_if_it_was_off" => course = "upkeep" /\ next = "over"
  /\ step = "nothing" => course = "nothing" /\ next = "over"

\* A list that has a length is not empty.
LEMMA SomeLeft ==
  ASSUME NEW S, NEW s \in Seq(S), Len(s) > 0
  PROVE  s # <<>>
BY EmptySeq

\* What is left of a course at a place of it: the step there, and the rest
\* from the next place.
LEMMA RestOfCourse ==
  ASSUME NEW S, NEW route \in Seq(S), NEW pos \in 1 .. Len(route)
  PROVE  LET rest == SubSeq(route, pos, Len(route)) IN
         /\ rest # <<>> /\ Head(rest) = route[pos]
         /\ Tail(rest) = <<>> <=> pos = Len(route)
         /\ Tail(rest) = SubSeq(route, pos + 1, Len(route))
  <1>. DEFINE n == Len(route)
              rest == SubSeq(route, pos, n)
              next == SubSeq(route, pos + 1, n)
  <1>1. n \in Nat /\ pos \in Int /\ n \in Int /\ pos + 1 \in Int /\ 1 <= pos /\ pos <= n
    BY LenProperties
  <1>2. (\A i \in pos .. n : route[i] \in S) /\ (\A i \in pos + 1 .. n : route[i] \in S)
    BY <1>1, ElementOfSeq
  <1>3. /\ rest \in Seq(S) /\ Len(rest) = n - pos + 1
        /\ \A i \in 1 .. n - pos + 1 : rest[i] = route[pos + i - 1]
    BY <1>1, <1>2, SubSeqProperties
  <1>4. /\ next \in Seq(S) /\ Len(next) = n - pos
        /\ \A i \in 1 .. n - pos : next[i] = route[pos + i]
    <2>1. next \in Seq(S) /\ Len(next) = IF pos + 1 <= n THEN n - (pos + 1) + 1 ELSE 0
      BY <1>1, <1>2, SubSeqProperties
    <2>2. \A i \in 1 .. n - (pos + 1) + 1 : next[i] = route[(pos + 1) + i - 1]
      BY <1>1, <1>2, SubSeqProperties
    <2>. QED BY <1>1, <2>1, <2>2
  <1>. HIDE DEF n, rest, next
  <1>5. rest # <<>>
    BY <1>1, <1>3, SomeLeft
  <1>6. Head(rest) = route[pos]
    BY <1>1, <1>3, <1>5
  <1>7. /\ Tail(rest) \in Seq(S) /\ Len(Tail(rest)) = n - pos
        /\ \A i \in 1 .. n - pos : Tail(rest)[i] = rest[i + 1]
    BY <1>1, <1>3, <1>5, HeadTailProperties
  <1>8. Tail(rest) = next
    BY <1>1, <1>3, <1>4, <1>7, SeqEqual
  <1>9. next = <<>> <=> pos = n
    <2>1. CASE pos = n
      <3>1. Len(next) = 0
        BY <1>1, <1>4, <2>1
      <3>. QED BY <1>4, <2>1, <3>1, EmptySeq
    <2>2. CASE pos # n
      <3>1. next # <<>>
        BY <1>1, <1>4, <2>2, SomeLeft
      <3>. QED BY <2>2, <3>1
    <2>. QED BY <2>1, <2>2
  <1>. QED BY <1>5, <1>6, <1>8, <1>9 DEF n, rest, next

\* The places of every course follow one another as Follows says.
LEMMA PlacesFollow ==
  ASSUME NEW course \in COURSES, NEW pos \in 1 .. Len(PoolCourse(course))
  PROVE  /\ PoolCourse(course) \in Seq(POOL_STEPS)
         /\ PoolCourse(course)[pos] # "over"
         /\ pos = Len(PoolCourse(course))
              => Follows(course, PoolCourse(course)[pos], "over")
         /\ pos # Len(PoolCourse(course))
              => /\ PoolCourse(course)[pos + 1] # "over"
                 /\ Follows(course, PoolCourse(course)[pos], PoolCourse(course)[pos + 1])
  <1>1. CASE course = "fresh"
    <2>1. PoolCourse(course) \in Seq(POOL_STEPS)
      BY <1>1 DEF PoolCourse, POOL_STEPS, CREATIONS, PrepareSteps, FreshCreation
    <2>2. /\ Len(PoolCourse(course)) = 17 /\ PoolCourse(course)[1] = "allocate"
          /\ PoolCourse(course)[2] = "overlay" /\ PoolCourse(course)[3] = "container"
          /\ PoolCourse(course)[4] = "boot" /\ PoolCourse(course)[5] = "disable_record"
          /\ PoolCourse(course)[6] = "not_loaded" /\ PoolCourse(course)[7] = "storage"
          /\ PoolCourse(course)[8] = "copy" /\ PoolCourse(course)[9] = "template"
      BY <1>1 DEF PoolCourse, CREATIONS, PrepareSteps, FreshCreation
    <2>3. /\ Follows("fresh", "allocate", "overlay")
          /\ Follows("fresh", "overlay", "container")
          /\ Follows("fresh", "container", "boot")
          /\ Follows("fresh", "boot", "disable_record")
          /\ Follows("fresh", "disable_record", "not_loaded")
          /\ Follows("fresh", "not_loaded", "storage")
          /\ Follows("fresh", "storage", "copy")
          /\ Follows("fresh", "copy", "template")
      BY DEF Follows, CREATIONS
    <2>4. CASE pos \in 1 .. 8
      BY <1>1, <2>1, <2>2, <2>3, <2>4
    <2>5. /\ Len(PoolCourse(course)) = 17 /\ PoolCourse(course)[9] = "template"
          /\ PoolCourse(course)[10] = "plist" /\ PoolCourse(course)[11] = "disable"
          /\ PoolCourse(course)[12] = "native" /\ PoolCourse(course)[13] = "may_start"
          /\ PoolCourse(course)[14] = "enable" /\ PoolCourse(course)[15] = "load"
          /\ PoolCourse(course)[16] = "kick" /\ PoolCourse(course)[17] = "initialized"
      BY <1>1 DEF PoolCourse, CREATIONS, PrepareSteps, FreshCreation
    <2>6. /\ Follows("fresh", "template", "plist")
          /\ Follows("fresh", "plist", "disable")
          /\ Follows("fresh", "disable", "native")
          /\ Follows("fresh", "native", "may_start")
          /\ Follows("fresh", "may_start", "enable")
          /\ Follows("fresh", "enable", "load")
          /\ Follows("fresh", "load", "kick")
          /\ Follows("fresh", "kick", "initialized")
          /\ Follows("fresh", "initialized", "over")
      BY DEF Follows, CREATIONS
    <2>7. CASE pos \in 9 .. 12
      BY <1>1, <2>1, <2>5, <2>6, <2>7
    <2>8. CASE pos \in 13 .. 16
      BY <1>1, <2>1, <2>5, <2>6, <2>8
    <2>9. CASE pos = 17
      BY <1>1, <2>1, <2>5, <2>6, <2>9
    <2>. QED BY <2>2, <2>4, <2>7, <2>8, <2>9
  <1>2. CASE course = "resumed"
    <2>1. PoolCourse(course) \in Seq(POOL_STEPS)
      BY <1>2 DEF PoolCourse, POOL_STEPS, CREATIONS, PrepareSteps, ResumedCreation
    <2>2. /\ Len(PoolCourse(course)) = 10 /\ PoolCourse(course)[1] = "allocate"
          /\ PoolCourse(course)[2] = "overlay" /\ PoolCourse(course)[3] = "container"
          /\ PoolCourse(course)[4] = "boot" /\ PoolCourse(course)[5] = "verify"
          /\ PoolCourse(course)[6] = "may_start"
      BY <1>2 DEF PoolCourse, CREATIONS, PrepareSteps, ResumedCreation
    <2>3. /\ Follows("resumed", "allocate", "overlay")
          /\ Follows("resumed", "overlay", "container")
          /\ Follows("resumed", "container", "boot")
          /\ Follows("resumed", "boot", "verify")
          /\ Follows("resumed", "verify", "may_start")
      BY DEF Follows, CREATIONS
    <2>4. CASE pos \in 1 .. 5
      BY <1>2, <2>1, <2>2, <2>3, <2>4
    <2>5. /\ Len(PoolCourse(course)) = 10 /\ PoolCourse(course)[6] = "may_start"
          /\ PoolCourse(course)[7] = "enable" /\ PoolCourse(course)[8] = "load"
          /\ PoolCourse(course)[9] = "kick" /\ PoolCourse(course)[10] = "initialized"
      BY <1>2 DEF PoolCourse, CREATIONS, PrepareSteps, ResumedCreation
    <2>6. /\ Follows("resumed", "may_start", "enable")
          /\ Follows("resumed", "enable", "load")
          /\ Follows("resumed", "load", "kick")
          /\ Follows("resumed", "kick", "initialized")
          /\ Follows("resumed", "initialized", "over")
      BY DEF Follows, CREATIONS
    <2>7. CASE pos \in 6 .. 10
      BY <1>2, <2>1, <2>5, <2>6, <2>7
    <2>. QED BY <2>2, <2>4, <2>7
  <1>3. CASE course = "later"
    <2>1. PoolCourse(course) \in Seq(POOL_STEPS)
      BY <1>3 DEF PoolCourse, POOL_STEPS, CREATIONS, PrepareSteps, LaterCreation
    <2>2. /\ Len(PoolCourse(course)) = 14 /\ PoolCourse(course)[1] = "allocate"
          /\ PoolCourse(course)[2] = "overlay" /\ PoolCourse(course)[3] = "container"
          /\ PoolCourse(course)[4] = "boot" /\ PoolCourse(course)[5] = "unless_serving"
          /\ PoolCourse(course)[6] = "may_start" /\ PoolCourse(course)[7] = "storage"
          /\ PoolCourse(course)[8] = "copy"
      BY <1>3 DEF PoolCourse, CREATIONS, PrepareSteps, LaterCreation
    <2>3. /\ Follows("later", "allocate", "overlay")
          /\ Follows("later", "overlay", "container")
          /\ Follows("later", "container", "boot")
          /\ Follows("later", "boot", "unless_serving")
          /\ Follows("later", "unless_serving", "may_start")
          /\ Follows("later", "may_start", "storage")
          /\ Follows("later", "storage", "copy")
      BY DEF Follows, CREATIONS
    <2>4. CASE pos \in 1 .. 7
      BY <1>3, <2>1, <2>2, <2>3, <2>4
    <2>5. /\ Len(PoolCourse(course)) = 14 /\ PoolCourse(course)[8] = "copy"
          /\ PoolCourse(course)[9] = "template" /\ PoolCourse(course)[10] = "plist"
          /\ PoolCourse(course)[11] = "enable" /\ PoolCourse(course)[12] = "load"
          /\ PoolCourse(course)[13] = "kick" /\ PoolCourse(course)[14] = "initialized"
      BY <1>3 DEF PoolCourse, CREATIONS, PrepareSteps, LaterCreation
    <2>6. /\ Follows("later", "copy", "template")
          /\ Follows("later", "template", "plist")
          /\ Follows("later", "plist", "enable")
          /\ Follows("later", "enable", "load")
          /\ Follows("later", "load", "kick")
          /\ Follows("later", "kick", "initialized")
          /\ Follows("later", "initialized", "over")
      BY DEF Follows, CREATIONS
    <2>7. CASE pos \in 8 .. 14
      BY <1>3, <2>1, <2>5, <2>6, <2>7
    <2>. QED BY <2>2, <2>4, <2>7
  <1>4. CASE course = "start"
    <2>1. PoolCourse(course) \in Seq(POOL_STEPS)
      BY <1>4 DEF PoolCourse, POOL_STEPS, CREATIONS, Starts
    <2>2. /\ Len(PoolCourse(course)) = 5 /\ PoolCourse(course)[1] = "boot"
          /\ PoolCourse(course)[2] = "may_start" /\ PoolCourse(course)[3] = "enable"
          /\ PoolCourse(course)[4] = "load" /\ PoolCourse(course)[5] = "kick"
      BY <1>4 DEF PoolCourse, CREATIONS, Starts
    <2>3. /\ Follows("start", "boot", "may_start")
          /\ Follows("start", "may_start", "enable")
          /\ Follows("start", "enable", "load")
          /\ Follows("start", "load", "kick")
          /\ Follows("start", "kick", "over")
      BY DEF Follows, CREATIONS
    <2>. QED BY <1>4, <2>1, <2>2, <2>3
  <1>5. CASE course = "stop"
    <2>1. PoolCourse(course) \in Seq(POOL_STEPS)
      BY <1>5 DEF PoolCourse, POOL_STEPS, CREATIONS, StopSteps
    <2>2. /\ Len(PoolCourse(course)) = 5 /\ PoolCourse(course)[1] = "boot"
          /\ PoolCourse(course)[2] = "disable" /\ PoolCourse(course)[3] = "bootout"
          /\ PoolCourse(course)[4] = "disable_record" /\ PoolCourse(course)[5] = "shutdown"
      BY <1>5 DEF PoolCourse, CREATIONS, StopSteps
    <2>3. /\ Follows("stop", "boot", "disable")
          /\ Follows("stop", "disable", "bootout")
          /\ Follows("stop", "bootout", "disable_record")
          /\ Follows("stop", "disable_record", "shutdown")
          /\ Follows("stop", "shutdown", "over")
      BY DEF Follows, CREATIONS
    <2>. QED BY <1>5, <2>1, <2>2, <2>3
  <1>6. CASE course = "drain"
    <2>1. PoolCourse(course) \in Seq(POOL_STEPS)
      BY <1>6 DEF PoolCourse, POOL_STEPS, CREATIONS, DrainSteps
    <2>2. /\ Len(PoolCourse(course)) = 5 /\ PoolCourse(course)[1] = "boot"
          /\ PoolCourse(course)[2] = "policy" /\ PoolCourse(course)[3] = "disable"
          /\ PoolCourse(course)[4] = "signal" /\ PoolCourse(course)[5] = "disable_record"
      BY <1>6 DEF PoolCourse, CREATIONS, DrainSteps
    <2>3. /\ Follows("drain", "boot", "policy")
          /\ Follows("drain", "policy", "disable")
          /\ Follows("drain", "disable", "signal")
          /\ Follows("drain", "signal", "disable_record")
          /\ Follows("drain", "disable_record", "over")
      BY DEF Follows, CREATIONS
    <2>. QED BY <1>6, <2>1, <2>2, <2>3
  <1>7. CASE course = "discard"
    <2>1. PoolCourse(course) \in Seq(POOL_STEPS)
      BY <1>7 DEF PoolCourse, POOL_STEPS, CREATIONS, FinishSteps
    <2>2. /\ Len(PoolCourse(course)) = 6 /\ PoolCourse(course)[1] = "not_serving"
          /\ PoolCourse(course)[2] = "disable" /\ PoolCourse(course)[3] = "bootout"
          /\ PoolCourse(course)[4] = "disable_record" /\ PoolCourse(course)[5] = "shutdown"
          /\ PoolCourse(course)[6] = "rm"
      BY <1>7 DEF PoolCourse, CREATIONS, FinishSteps
    <2>3. /\ Follows("discard", "not_serving", "disable")
          /\ Follows("discard", "disable", "bootout")
          /\ Follows("discard", "bootout", "disable_record")
          /\ Follows("discard", "disable_record", "shutdown")
          /\ Follows("discard", "shutdown", "rm")
          /\ Follows("discard", "rm", "over")
      BY DEF Follows, CREATIONS
    <2>. QED BY <1>7, <2>1, <2>2, <2>3
  <1>8. CASE course = "purge"
    <2>1. PoolCourse(course) \in Seq(POOL_STEPS)
      BY <1>8 DEF PoolCourse, POOL_STEPS, CREATIONS, FinishSteps, PurgeSteps
    <2>2. /\ Len(PoolCourse(course)) = 13 /\ PoolCourse(course)[1] = "not_serving"
          /\ PoolCourse(course)[2] = "disable" /\ PoolCourse(course)[3] = "bootout"
          /\ PoolCourse(course)[4] = "disable_record" /\ PoolCourse(course)[5] = "upkeep_boot"
          /\ PoolCourse(course)[6] = "disable" /\ PoolCourse(course)[7] = "bootout"
      BY <1>8 DEF PoolCourse, CREATIONS, FinishSteps, PurgeSteps
    <2>3. /\ Follows("purge", "not_serving", "disable")
          /\ Follows("purge", "disable", "bootout")
          /\ Follows("purge", "bootout", "disable_record")
          /\ Follows("purge", "disable_record", "upkeep_boot")
          /\ Follows("purge", "upkeep_boot", "disable")
          /\ Follows("purge", "disable", "bootout")
      BY DEF Follows, CREATIONS
    <2>4. CASE pos \in 1 .. 6
      BY <1>8, <2>1, <2>2, <2>3, <2>4
    <2>5. /\ Len(PoolCourse(course)) = 13 /\ PoolCourse(course)[7] = "bootout"
          /\ PoolCourse(course)[8] = "rm_plist" /\ PoolCourse(course)[9] = "rmtree"
          /\ PoolCourse(course)[10] = "forget" /\ PoolCourse(course)[11] = "shutdown"
          /\ PoolCourse(course)[12] = "retain" /\ PoolCourse(course)[13] = "rm"
      BY <1>8 DEF PoolCourse, CREATIONS, FinishSteps, PurgeSteps
    <2>6. /\ Follows("purge", "bootout", "rm_plist")
          /\ Follows("purge", "rm_plist", "rmtree")
          /\ Follows("purge", "rmtree", "forget")
          /\ Follows("purge", "forget", "shutdown")
          /\ Follows("purge", "shutdown", "retain")
          /\ Follows("purge", "retain", "rm")
          /\ Follows("purge", "rm", "over")
      BY DEF Follows, CREATIONS
    <2>7. CASE pos \in 7 .. 13
      BY <1>8, <2>1, <2>5, <2>6, <2>7
    <2>. QED BY <2>2, <2>4, <2>7
  <1>9. CASE course = "remove"
    <2>1. PoolCourse(course) \in Seq(POOL_STEPS)
      BY <1>9 DEF PoolCourse, POOL_STEPS, CREATIONS, FinishSteps
    <2>2. /\ Len(PoolCourse(course)) = 7 /\ PoolCourse(course)[1] = "not_serving"
          /\ PoolCourse(course)[2] = "disable" /\ PoolCourse(course)[3] = "bootout"
          /\ PoolCourse(course)[4] = "disable_record" /\ PoolCourse(course)[5] = "shutdown"
          /\ PoolCourse(course)[6] = "rm" /\ PoolCourse(course)[7] = "rm_all"
      BY <1>9 DEF PoolCourse, CREATIONS, FinishSteps
    <2>3. /\ Follows("remove", "not_serving", "disable")
          /\ Follows("remove", "disable", "bootout")
          /\ Follows("remove", "bootout", "disable_record")
          /\ Follows("remove", "disable_record", "shutdown")
          /\ Follows("remove", "shutdown", "rm")
          /\ Follows("remove", "rm", "rm_all")
          /\ Follows("remove", "rm_all", "over")
      BY DEF Follows, CREATIONS
    <2>. QED BY <1>9, <2>1, <2>2, <2>3
  <1>10. CASE course = "upkeep"
    <2>1. PoolCourse(course) \in Seq(POOL_STEPS)
      BY <1>10 DEF PoolCourse, POOL_STEPS, CREATIONS, UpkeepSteps
    <2>2. /\ Len(PoolCourse(course)) = 3 /\ PoolCourse(course)[1] = "upkeep_boot"
          /\ PoolCourse(course)[2] = "work" /\ PoolCourse(course)[3] = "shutdown_if_it_was_off"
      BY <1>10 DEF PoolCourse, CREATIONS, UpkeepSteps
    <2>3. /\ Follows("upkeep", "upkeep_boot", "work")
          /\ Follows("upkeep", "work", "shutdown_if_it_was_off")
          /\ Follows("upkeep", "shutdown_if_it_was_off", "over")
      BY DEF Follows, CREATIONS
    <2>4. pos \in {1, 2, 3}
      BY <2>2
    <2>. QED BY <1>10, <2>1, <2>2, <2>3, <2>4
  <1>11. CASE course = "nothing"
    <2>1. PoolCourse(course) \in Seq(POOL_STEPS)
      BY <1>11 DEF PoolCourse, POOL_STEPS, CREATIONS
    <2>2. /\ Len(PoolCourse(course)) = 1 /\ PoolCourse(course)[1] = "nothing"
      BY <1>11 DEF PoolCourse, CREATIONS
    <2>3. /\ Follows("nothing", "nothing", "over")
      BY DEF Follows, CREATIONS
    <2>. QED BY <1>11, <2>1, <2>2, <2>3
  <1>. QED BY <1>1, <1>2, <1>3, <1>4, <1>5, <1>6, <1>7, <1>8, <1>9, <1>10, <1>11 DEF COURSES,
      CREATIONS

\* A step that is done, or found not possible, of a call on a course.
PoolDone(course, step, possible, next) ==
  /\ PlaceKept(course, step) /\ Follows(course, step, next) /\ step # "over"
  /\ UNCHANGED upkeep
  /\ poolCall' \in [verb : UNIT_VERBS \cup {"none"}, answered : BOOLEAN]
  /\ poolCall'.verb = poolCall.verb
  /\ IF course = "upkeep" THEN poolCall' = poolCall
     ELSE poolCall'.answered <=> possible /\ next = "over"
  /\ (possible /\ next # "over" => PlaceKept(course, next)') => PoolPlace'

\* A step that is done is a place of a course, and the call is then at the next
\* place of it, or over.
LEMMA PoolDoes ==
  ASSUME PoolInv, NEW step, NEW possible \in BOOLEAN, StepDone(step, possible)
  PROVE  \E course, next : PoolDone(course, step, possible, next)
  <1>1. poolSteps # <<>> /\ Head(poolSteps) = step
    BY DEF StepDone
  <1>2. PICK course \in COURSES : OnCourse(poolSteps, course) /\ PlaceKept(course, step)
    BY <1>1 DEF PoolInv, PoolPlace
  <1>. DEFINE route == PoolCourse(course)
  <1>3. PICK pos \in 1 .. Len(route) : poolSteps = SubSeq(route, pos, Len(route))
    BY <1>2 DEF OnCourse
  <1>4. /\ route \in Seq(POOL_STEPS) /\ route[pos] # "over"
        /\ pos = Len(route) => Follows(course, route[pos], "over")
        /\ pos # Len(route) => /\ route[pos + 1] # "over"
                              /\ Follows(course, route[pos], route[pos + 1])
    BY PlacesFollow
  <1>5. /\ Head(poolSteps) = route[pos]
        /\ Tail(poolSteps) = <<>> <=> pos = Len(route)
        /\ Tail(poolSteps) = SubSeq(route, pos + 1, Len(route))
    BY <1>3, <1>4, RestOfCourse
  <1>6. Len(route) \in Nat
    BY <1>4, LenProperties
  <1>. DEFINE next == IF pos = Len(route) THEN "over" ELSE route[pos + 1]
  <1>7. /\ Follows(course, step, next) /\ step # "over"
        /\ Tail(poolSteps) = <<>> <=> next = "over"
    BY <1>1, <1>4, <1>5
  <1>8. ASSUME Tail(poolSteps) # <<>>
        PROVE  OnCourse(Tail(poolSteps), course) /\ Head(Tail(poolSteps)) = next
    <2>1. pos # Len(route) /\ pos + 1 \in 1 .. Len(route)
      BY <1>5, <1>6, <1>8
    <2>2. Head(SubSeq(route, pos + 1, Len(route))) = route[pos + 1]
      BY <1>4, <2>1, RestOfCourse
    <2>. QED BY <1>5, <2>1, <2>2 DEF OnCourse
  <1>9. /\ poolSteps' = (IF possible THEN Tail(poolSteps) ELSE <<>>)
        /\ UNCHANGED upkeep
        /\ poolCall' = IF upkeep = "none"
                       THEN [poolCall EXCEPT !.answered = possible /\ Tail(poolSteps) = <<>>]
                       ELSE poolCall
    BY DEF StepDone
  <1>10. upkeep = "none" <=> course # "upkeep"
    BY <1>2 DEF PlaceKept
  <1>. HIDE DEF next
  <1>11. /\ poolCall' \in [verb : UNIT_VERBS \cup {"none"}, answered : BOOLEAN]
         /\ poolCall'.verb = poolCall.verb
         /\ IF course = "upkeep" THEN poolCall' = poolCall
            ELSE poolCall'.answered <=> possible /\ next = "over"
    BY <1>7, <1>9, <1>10 DEF PoolInv, PoolTypes
  <1>12. ASSUME possible /\ next # "over" => PlaceKept(course, next)'
         PROVE  PoolPlace'
    <2>1. CASE poolSteps' = <<>>
      BY <2>1 DEF PoolPlace
    <2>2. CASE poolSteps' # <<>>
      <3>1. possible /\ poolSteps' = Tail(poolSteps) /\ Tail(poolSteps) # <<>> /\ next # "over"
        BY <1>7, <1>9, <2>2
      <3>2. OnCourse(poolSteps', course) /\ Head(poolSteps') = next
        BY <1>8, <3>1
      <3>3. PlaceKept(course, Head(poolSteps))'
        BY <1>12, <3>1, <3>2 DEF PlaceKept, CreationAt, RemovalAt
      <3>4. OnCourse(poolSteps, course)'
        BY <3>2 DEF OnCourse
      <3>. QED BY <3>3, <3>4 DEF PoolPlace
    <2>. QED BY <2>1, <2>2
  <1>. QED BY <1>2, <1>7, <1>9, <1>11, <1>12 DEF PoolDone

\* A whole course, and what a call that finds the guest off leaves out of it,
\* is a place of the course.
LEMMA CoursesBegin ==
  /\ \A course \in COURSES : OnCourse(PoolCourse(course), course)
  /\ OnCourse(<<"rm">>, "discard") /\ OnCourse(<<"rm", "rm_all">>, "remove")
  /\ OnCourse(PurgeSteps \o <<"rm">>, "purge")
  <1>1. ASSUME NEW course \in COURSES PROVE OnCourse(PoolCourse(course), course)
    <2>1. Len(PoolCourse(course)) \in Nat \ {0}
      BY DEF COURSES, CREATIONS, PoolCourse, PrepareSteps, FreshCreation, ResumedCreation,
          LaterCreation, Starts, StopSteps, DrainSteps, FinishSteps, PurgeSteps, UpkeepSteps
    <2>2. PoolCourse(course) \in Seq(POOL_STEPS)
      BY <2>1, PlacesFollow
    <2>3. PoolCourse(course) = SubSeq(PoolCourse(course), 1, Len(PoolCourse(course)))
      BY <2>2, SubSeqFull
    <2>. QED BY <2>1, <2>3 DEF OnCourse
  <1>2. OnCourse(<<"rm">>, "discard")
    BY DEF OnCourse, PoolCourse, CREATIONS, FinishSteps
  <1>3. OnCourse(<<"rm", "rm_all">>, "remove")
    BY DEF OnCourse, PoolCourse, CREATIONS, FinishSteps
  <1>4. OnCourse(PurgeSteps \o <<"rm">>, "purge")
    <2>. DEFINE route == PoolCourse("purge")
                rest == SubSeq(route, 5, 13)
    <2>1. /\ route \in Seq(POOL_STEPS) /\ Len(route) = 13
          /\ route[5] = "upkeep_boot" /\ route[6] = "disable" /\ route[7] = "bootout"
          /\ route[8] = "rm_plist" /\ route[9] = "rmtree" /\ route[10] = "forget"
          /\ route[11] = "shutdown" /\ route[12] = "retain" /\ route[13] = "rm"
      BY DEF PoolCourse, CREATIONS, FinishSteps, PurgeSteps, POOL_STEPS
    <2>2. /\ PurgeSteps \o <<"rm">> \in Seq(POOL_STEPS) /\ Len(PurgeSteps \o <<"rm">>) = 9
          /\ (PurgeSteps \o <<"rm">>)[1] = "upkeep_boot" /\ (PurgeSteps \o <<"rm">>)[2] = "disable"
          /\ (PurgeSteps \o <<"rm">>)[3] = "bootout" /\ (PurgeSteps \o <<"rm">>)[4] = "rm_plist"
          /\ (PurgeSteps \o <<"rm">>)[5] = "rmtree" /\ (PurgeSteps \o <<"rm">>)[6] = "forget"
          /\ (PurgeSteps \o <<"rm">>)[7] = "shutdown" /\ (PurgeSteps \o <<"rm">>)[8] = "retain"
          /\ (PurgeSteps \o <<"rm">>)[9] = "rm"
      BY DEF PurgeSteps, POOL_STEPS
    <2>. HIDE DEF route
    <2>3. \A i \in 5 .. 13 : route[i] \in POOL_STEPS
      <3>1. ASSUME NEW i \in 5 .. 13 PROVE route[i] \in POOL_STEPS
        <4>1. i \in 1 .. Len(route)
          BY <2>1
        <4>. QED BY <2>1, <4>1, ElementOfSeq
      <3>. QED BY <3>1
    <2>4. /\ rest \in Seq(POOL_STEPS) /\ Len(rest) = 9
          /\ \A i \in 1 .. 9 : rest[i] = route[5 + i - 1]
      BY <2>3, SubSeqProperties
    <2>. HIDE DEF rest
    <2>5. \A i \in 1 .. 9 : rest[i] = (PurgeSteps \o <<"rm">>)[i]
      BY <2>1, <2>2, <2>4
    <2>6. rest = PurgeSteps \o <<"rm">>
      BY <2>2, <2>4, <2>5, SeqEqual
    <2>7. 5 \in 1 .. 13 /\ Len(PoolCourse("purge")) = 13
      BY <2>1 DEF route
    <2>. QED BY <2>6, <2>7 DEF OnCourse, rest, route
  <1>. QED BY <1>1, <1>2, <1>3, <1>4

\* The first step of each course.
LEMMA CourseHeads ==
  /\ \A course \in CREATIONS : Head(PoolCourse(course)) = "allocate"
  /\ Head(PoolCourse("start")) = "boot" /\ Head(PoolCourse("stop")) = "boot"
  /\ Head(PoolCourse("drain")) = "boot" /\ Head(PoolCourse("nothing")) = "nothing"
  /\ Head(PoolCourse("discard")) = "not_serving" /\ Head(PoolCourse("purge")) = "not_serving"
  /\ Head(PoolCourse("remove")) = "not_serving" /\ Head(PoolCourse("upkeep")) = "upkeep_boot"
  /\ Head(<<"rm">>) = "rm" /\ Head(<<"rm", "rm_all">>) = "rm"
  /\ Head(PurgeSteps \o <<"rm">>) = "upkeep_boot"
BY DEF PoolCourse, CREATIONS, PrepareSteps, FreshCreation, ResumedCreation, LaterCreation, Starts,
    StopSteps, DrainSteps, FinishSteps, PurgeSteps, UpkeepSteps

\* What a call has to do is a course, or the rest of one.
LEMMA TodoIsACourse ==
  /\ TodoFor("create") = IF instance.initialized THEN PoolCourse("later")
                         ELSE IF instance.native THEN PoolCourse("resumed")
                         ELSE PoolCourse("fresh")
  /\ TodoFor("start") = PoolCourse("start") /\ TodoFor("cancel_drain") = PoolCourse("start")
  /\ TodoFor("stop") = IF power = "off" THEN PoolCourse("nothing") ELSE PoolCourse("stop")
  /\ TodoFor("drain") = IF power = "off" THEN PoolCourse("nothing") ELSE PoolCourse("drain")
  /\ TodoFor("rebuild") =
       IF ~instance.known THEN PoolCourse("nothing")
       ELSE IF instance.retained
       THEN IF power = "on" THEN PoolCourse("discard") ELSE <<"rm">>
       ELSE IF power = "on" THEN PoolCourse("purge")
       ELSE PurgeSteps \o <<"rm">>
  /\ TodoFor("remove") =
       IF ~instance.known THEN PoolCourse("nothing")
       ELSE IF power = "on" THEN PoolCourse("remove") ELSE <<"rm", "rm_all">>
  /\ TodoFor("clear_cache") = PoolCourse("upkeep") /\ TodoFor("deregister") = PoolCourse("upkeep")
  <1>1. /\ TodoFor("create") = CreateSteps
        /\ TodoFor("start") = Starts /\ TodoFor("cancel_drain") = Starts
        /\ TodoFor("stop") = OnlyIfOn(StopSteps) /\ TodoFor("drain") = OnlyIfOn(DrainSteps)
        /\ TodoFor("rebuild") = (IF instance.known THEN RebuildSteps ELSE <<"nothing">>)
        /\ TodoFor("remove") = (IF instance.known THEN RemoveSteps ELSE <<"nothing">>)
        /\ TodoFor("clear_cache") = UpkeepSteps /\ TodoFor("deregister") = UpkeepSteps
    BY DEF TodoFor, UPKEEP
  <1>2. /\ PoolCourse("start") = Starts /\ PoolCourse("stop") = StopSteps
        /\ PoolCourse("drain") = DrainSteps /\ PoolCourse("upkeep") = UpkeepSteps
        /\ PoolCourse("nothing") = <<"nothing">>
        /\ PoolCourse("later") = PrepareSteps \o LaterCreation
        /\ PoolCourse("resumed") = PrepareSteps \o ResumedCreation
        /\ PoolCourse("fresh") = PrepareSteps \o FreshCreation
        /\ PoolCourse("discard") = FinishSteps \o <<"shutdown">> \o <<"rm">>
        /\ PoolCourse("purge") = FinishSteps \o PurgeSteps \o <<"rm">>
        /\ PoolCourse("remove") = FinishSteps \o <<"shutdown">> \o <<"rm", "rm_all">>
    BY DEF PoolCourse, CREATIONS
  <1>4. CreateSteps = IF instance.initialized THEN PoolCourse("later")
                      ELSE IF instance.native THEN PoolCourse("resumed") ELSE PoolCourse("fresh")
    BY <1>2 DEF CreateSteps
  <1>5. RebuildSteps =
          IF instance.retained
          THEN IF power = "on" THEN PoolCourse("discard") ELSE <<"rm">>
          ELSE IF power = "on" THEN PoolCourse("purge")
          ELSE PurgeSteps \o <<"rm">>
    <2>1. RebuildSteps =
            (IF power = "on" THEN FinishSteps ELSE <<>>)
            \o (IF instance.retained THEN IF power = "on" THEN <<"shutdown">> ELSE <<>>
                ELSE PurgeSteps)
            \o <<"rm">>
      BY DEF RebuildSteps, PurgeSteps
    <2>2. <<>> \o PurgeSteps = PurgeSteps
      <3>1. PurgeSteps \in Seq(POOL_STEPS)
        BY DEF PurgeSteps, POOL_STEPS
      <3>. QED BY <3>1, ConcatEmptySeq
    <2>3. CASE power = "on"
      BY <1>2, <2>1, <2>3
    <2>4. CASE power # "on" /\ instance.retained
      BY <2>4 DEF RebuildSteps
    <2>5. CASE power # "on" /\ ~instance.retained
      BY <2>1, <2>2, <2>5
    <2>. QED BY <2>3, <2>4, <2>5
  <1>6. RemoveSteps = IF power = "on" THEN PoolCourse("remove") ELSE <<"rm", "rm_all">>
    <2>1. CASE power = "on"
      BY <1>2, <2>1 DEF RemoveSteps
    <2>2. CASE power # "on"
      BY <2>2 DEF RemoveSteps
    <2>. QED BY <2>1, <2>2
  <1>. QED BY <1>1, <1>2, <1>4, <1>5, <1>6 DEF OnlyIfOn

\* A guest that boots runs the job its plist and its enablement ask for.
LEMMA BootedGuest ==
  ASSUME PoolInv
  PROVE  /\ Booted \in GUEST_JOBS
         /\ Booted.plist = job.plist /\ Booted.enabled = job.enabled
         /\ Booted.loaded <=> job.plist /\ job.enabled
         /\ Booted.process = IF job.plist /\ job.enabled THEN "serving" ELSE "none"
  <1>1. CASE job.plist /\ job.enabled
    <2>1. (job.plist /\ job.enabled) = TRUE
      BY <1>1, Zenon
    <2>2. Booted = [job EXCEPT !.loaded = TRUE, !.process = "serving"]
      BY <2>1 DEF Booted
    <2>. QED BY <1>1, <2>2 DEF PoolInv, PoolTypes, GUEST_JOBS
  <1>2. CASE ~(job.plist /\ job.enabled)
    <2>1. (job.plist /\ job.enabled) = FALSE
      BY <1>2, Zenon
    <2>2. Booted = [job EXCEPT !.loaded = FALSE, !.process = "none"]
      BY <2>1 DEF Booted
    <2>. QED BY <1>2, <2>2 DEF PoolInv, PoolTypes, GUEST_JOBS
  <1>. QED BY <1>1, <1>2

LEMMA PoolAllocate ==
  ASSUME PoolInv, Allocate PROVE PoolInv' /\ PoolContractStep
  <1>. DEFINE possible == instance.retained => power = "absent"
  <1>1. StepDone("allocate", possible) /\ possible \in BOOLEAN
    BY DEF Allocate, PoolInv, PoolTypes, RECORDS, GUEST_JOBS, GUEST_TREES
  <1>2. PICK course, next : PoolDone(course, "allocate", possible, next)
    BY <1>1, PoolDoes
  <1>3. course \in CREATIONS /\ next = "overlay"
    BY <1>2 DEF PoolDone, Follows
  <1>4. /\ instance' \in RECORDS
        /\ instance'.known = TRUE
        /\ instance'.initialized = IF instance.known THEN instance.initialized ELSE FALSE
        /\ instance'.native = IF instance.known THEN instance.native ELSE FALSE
        /\ instance'.retained = IF instance.known /\ power # "absent" THEN instance.retained
                                ELSE FALSE
        /\ instance'.disabled = IF instance.known THEN instance.disabled ELSE TRUE
        /\ UNCHANGED <<power, overlay, job, guestTree>>
    <2>1. CASE ~instance.known
      <3>1. instance' = [NoRecord EXCEPT !.known = TRUE, !.disabled = TRUE]
        BY <2>1 DEF Allocate
      <3>. QED BY <2>1, <3>1 DEF Allocate, NoRecord, theHost, theGuest, RECORDS
    <2>2. CASE instance.known /\ power = "absent"
      <3>1. instance' = [instance EXCEPT !.retained = FALSE]
        BY <2>2 DEF Allocate
      <3>. QED BY <2>2, <3>1 DEF Allocate, theHost, theGuest, PoolInv, PoolTypes, RECORDS
    <2>3. CASE instance.known /\ power # "absent"
      BY <2>3 DEF Allocate, theHost, theGuest, PoolInv, PoolTypes, RECORDS
    <2>. QED BY <2>1, <2>2, <2>3
  <1>5. PoolTypes'
    BY <1>2, <1>4 DEF PoolDone, PoolInv, PoolTypes
  <1>6. GuestKept'
    BY <1>2, <1>3, <1>4 DEF PoolDone, PoolInv, PoolTypes, RECORDS, GUEST_JOBS, GUEST_TREES,
        GuestKept, Whole, Gone, PoolVerbs, PlaceKept, CreationAt, RemovalAt, CREATIONS
  <1>7. PoolPlace'
    <2>1. ASSUME possible, next # "over" PROVE PlaceKept(course, next)'
      BY <1>2, <1>3, <1>4, <2>1 DEF PoolDone, PoolInv, PoolTypes, RECORDS, GUEST_JOBS,
          GUEST_TREES, GuestKept, Whole, Gone, PoolVerbs, PlaceKept, CreationAt, RemovalAt,
          CREATIONS
    <2>. QED BY <1>2, <2>1 DEF PoolDone
  <1>8. PoolContractStep
    BY <1>2, <1>3, <1>4 DEF PoolDone, PoolInv, PoolTypes, RECORDS, GUEST_JOBS, GUEST_TREES,
        GuestKept, Whole, Gone, PoolVerbs, PlaceKept, CreationAt, RemovalAt, CREATIONS,
        PoolContractStep, PoolContract!contractVars, PoolContract!Work, PoolContract!Live,
        PoolContract!Brought, PoolContract!INTO, PoolContract!OUT, PoolContract!AWAY
  <1>. QED BY <1>5, <1>6, <1>7, <1>8 DEF PoolInv

LEMMA PoolMakeOverlay ==
  ASSUME PoolInv, MakeOverlay PROVE PoolInv' /\ PoolContractStep
  <1>. DEFINE possible == overlay \/ MayMakeDisk
  <1>1. StepDone("overlay", possible) /\ possible \in BOOLEAN
    BY DEF MakeOverlay, MayMakeDisk, PoolInv, PoolTypes, RECORDS, GUEST_JOBS, GUEST_TREES
  <1>2. PICK course, next : PoolDone(course, "overlay", possible, next)
    BY <1>1, PoolDoes
  <1>3. course \in CREATIONS /\ next = "container"
    BY <1>2 DEF PoolDone, Follows
  <1>4. /\ overlay' \in BOOLEAN
        /\ UNCHANGED <<power, instance, job, guestTree>>
    BY DEF MakeOverlay, MayMakeDisk, theHost, theGuest, PoolInv, PoolTypes, RECORDS, GUEST_JOBS,
        GUEST_TREES
  <1>5. PoolTypes'
    BY <1>2, <1>4 DEF PoolDone, PoolInv, PoolTypes
  <1>6. GuestKept'
    BY <1>2, <1>3, <1>4 DEF PoolDone, PoolInv, PoolTypes, RECORDS, GUEST_JOBS, GUEST_TREES,
        GuestKept, Whole, Gone, PoolVerbs, PlaceKept, CreationAt, RemovalAt, CREATIONS
  <1>7. PoolPlace'
    <2>1. ASSUME possible, next # "over" PROVE PlaceKept(course, next)'
      BY <1>2, <1>3, <1>4, <2>1 DEF PoolDone, PoolInv, PoolTypes, RECORDS, GUEST_JOBS,
          GUEST_TREES, GuestKept, Whole, Gone, PoolVerbs, PlaceKept, CreationAt, RemovalAt,
          CREATIONS
    <2>. QED BY <1>2, <2>1 DEF PoolDone
  <1>8. PoolContractStep
    BY <1>2, <1>3, <1>4 DEF PoolDone, PoolInv, PoolTypes, RECORDS, GUEST_JOBS, GUEST_TREES,
        GuestKept, Whole, Gone, PoolVerbs, PlaceKept, CreationAt, RemovalAt, CREATIONS,
        PoolContractStep, PoolContract!contractVars, PoolContract!Work, PoolContract!Live,
        PoolContract!Brought, PoolContract!INTO, PoolContract!OUT, PoolContract!AWAY
  <1>. QED BY <1>5, <1>6, <1>7, <1>8 DEF PoolInv

LEMMA PoolMakeContainer ==
  ASSUME PoolInv, MakeContainer PROVE PoolInv' /\ PoolContractStep
  <1>1. StepDone("container", TRUE) /\ TRUE \in BOOLEAN
    BY DEF MakeContainer, PoolInv, PoolTypes, RECORDS, GUEST_JOBS, GUEST_TREES
  <1>2. PICK course, next : PoolDone(course, "container", TRUE, next)
    BY <1>1, PoolDoes
  <1>3. course \in CREATIONS /\ next = "boot"
    BY <1>2 DEF PoolDone, Follows
  <1>4. /\ power' = IF power = "absent" THEN "off" ELSE power
        /\ UNCHANGED <<overlay, instance, job, guestTree>>
    BY DEF MakeContainer, theHost, theGuest, PoolInv, PoolTypes, RECORDS, GUEST_JOBS, GUEST_TREES
  <1>5. PoolTypes'
    BY <1>2, <1>4 DEF PoolDone, PoolInv, PoolTypes
  <1>6. GuestKept'
    BY <1>2, <1>3, <1>4 DEF PoolDone, PoolInv, PoolTypes, RECORDS, GUEST_JOBS, GUEST_TREES,
        GuestKept, Whole, Gone, PoolVerbs, PlaceKept, CreationAt, RemovalAt, CREATIONS
  <1>7. PoolPlace'
    <2>1. ASSUME next # "over" PROVE PlaceKept(course, next)'
      BY <1>2, <1>3, <1>4, <2>1 DEF PoolDone, PoolInv, PoolTypes, RECORDS, GUEST_JOBS,
          GUEST_TREES, GuestKept, Whole, Gone, PoolVerbs, PlaceKept, CreationAt, RemovalAt,
          CREATIONS
    <2>. QED BY <1>2, <2>1 DEF PoolDone
  <1>8. PoolContractStep
    BY <1>2, <1>3, <1>4 DEF PoolDone, PoolInv, PoolTypes, RECORDS, GUEST_JOBS, GUEST_TREES,
        GuestKept, Whole, Gone, PoolVerbs, PlaceKept, CreationAt, RemovalAt, CREATIONS,
        PoolContractStep, PoolContract!contractVars, PoolContract!Work, PoolContract!Live,
        PoolContract!Brought, PoolContract!INTO, PoolContract!OUT, PoolContract!AWAY
  <1>. QED BY <1>5, <1>6, <1>7, <1>8 DEF PoolInv

LEMMA PoolBoot ==
  ASSUME PoolInv, Boot PROVE PoolInv' /\ PoolContractStep
  <1>. DEFINE possible == power # "absent"
  <1>1. StepDone("boot", possible) /\ possible \in BOOLEAN
    BY DEF Boot, PowerUp, PoolInv, PoolTypes, RECORDS, GUEST_JOBS, GUEST_TREES
  <1>2. PICK course, next : PoolDone(course, "boot", possible, next)
    BY <1>1, PoolDoes
  <1>3. \/ course = "fresh" /\ next = "disable_record"
        \/ course = "resumed" /\ next = "verify"
        \/ course = "later" /\ next = "unless_serving"
        \/ course = "start" /\ next = "may_start"
        \/ course = "stop" /\ next = "disable"
        \/ course = "drain" /\ next = "policy"
    BY <1>2 DEF PoolDone, Follows
  <1>4. /\ job' \in GUEST_JOBS
        /\ job' = IF possible /\ power = "off" THEN Booted ELSE job
        /\ power' = IF possible THEN "on" ELSE power
        /\ UNCHANGED <<overlay, instance, guestTree>>
    BY BootedGuest DEF Boot, PowerUp, theHost, theGuest, PoolInv, PoolTypes, RECORDS, GUEST_JOBS,
        GUEST_TREES
  <1>5. PoolTypes'
    BY <1>2, <1>4 DEF PoolDone, PoolInv, PoolTypes
  <1>6. GuestKept'
    BY <1>2, <1>3, <1>4, BootedGuest DEF PoolDone, PoolInv, PoolTypes, RECORDS, GUEST_JOBS,
        GUEST_TREES, GuestKept, Whole, Gone, PoolVerbs, PlaceKept, CreationAt, RemovalAt,
        CREATIONS
  <1>7. PoolPlace'
    <2>1. ASSUME possible, next # "over" PROVE PlaceKept(course, next)'
      BY <1>2, <1>3, <1>4, <2>1, BootedGuest DEF PoolDone, PoolInv, PoolTypes, RECORDS,
          GUEST_JOBS, GUEST_TREES, GuestKept, Whole, Gone, PoolVerbs, PlaceKept, CreationAt,
          RemovalAt, CREATIONS
    <2>. QED BY <1>2, <2>1 DEF PoolDone
  <1>8. PoolContractStep
    BY <1>2, <1>3, <1>4, BootedGuest DEF PoolDone, PoolInv, PoolTypes, RECORDS, GUEST_JOBS,
        GUEST_TREES, GuestKept, Whole, Gone, PoolVerbs, PlaceKept, CreationAt, RemovalAt,
        CREATIONS, PoolContractStep, PoolContract!contractVars, PoolContract!Work,
        PoolContract!Live, PoolContract!Brought, PoolContract!INTO, PoolContract!OUT,
        PoolContract!AWAY
  <1>. QED BY <1>5, <1>6, <1>7, <1>8 DEF PoolInv

LEMMA PoolBootForUpkeep ==
  ASSUME PoolInv, BootForUpkeep PROVE PoolInv' /\ PoolContractStep
  <1>. DEFINE possible == MayUpkeep
  <1>1. StepDone("upkeep_boot", possible) /\ possible \in BOOLEAN
    BY DEF BootForUpkeep, PowerUp, MayUpkeep, PoolInv, PoolTypes, RECORDS, GUEST_JOBS, GUEST_TREES
  <1>2. PICK course, next : PoolDone(course, "upkeep_boot", possible, next)
    BY <1>1, PoolDoes
  <1>3. \/ course = "purge" /\ next = "disable"
        \/ course = "upkeep" /\ next = "work"
    BY <1>2 DEF PoolDone, Follows
  <1>4. /\ job' \in GUEST_JOBS
        /\ job' = IF possible /\ power = "off" THEN Booted ELSE job
        /\ power' = IF possible THEN "on" ELSE power
        /\ UNCHANGED <<overlay, instance, guestTree>>
    BY BootedGuest DEF BootForUpkeep, PowerUp, MayUpkeep, theHost, theGuest, PoolInv, PoolTypes,
        RECORDS, GUEST_JOBS, GUEST_TREES
  <1>5. PoolTypes'
    BY <1>2, <1>4 DEF PoolDone, PoolInv, PoolTypes
  <1>6. GuestKept'
    BY <1>2, <1>3, <1>4, BootedGuest DEF PoolDone, PoolInv, PoolTypes, RECORDS, GUEST_JOBS,
        GUEST_TREES, GuestKept, Whole, Gone, PoolVerbs, PlaceKept, CreationAt, RemovalAt,
        CREATIONS, MayUpkeep
  <1>7. PoolPlace'
    <2>1. ASSUME possible, next # "over" PROVE PlaceKept(course, next)'
      BY <1>2, <1>3, <1>4, <2>1, BootedGuest DEF PoolDone, PoolInv, PoolTypes, RECORDS,
          GUEST_JOBS, GUEST_TREES, GuestKept, Whole, Gone, PoolVerbs, PlaceKept, CreationAt,
          RemovalAt, CREATIONS, MayUpkeep
    <2>. QED BY <1>2, <2>1 DEF PoolDone
  <1>8. PoolContractStep
    BY <1>2, <1>3, <1>4, BootedGuest DEF PoolDone, PoolInv, PoolTypes, RECORDS, GUEST_JOBS,
        GUEST_TREES, GuestKept, Whole, Gone, PoolVerbs, PlaceKept, CreationAt, RemovalAt,
        CREATIONS, MayUpkeep, PoolContractStep, PoolContract!contractVars, PoolContract!Work,
        PoolContract!Live, PoolContract!Brought, PoolContract!INTO, PoolContract!OUT,
        PoolContract!AWAY
  <1>. QED BY <1>5, <1>6, <1>7, <1>8 DEF PoolInv

LEMMA PoolShutdown ==
  ASSUME PoolInv, Shutdown("shutdown", TRUE) PROVE PoolInv' /\ PoolContractStep
  <1>. DEFINE possible == power = "off"
                          \/ /\ power = "on"
                             /\ instance.initialized \/ instance.native => job.process = "none"
  <1>1. StepDone("shutdown", possible) /\ possible \in BOOLEAN
    BY DEF Shutdown, PoolInv, PoolTypes, RECORDS, GUEST_JOBS, GUEST_TREES
  <1>2. PICK course, next : PoolDone(course, "shutdown", possible, next)
    BY <1>1, PoolDoes
  <1>3. \/ course = "stop" /\ next = "over"
        \/ course \in {"discard", "remove"} /\ next = "rm"
        \/ course = "purge" /\ next = "retain"
    BY <1>2 DEF PoolDone, Follows
  <1>4. /\ job' \in GUEST_JOBS
        /\ job'.plist = job.plist
        /\ job'.enabled = job.enabled
        /\ job'.loaded = IF possible /\ power = "on" THEN FALSE ELSE job.loaded
        /\ job'.process = IF possible /\ power = "on" THEN "none" ELSE job.process
        /\ power' = IF possible /\ power = "on" THEN "off" ELSE power
        /\ UNCHANGED <<overlay, instance, guestTree>>
    BY DEF Shutdown, theHost, theGuest, PoolInv, PoolTypes, RECORDS, GUEST_JOBS, GUEST_TREES
  <1>5. PoolTypes'
    BY <1>2, <1>4 DEF PoolDone, PoolInv, PoolTypes
  <1>6. GuestKept'
    BY <1>2, <1>3, <1>4 DEF PoolDone, PoolInv, PoolTypes, RECORDS, GUEST_JOBS, GUEST_TREES,
        GuestKept, Whole, Gone, PoolVerbs, PlaceKept, CreationAt, RemovalAt, CREATIONS
  <1>7. PoolPlace'
    <2>1. ASSUME possible, next # "over" PROVE PlaceKept(course, next)'
      BY <1>2, <1>3, <1>4, <2>1 DEF PoolDone, PoolInv, PoolTypes, RECORDS, GUEST_JOBS,
          GUEST_TREES, GuestKept, Whole, Gone, PoolVerbs, PlaceKept, CreationAt, RemovalAt,
          CREATIONS
    <2>. QED BY <1>2, <2>1 DEF PoolDone
  <1>8. PoolContractStep
    BY <1>2, <1>3, <1>4 DEF PoolDone, PoolInv, PoolTypes, RECORDS, GUEST_JOBS, GUEST_TREES,
        GuestKept, Whole, Gone, PoolVerbs, PlaceKept, CreationAt, RemovalAt, CREATIONS,
        PoolContractStep, PoolContract!contractVars, PoolContract!Work, PoolContract!Live,
        PoolContract!Brought, PoolContract!INTO, PoolContract!OUT, PoolContract!AWAY
  <1>. QED BY <1>5, <1>6, <1>7, <1>8 DEF PoolInv

LEMMA PoolShutdownIfItWasOff ==
  ASSUME PoolInv, Shutdown("shutdown_if_it_was_off", upkeep = "off")
  PROVE  PoolInv' /\ PoolContractStep
  <1>. DEFINE possible == power = "off" \/ upkeep # "off"
                          \/ /\ power = "on"
                             /\ instance.initialized \/ instance.native => job.process = "none"
  <1>1. StepDone("shutdown_if_it_was_off", possible) /\ possible \in BOOLEAN
    BY DEF Shutdown, PoolInv, PoolTypes, RECORDS, GUEST_JOBS, GUEST_TREES
  <1>2. PICK course, next : PoolDone(course, "shutdown_if_it_was_off", possible, next)
    BY <1>1, PoolDoes
  <1>3. course = "upkeep" /\ next = "over"
    BY <1>2 DEF PoolDone, Follows
  <1>4. /\ job' \in GUEST_JOBS
        /\ job'.plist = job.plist
        /\ job'.enabled = job.enabled
        /\ job'.loaded = IF possible /\ upkeep = "off" /\ power = "on" THEN FALSE ELSE job.loaded
        /\ job'.process = IF possible /\ upkeep = "off" /\ power = "on" THEN "none" ELSE job.process
        /\ power' = IF possible /\ upkeep = "off" /\ power = "on" THEN "off" ELSE power
        /\ UNCHANGED <<overlay, instance, guestTree>>
    BY DEF Shutdown, theHost, theGuest, PoolInv, PoolTypes, RECORDS, GUEST_JOBS, GUEST_TREES
  <1>5. PoolTypes'
    BY <1>2, <1>4 DEF PoolDone, PoolInv, PoolTypes
  <1>6. GuestKept'
    BY <1>2, <1>3, <1>4 DEF PoolDone, PoolInv, PoolTypes, RECORDS, GUEST_JOBS, GUEST_TREES,
        GuestKept, Whole, Gone, PoolVerbs, PlaceKept, CreationAt, RemovalAt, CREATIONS
  <1>7. PoolPlace'
    BY <1>2, <1>3 DEF PoolDone
  <1>8. PoolContractStep
    BY <1>2, <1>3, <1>4 DEF PoolDone, PoolInv, PoolTypes, RECORDS, GUEST_JOBS, GUEST_TREES,
        GuestKept, Whole, Gone, PoolVerbs, PlaceKept, CreationAt, RemovalAt, CREATIONS,
        PoolContractStep, PoolContract!contractVars, PoolContract!Work, PoolContract!Live,
        PoolContract!Brought, PoolContract!INTO, PoolContract!OUT, PoolContract!AWAY
  <1>. QED BY <1>5, <1>6, <1>7, <1>8 DEF PoolInv

LEMMA PoolRemoveContainer ==
  ASSUME PoolInv, RemoveContainer PROVE PoolInv' /\ PoolContractStep
  <1>. DEFINE possible == power # "on"
  <1>1. StepDone("rm", possible) /\ possible \in BOOLEAN
    BY DEF RemoveContainer, PoolInv, PoolTypes, RECORDS, GUEST_JOBS, GUEST_TREES
  <1>2. PICK course, next : PoolDone(course, "rm", possible, next)
    BY <1>1, PoolDoes
  <1>3. \/ course \in {"discard", "purge"} /\ next = "over"
        \/ course = "remove" /\ next = "rm_all"
    BY <1>2 DEF PoolDone, Follows
  <1>4. /\ power' = IF power = "on" THEN "on" ELSE "absent"
        /\ UNCHANGED <<overlay, instance, job, guestTree>>
    BY DEF RemoveContainer, theHost, theGuest, PoolInv, PoolTypes, RECORDS, GUEST_JOBS,
        GUEST_TREES
  <1>5. PoolTypes'
    BY <1>2, <1>4 DEF PoolDone, PoolInv, PoolTypes
  <1>6. GuestKept'
    BY <1>2, <1>3, <1>4 DEF PoolDone, PoolInv, PoolTypes, RECORDS, GUEST_JOBS, GUEST_TREES,
        GuestKept, Whole, Gone, PoolVerbs, PlaceKept, CreationAt, RemovalAt, CREATIONS
  <1>7. PoolPlace'
    <2>1. ASSUME possible, next # "over" PROVE PlaceKept(course, next)'
      BY <1>2, <1>3, <1>4, <2>1 DEF PoolDone, PoolInv, PoolTypes, RECORDS, GUEST_JOBS,
          GUEST_TREES, GuestKept, Whole, Gone, PoolVerbs, PlaceKept, CreationAt, RemovalAt,
          CREATIONS
    <2>. QED BY <1>2, <2>1 DEF PoolDone
  <1>8. PoolContractStep
    BY <1>2, <1>3, <1>4 DEF PoolDone, PoolInv, PoolTypes, RECORDS, GUEST_JOBS, GUEST_TREES,
        GuestKept, Whole, Gone, PoolVerbs, PlaceKept, CreationAt, RemovalAt, CREATIONS,
        PoolContractStep, PoolContract!contractVars, PoolContract!Work, PoolContract!Live,
        PoolContract!Brought, PoolContract!INTO, PoolContract!OUT, PoolContract!AWAY
  <1>. QED BY <1>5, <1>6, <1>7, <1>8 DEF PoolInv

LEMMA PoolRemoveDirectory ==
  ASSUME PoolInv, RemoveDirectory PROVE PoolInv' /\ PoolContractStep
  <1>1. StepDone("rm_all", TRUE) /\ TRUE \in BOOLEAN
    BY DEF RemoveDirectory, NoGuestJob, NothingStored, NoRecord, PoolInv, PoolTypes, RECORDS,
        GUEST_JOBS, GUEST_TREES
  <1>2. PICK course, next : PoolDone(course, "rm_all", TRUE, next)
    BY <1>1, PoolDoes
  <1>3. course = "remove" /\ next = "over"
    BY <1>2 DEF PoolDone, Follows
  <1>4. /\ instance' \in RECORDS
        /\ ~instance'.known /\ ~instance'.initialized /\ ~instance'.native
        /\ ~instance'.retained /\ ~instance'.disabled
        /\ job' \in GUEST_JOBS
        /\ ~job'.plist /\ job'.enabled /\ ~job'.loaded
        /\ job'.process = "none"
        /\ guestTree' \in GUEST_TREES
        /\ guestTree'.software = "none"
        /\ ~guestTree'.template /\ ~guestTree'.keeps
        /\ overlay' = FALSE
        /\ power' = power
    <2>1. instance' = NoRecord /\ job' = NoGuestJob /\ guestTree' = NothingStored
      BY DEF RemoveDirectory
    <2>2. /\ NoRecord \in RECORDS /\ ~NoRecord.known /\ ~NoRecord.initialized
          /\ ~NoRecord.native /\ ~NoRecord.retained /\ ~NoRecord.disabled
      BY DEF NoRecord, RECORDS
    <2>3. /\ NoGuestJob \in GUEST_JOBS /\ ~NoGuestJob.plist /\ NoGuestJob.enabled
          /\ ~NoGuestJob.loaded /\ NoGuestJob.process = "none"
      BY DEF NoGuestJob, GUEST_JOBS
    <2>4. /\ NothingStored \in GUEST_TREES /\ NothingStored.software = "none"
          /\ ~NothingStored.template /\ ~NothingStored.keeps
      BY DEF NothingStored, GUEST_TREES
    <2>. QED BY <2>1, <2>2, <2>3, <2>4 DEF RemoveDirectory
  <1>5. PoolTypes'
    BY <1>2, <1>4 DEF PoolDone, PoolInv, PoolTypes
  <1>6. GuestKept'
    BY <1>2, <1>3, <1>4 DEF PoolDone, PoolInv, PoolTypes, RECORDS, GUEST_JOBS, GUEST_TREES,
        GuestKept, Whole, Gone, PoolVerbs, PlaceKept, CreationAt, RemovalAt, CREATIONS
  <1>7. PoolPlace'
    BY <1>2, <1>3 DEF PoolDone
  <1>8. PoolContractStep
    BY <1>2, <1>3, <1>4 DEF PoolDone, PoolInv, PoolTypes, RECORDS, GUEST_JOBS, GUEST_TREES,
        GuestKept, Whole, Gone, PoolVerbs, PlaceKept, CreationAt, RemovalAt, CREATIONS,
        PoolContractStep, PoolContract!contractVars, PoolContract!Work, PoolContract!Live,
        PoolContract!Brought, PoolContract!INTO, PoolContract!OUT, PoolContract!AWAY
  <1>. QED BY <1>5, <1>6, <1>7, <1>8 DEF PoolInv

LEMMA PoolRemoveSomeOfIt ==
  ASSUME PoolInv, RemoveSomeOfIt PROVE PoolInv' /\ PoolContractStep
  <1>. DEFINE possible == FALSE
  <1>1. StepDone("rm_all", possible) /\ possible \in BOOLEAN
    BY DEF RemoveSomeOfIt, NoGuestJob, NothingStored, PoolInv, PoolTypes, RECORDS, GUEST_JOBS,
        GUEST_TREES
  <1>2. PICK course, next : PoolDone(course, "rm_all", possible, next)
    BY <1>1, PoolDoes
  <1>3. course = "remove" /\ next = "over"
    BY <1>2 DEF PoolDone, Follows
  <1>4. /\ job' \in GUEST_JOBS
        /\ ~job'.plist /\ job'.enabled /\ ~job'.loaded
        /\ job'.process = "none"
        /\ guestTree' \in GUEST_TREES
        /\ guestTree'.software = "none"
        /\ ~guestTree'.template /\ ~guestTree'.keeps
        /\ overlay' = FALSE
        /\ UNCHANGED <<power, instance>>
    BY DEF RemoveSomeOfIt, NoGuestJob, NothingStored, theHost, theGuest, PoolInv, PoolTypes,
        RECORDS, GUEST_JOBS, GUEST_TREES
  <1>5. PoolTypes'
    BY <1>2, <1>4 DEF PoolDone, PoolInv, PoolTypes
  <1>6. GuestKept'
    BY <1>2, <1>3, <1>4 DEF PoolDone, PoolInv, PoolTypes, RECORDS, GUEST_JOBS, GUEST_TREES,
        GuestKept, Whole, Gone, PoolVerbs, PlaceKept, CreationAt, RemovalAt, CREATIONS
  <1>7. PoolPlace'
    BY <1>2, <1>3 DEF PoolDone
  <1>8. PoolContractStep
    BY <1>2, <1>3, <1>4 DEF PoolDone, PoolInv, PoolTypes, RECORDS, GUEST_JOBS, GUEST_TREES,
        GuestKept, Whole, Gone, PoolVerbs, PlaceKept, CreationAt, RemovalAt, CREATIONS,
        PoolContractStep, PoolContract!contractVars, PoolContract!Work, PoolContract!Live,
        PoolContract!Brought, PoolContract!INTO, PoolContract!OUT, PoolContract!AWAY
  <1>. QED BY <1>5, <1>6, <1>7, <1>8 DEF PoolInv

LEMMA PoolDisableRecord ==
  ASSUME PoolInv, DisableRecord PROVE PoolInv' /\ PoolContractStep
  <1>1. StepDone("disable_record", TRUE) /\ TRUE \in BOOLEAN
    BY DEF DisableRecord, OnRecord, PoolInv, PoolTypes, RECORDS, GUEST_JOBS, GUEST_TREES
  <1>2. PICK course, next : PoolDone(course, "disable_record", TRUE, next)
    BY <1>1, PoolDoes
  <1>3. \/ course = "fresh" /\ next = "not_loaded"
        \/ course \in {"stop", "discard", "remove"} /\ next = "shutdown"
        \/ course = "drain" /\ next = "over"
        \/ course = "purge" /\ next = "upkeep_boot"
    BY <1>2 DEF PoolDone, Follows
  <1>4. /\ instance' \in RECORDS
        /\ instance'.known = instance.known
        /\ instance'.initialized = instance.initialized
        /\ instance'.native = instance.native
        /\ instance'.retained = instance.retained
        /\ instance'.disabled = TRUE
        /\ UNCHANGED <<power, overlay, job, guestTree>>
    BY DEF DisableRecord, OnRecord, theHost, theGuest, PoolInv, PoolTypes, RECORDS, GUEST_JOBS,
        GUEST_TREES
  <1>5. PoolTypes'
    BY <1>2, <1>4 DEF PoolDone, PoolInv, PoolTypes
  <1>6. GuestKept'
    BY <1>2, <1>3, <1>4 DEF PoolDone, PoolInv, PoolTypes, RECORDS, GUEST_JOBS, GUEST_TREES,
        GuestKept, Whole, Gone, PoolVerbs, PlaceKept, CreationAt, RemovalAt, CREATIONS
  <1>7. PoolPlace'
    <2>1. ASSUME next # "over" PROVE PlaceKept(course, next)'
      BY <1>2, <1>3, <1>4, <2>1 DEF PoolDone, PoolInv, PoolTypes, RECORDS, GUEST_JOBS,
          GUEST_TREES, GuestKept, Whole, Gone, PoolVerbs, PlaceKept, CreationAt, RemovalAt,
          CREATIONS
    <2>. QED BY <1>2, <2>1 DEF PoolDone
  <1>8. PoolContractStep
    BY <1>2, <1>3, <1>4 DEF PoolDone, PoolInv, PoolTypes, RECORDS, GUEST_JOBS, GUEST_TREES,
        GuestKept, Whole, Gone, PoolVerbs, PlaceKept, CreationAt, RemovalAt, CREATIONS,
        PoolContractStep, PoolContract!contractVars, PoolContract!Work, PoolContract!Live,
        PoolContract!Brought, PoolContract!INTO, PoolContract!OUT, PoolContract!AWAY
  <1>. QED BY <1>5, <1>6, <1>7, <1>8 DEF PoolInv

LEMMA PoolMayStart ==
  ASSUME PoolInv, MayStart PROVE PoolInv' /\ PoolContractStep
  <1>1. StepDone("may_start", TRUE) /\ TRUE \in BOOLEAN
    BY DEF MayStart, OnRecord, PoolInv, PoolTypes, RECORDS, GUEST_JOBS, GUEST_TREES
  <1>2. PICK course, next : PoolDone(course, "may_start", TRUE, next)
    BY <1>1, PoolDoes
  <1>3. \/ course \in {"fresh", "resumed", "start"} /\ next = "enable"
        \/ course = "later" /\ next = "storage"
    BY <1>2 DEF PoolDone, Follows
  <1>4. /\ instance' \in RECORDS
        /\ instance'.known = instance.known
        /\ instance'.initialized = instance.initialized
        /\ instance'.native = instance.native
        /\ instance'.retained = instance.retained
        /\ instance'.disabled = FALSE
        /\ UNCHANGED <<power, overlay, job, guestTree>>
    BY DEF MayStart, OnRecord, theHost, theGuest, PoolInv, PoolTypes, RECORDS, GUEST_JOBS,
        GUEST_TREES
  <1>5. PoolTypes'
    BY <1>2, <1>4 DEF PoolDone, PoolInv, PoolTypes
  <1>6. GuestKept'
    BY <1>2, <1>3, <1>4 DEF PoolDone, PoolInv, PoolTypes, RECORDS, GUEST_JOBS, GUEST_TREES,
        GuestKept, Whole, Gone, PoolVerbs, PlaceKept, CreationAt, RemovalAt, CREATIONS
  <1>7. PoolPlace'
    <2>1. ASSUME next # "over" PROVE PlaceKept(course, next)'
      BY <1>2, <1>3, <1>4, <2>1 DEF PoolDone, PoolInv, PoolTypes, RECORDS, GUEST_JOBS,
          GUEST_TREES, GuestKept, Whole, Gone, PoolVerbs, PlaceKept, CreationAt, RemovalAt,
          CREATIONS
    <2>. QED BY <1>2, <2>1 DEF PoolDone
  <1>8. PoolContractStep
    BY <1>2, <1>3, <1>4 DEF PoolDone, PoolInv, PoolTypes, RECORDS, GUEST_JOBS, GUEST_TREES,
        GuestKept, Whole, Gone, PoolVerbs, PlaceKept, CreationAt, RemovalAt, CREATIONS,
        PoolContractStep, PoolContract!contractVars, PoolContract!Work, PoolContract!Live,
        PoolContract!Brought, PoolContract!INTO, PoolContract!OUT, PoolContract!AWAY
  <1>. QED BY <1>5, <1>6, <1>7, <1>8 DEF PoolInv

LEMMA PoolInitialized ==
  ASSUME PoolInv, Initialized PROVE PoolInv' /\ PoolContractStep
  <1>1. StepDone("initialized", TRUE) /\ TRUE \in BOOLEAN
    BY DEF Initialized, OnRecord, PoolInv, PoolTypes, RECORDS, GUEST_JOBS, GUEST_TREES
  <1>2. PICK course, next : PoolDone(course, "initialized", TRUE, next)
    BY <1>1, PoolDoes
  <1>3. course \in CREATIONS /\ next = "over"
    BY <1>2 DEF PoolDone, Follows
  <1>4. /\ instance' \in RECORDS
        /\ instance'.known = instance.known
        /\ instance'.initialized = TRUE
        /\ instance'.native = instance.native
        /\ instance'.retained = instance.retained
        /\ instance'.disabled = instance.disabled
        /\ UNCHANGED <<power, overlay, job, guestTree>>
    BY DEF Initialized, OnRecord, theHost, theGuest, PoolInv, PoolTypes, RECORDS, GUEST_JOBS,
        GUEST_TREES
  <1>5. PoolTypes'
    BY <1>2, <1>4 DEF PoolDone, PoolInv, PoolTypes
  <1>6. GuestKept'
    BY <1>2, <1>3, <1>4 DEF PoolDone, PoolInv, PoolTypes, RECORDS, GUEST_JOBS, GUEST_TREES,
        GuestKept, Whole, Gone, PoolVerbs, PlaceKept, CreationAt, RemovalAt, CREATIONS
  <1>7. PoolPlace'
    BY <1>2, <1>3 DEF PoolDone
  <1>8. PoolContractStep
    BY <1>2, <1>3, <1>4 DEF PoolDone, PoolInv, PoolTypes, RECORDS, GUEST_JOBS, GUEST_TREES,
        GuestKept, Whole, Gone, PoolVerbs, PlaceKept, CreationAt, RemovalAt, CREATIONS,
        PoolContractStep, PoolContract!contractVars, PoolContract!Work, PoolContract!Live,
        PoolContract!Brought, PoolContract!INTO, PoolContract!OUT, PoolContract!AWAY
  <1>. QED BY <1>5, <1>6, <1>7, <1>8 DEF PoolInv

LEMMA PoolForget ==
  ASSUME PoolInv, Forget PROVE PoolInv' /\ PoolContractStep
  <1>1. StepDone("forget", TRUE) /\ TRUE \in BOOLEAN
    BY DEF Forget, OnRecord, PoolInv, PoolTypes, RECORDS, GUEST_JOBS, GUEST_TREES
  <1>2. PICK course, next : PoolDone(course, "forget", TRUE, next)
    BY <1>1, PoolDoes
  <1>3. course = "purge" /\ next = "shutdown"
    BY <1>2 DEF PoolDone, Follows
  <1>4. /\ instance' \in RECORDS
        /\ instance'.known = instance.known
        /\ instance'.initialized = FALSE
        /\ instance'.native = FALSE
        /\ instance'.retained = instance.retained
        /\ instance'.disabled = TRUE
        /\ UNCHANGED <<power, overlay, job, guestTree>>
    BY DEF Forget, OnRecord, theHost, theGuest, PoolInv, PoolTypes, RECORDS, GUEST_JOBS,
        GUEST_TREES
  <1>5. PoolTypes'
    BY <1>2, <1>4 DEF PoolDone, PoolInv, PoolTypes
  <1>6. GuestKept'
    BY <1>2, <1>3, <1>4 DEF PoolDone, PoolInv, PoolTypes, RECORDS, GUEST_JOBS, GUEST_TREES,
        GuestKept, Whole, Gone, PoolVerbs, PlaceKept, CreationAt, RemovalAt, CREATIONS
  <1>7. PoolPlace'
    <2>1. ASSUME next # "over" PROVE PlaceKept(course, next)'
      BY <1>2, <1>3, <1>4, <2>1 DEF PoolDone, PoolInv, PoolTypes, RECORDS, GUEST_JOBS,
          GUEST_TREES, GuestKept, Whole, Gone, PoolVerbs, PlaceKept, CreationAt, RemovalAt,
          CREATIONS
    <2>. QED BY <1>2, <2>1 DEF PoolDone
  <1>8. PoolContractStep
    BY <1>2, <1>3, <1>4 DEF PoolDone, PoolInv, PoolTypes, RECORDS, GUEST_JOBS, GUEST_TREES,
        GuestKept, Whole, Gone, PoolVerbs, PlaceKept, CreationAt, RemovalAt, CREATIONS,
        PoolContractStep, PoolContract!contractVars, PoolContract!Work, PoolContract!Live,
        PoolContract!Brought, PoolContract!INTO, PoolContract!OUT, PoolContract!AWAY
  <1>. QED BY <1>5, <1>6, <1>7, <1>8 DEF PoolInv

LEMMA PoolRetain ==
  ASSUME PoolInv, Retain PROVE PoolInv' /\ PoolContractStep
  <1>1. StepDone("retain", TRUE) /\ TRUE \in BOOLEAN
    BY DEF Retain, OnRecord, PoolInv, PoolTypes, RECORDS, GUEST_JOBS, GUEST_TREES
  <1>2. PICK course, next : PoolDone(course, "retain", TRUE, next)
    BY <1>1, PoolDoes
  <1>3. course = "purge" /\ next = "rm"
    BY <1>2 DEF PoolDone, Follows
  <1>4. /\ instance' \in RECORDS
        /\ instance'.known = instance.known
        /\ instance'.initialized = instance.initialized
        /\ instance'.native = instance.native
        /\ instance'.retained = TRUE
        /\ instance'.disabled = instance.disabled
        /\ UNCHANGED <<power, overlay, job, guestTree>>
    BY DEF Retain, OnRecord, theHost, theGuest, PoolInv, PoolTypes, RECORDS, GUEST_JOBS,
        GUEST_TREES
  <1>5. PoolTypes'
    BY <1>2, <1>4 DEF PoolDone, PoolInv, PoolTypes
  <1>6. GuestKept'
    BY <1>2, <1>3, <1>4 DEF PoolDone, PoolInv, PoolTypes, RECORDS, GUEST_JOBS, GUEST_TREES,
        GuestKept, Whole, Gone, PoolVerbs, PlaceKept, CreationAt, RemovalAt, CREATIONS
  <1>7. PoolPlace'
    <2>1. ASSUME next # "over" PROVE PlaceKept(course, next)'
      BY <1>2, <1>3, <1>4, <2>1 DEF PoolDone, PoolInv, PoolTypes, RECORDS, GUEST_JOBS,
          GUEST_TREES, GuestKept, Whole, Gone, PoolVerbs, PlaceKept, CreationAt, RemovalAt,
          CREATIONS
    <2>. QED BY <1>2, <2>1 DEF PoolDone
  <1>8. PoolContractStep
    BY <1>2, <1>3, <1>4 DEF PoolDone, PoolInv, PoolTypes, RECORDS, GUEST_JOBS, GUEST_TREES,
        GuestKept, Whole, Gone, PoolVerbs, PlaceKept, CreationAt, RemovalAt, CREATIONS,
        PoolContractStep, PoolContract!contractVars, PoolContract!Work, PoolContract!Live,
        PoolContract!Brought, PoolContract!INTO, PoolContract!OUT, PoolContract!AWAY
  <1>. QED BY <1>5, <1>6, <1>7, <1>8 DEF PoolInv

LEMMA PoolDoesNothing ==
  ASSUME PoolInv, Nothing PROVE PoolInv' /\ PoolContractStep
  <1>1. StepDone("nothing", TRUE) /\ TRUE \in BOOLEAN
    BY DEF Nothing, OnRecord, PoolInv, PoolTypes, RECORDS, GUEST_JOBS, GUEST_TREES
  <1>2. PICK course, next : PoolDone(course, "nothing", TRUE, next)
    BY <1>1, PoolDoes
  <1>3. course = "nothing" /\ next = "over"
    BY <1>2 DEF PoolDone, Follows
  <1>4. /\ UNCHANGED <<power, overlay, job, guestTree, instance>>
    BY DEF Nothing, OnRecord, theHost, theGuest, PoolInv, PoolTypes, RECORDS, GUEST_JOBS,
        GUEST_TREES
  <1>5. PoolTypes'
    BY <1>2, <1>4 DEF PoolDone, PoolInv, PoolTypes
  <1>6. GuestKept'
    BY <1>2, <1>3, <1>4 DEF PoolDone, PoolInv, PoolTypes, RECORDS, GUEST_JOBS, GUEST_TREES,
        GuestKept, Whole, Gone, PoolVerbs, PlaceKept, CreationAt, RemovalAt, CREATIONS
  <1>7. PoolPlace'
    BY <1>2, <1>3 DEF PoolDone
  <1>8. PoolContractStep
    BY <1>2, <1>3, <1>4 DEF PoolDone, PoolInv, PoolTypes, RECORDS, GUEST_JOBS, GUEST_TREES,
        GuestKept, Whole, Gone, PoolVerbs, PlaceKept, CreationAt, RemovalAt, CREATIONS,
        PoolContractStep, PoolContract!contractVars, PoolContract!Work, PoolContract!Live,
        PoolContract!Brought, PoolContract!INTO, PoolContract!OUT, PoolContract!AWAY
  <1>. QED BY <1>5, <1>6, <1>7, <1>8 DEF PoolInv

LEMMA PoolNotLoaded ==
  ASSUME PoolInv, Check("not_loaded", ~job.loaded) PROVE PoolInv' /\ PoolContractStep
  <1>. DEFINE possible == power = "on" /\ ~job.loaded
  <1>1. StepDone("not_loaded", possible) /\ possible \in BOOLEAN
    BY DEF Check, InGuest, PoolInv, PoolTypes, RECORDS, GUEST_JOBS, GUEST_TREES
  <1>2. PICK course, next : PoolDone(course, "not_loaded", possible, next)
    BY <1>1, PoolDoes
  <1>3. course = "fresh" /\ next = "storage"
    BY <1>2 DEF PoolDone, Follows
  <1>4. /\ UNCHANGED <<power, overlay, job, guestTree, instance>>
    BY DEF Check, InGuest, theHost, theGuest, PoolInv, PoolTypes, RECORDS, GUEST_JOBS, GUEST_TREES
  <1>5. PoolTypes'
    BY <1>2, <1>4 DEF PoolDone, PoolInv, PoolTypes
  <1>6. GuestKept'
    BY <1>2, <1>3, <1>4 DEF PoolDone, PoolInv, PoolTypes, RECORDS, GUEST_JOBS, GUEST_TREES,
        GuestKept, Whole, Gone, PoolVerbs, PlaceKept, CreationAt, RemovalAt, CREATIONS
  <1>7. PoolPlace'
    <2>1. ASSUME possible, next # "over" PROVE PlaceKept(course, next)'
      BY <1>2, <1>3, <1>4, <2>1 DEF PoolDone, PoolInv, PoolTypes, RECORDS, GUEST_JOBS,
          GUEST_TREES, GuestKept, Whole, Gone, PoolVerbs, PlaceKept, CreationAt, RemovalAt,
          CREATIONS
    <2>. QED BY <1>2, <2>1 DEF PoolDone
  <1>8. PoolContractStep
    BY <1>2, <1>3, <1>4 DEF PoolDone, PoolInv, PoolTypes, RECORDS, GUEST_JOBS, GUEST_TREES,
        GuestKept, Whole, Gone, PoolVerbs, PlaceKept, CreationAt, RemovalAt, CREATIONS,
        PoolContractStep, PoolContract!contractVars, PoolContract!Work, PoolContract!Live,
        PoolContract!Brought, PoolContract!INTO, PoolContract!OUT, PoolContract!AWAY
  <1>. QED BY <1>5, <1>6, <1>7, <1>8 DEF PoolInv

LEMMA PoolNotServing ==
  ASSUME PoolInv, Check("not_serving", job.process = "none") PROVE PoolInv' /\ PoolContractStep
  <1>. DEFINE possible == power = "on" /\ job.process = "none"
  <1>1. StepDone("not_serving", possible) /\ possible \in BOOLEAN
    BY DEF Check, InGuest, PoolInv, PoolTypes, RECORDS, GUEST_JOBS, GUEST_TREES
  <1>2. PICK course, next : PoolDone(course, "not_serving", possible, next)
    BY <1>1, PoolDoes
  <1>3. course \in {"discard", "purge", "remove"} /\ next = "disable"
    BY <1>2 DEF PoolDone, Follows
  <1>4. /\ UNCHANGED <<power, overlay, job, guestTree, instance>>
    BY DEF Check, InGuest, theHost, theGuest, PoolInv, PoolTypes, RECORDS, GUEST_JOBS, GUEST_TREES
  <1>5. PoolTypes'
    BY <1>2, <1>4 DEF PoolDone, PoolInv, PoolTypes
  <1>6. GuestKept'
    BY <1>2, <1>3, <1>4 DEF PoolDone, PoolInv, PoolTypes, RECORDS, GUEST_JOBS, GUEST_TREES,
        GuestKept, Whole, Gone, PoolVerbs, PlaceKept, CreationAt, RemovalAt, CREATIONS
  <1>7. PoolPlace'
    <2>1. ASSUME possible, next # "over" PROVE PlaceKept(course, next)'
      BY <1>2, <1>3, <1>4, <2>1 DEF PoolDone, PoolInv, PoolTypes, RECORDS, GUEST_JOBS,
          GUEST_TREES, GuestKept, Whole, Gone, PoolVerbs, PlaceKept, CreationAt, RemovalAt,
          CREATIONS
    <2>. QED BY <1>2, <2>1 DEF PoolDone
  <1>8. PoolContractStep
    BY <1>2, <1>3, <1>4 DEF PoolDone, PoolInv, PoolTypes, RECORDS, GUEST_JOBS, GUEST_TREES,
        GuestKept, Whole, Gone, PoolVerbs, PlaceKept, CreationAt, RemovalAt, CREATIONS,
        PoolContractStep, PoolContract!contractVars, PoolContract!Work, PoolContract!Live,
        PoolContract!Brought, PoolContract!INTO, PoolContract!OUT, PoolContract!AWAY
  <1>. QED BY <1>5, <1>6, <1>7, <1>8 DEF PoolInv

LEMMA PoolPolicy ==
  ASSUME PoolInv, Check("policy", job.plist) PROVE PoolInv' /\ PoolContractStep
  <1>. DEFINE possible == power = "on" /\ job.plist
  <1>1. StepDone("policy", possible) /\ possible \in BOOLEAN
    BY DEF Check, InGuest, PoolInv, PoolTypes, RECORDS, GUEST_JOBS, GUEST_TREES
  <1>2. PICK course, next : PoolDone(course, "policy", possible, next)
    BY <1>1, PoolDoes
  <1>3. course = "drain" /\ next = "disable"
    BY <1>2 DEF PoolDone, Follows
  <1>4. /\ UNCHANGED <<power, overlay, job, guestTree, instance>>
    BY DEF Check, InGuest, theHost, theGuest, PoolInv, PoolTypes, RECORDS, GUEST_JOBS, GUEST_TREES
  <1>5. PoolTypes'
    BY <1>2, <1>4 DEF PoolDone, PoolInv, PoolTypes
  <1>6. GuestKept'
    BY <1>2, <1>3, <1>4 DEF PoolDone, PoolInv, PoolTypes, RECORDS, GUEST_JOBS, GUEST_TREES,
        GuestKept, Whole, Gone, PoolVerbs, PlaceKept, CreationAt, RemovalAt, CREATIONS
  <1>7. PoolPlace'
    <2>1. ASSUME possible, next # "over" PROVE PlaceKept(course, next)'
      BY <1>2, <1>3, <1>4, <2>1 DEF PoolDone, PoolInv, PoolTypes, RECORDS, GUEST_JOBS,
          GUEST_TREES, GuestKept, Whole, Gone, PoolVerbs, PlaceKept, CreationAt, RemovalAt,
          CREATIONS
    <2>. QED BY <1>2, <2>1 DEF PoolDone
  <1>8. PoolContractStep
    BY <1>2, <1>3, <1>4 DEF PoolDone, PoolInv, PoolTypes, RECORDS, GUEST_JOBS, GUEST_TREES,
        GuestKept, Whole, Gone, PoolVerbs, PlaceKept, CreationAt, RemovalAt, CREATIONS,
        PoolContractStep, PoolContract!contractVars, PoolContract!Work, PoolContract!Live,
        PoolContract!Brought, PoolContract!INTO, PoolContract!OUT, PoolContract!AWAY
  <1>. QED BY <1>5, <1>6, <1>7, <1>8 DEF PoolInv

LEMMA PoolVerify ==
  ASSUME PoolInv, Check("verify", guestTree.software = "whole") PROVE PoolInv' /\ PoolContractStep
  <1>. DEFINE possible == power = "on" /\ guestTree.software = "whole"
  <1>1. StepDone("verify", possible) /\ possible \in BOOLEAN
    BY DEF Check, InGuest, PoolInv, PoolTypes, RECORDS, GUEST_JOBS, GUEST_TREES
  <1>2. PICK course, next : PoolDone(course, "verify", possible, next)
    BY <1>1, PoolDoes
  <1>3. course = "resumed" /\ next = "may_start"
    BY <1>2 DEF PoolDone, Follows
  <1>4. /\ UNCHANGED <<power, overlay, job, guestTree, instance>>
    BY DEF Check, InGuest, theHost, theGuest, PoolInv, PoolTypes, RECORDS, GUEST_JOBS, GUEST_TREES
  <1>5. PoolTypes'
    BY <1>2, <1>4 DEF PoolDone, PoolInv, PoolTypes
  <1>6. GuestKept'
    BY <1>2, <1>3, <1>4 DEF PoolDone, PoolInv, PoolTypes, RECORDS, GUEST_JOBS, GUEST_TREES,
        GuestKept, Whole, Gone, PoolVerbs, PlaceKept, CreationAt, RemovalAt, CREATIONS
  <1>7. PoolPlace'
    <2>1. ASSUME possible, next # "over" PROVE PlaceKept(course, next)'
      BY <1>2, <1>3, <1>4, <2>1 DEF PoolDone, PoolInv, PoolTypes, RECORDS, GUEST_JOBS,
          GUEST_TREES, GuestKept, Whole, Gone, PoolVerbs, PlaceKept, CreationAt, RemovalAt,
          CREATIONS
    <2>. QED BY <1>2, <2>1 DEF PoolDone
  <1>8. PoolContractStep
    BY <1>2, <1>3, <1>4 DEF PoolDone, PoolInv, PoolTypes, RECORDS, GUEST_JOBS, GUEST_TREES,
        GuestKept, Whole, Gone, PoolVerbs, PlaceKept, CreationAt, RemovalAt, CREATIONS,
        PoolContractStep, PoolContract!contractVars, PoolContract!Work, PoolContract!Live,
        PoolContract!Brought, PoolContract!INTO, PoolContract!OUT, PoolContract!AWAY
  <1>. QED BY <1>5, <1>6, <1>7, <1>8 DEF PoolInv

LEMMA PoolWorked ==
  ASSUME PoolInv, Check("work", TRUE) PROVE PoolInv' /\ PoolContractStep
  <1>. DEFINE possible == power = "on" /\ TRUE
  <1>1. StepDone("work", possible) /\ possible \in BOOLEAN
    BY DEF Check, InGuest, PoolInv, PoolTypes, RECORDS, GUEST_JOBS, GUEST_TREES
  <1>2. PICK course, next : PoolDone(course, "work", possible, next)
    BY <1>1, PoolDoes
  <1>3. course = "upkeep" /\ next = "shutdown_if_it_was_off"
    BY <1>2 DEF PoolDone, Follows
  <1>4. /\ UNCHANGED <<power, overlay, job, guestTree, instance>>
    BY DEF Check, InGuest, theHost, theGuest, PoolInv, PoolTypes, RECORDS, GUEST_JOBS, GUEST_TREES
  <1>5. PoolTypes'
    BY <1>2, <1>4 DEF PoolDone, PoolInv, PoolTypes
  <1>6. GuestKept'
    BY <1>2, <1>3, <1>4 DEF PoolDone, PoolInv, PoolTypes, RECORDS, GUEST_JOBS, GUEST_TREES,
        GuestKept, Whole, Gone, PoolVerbs, PlaceKept, CreationAt, RemovalAt, CREATIONS
  <1>7. PoolPlace'
    <2>1. ASSUME possible, next # "over" PROVE PlaceKept(course, next)'
      BY <1>2, <1>3, <1>4, <2>1 DEF PoolDone, PoolInv, PoolTypes, RECORDS, GUEST_JOBS,
          GUEST_TREES, GuestKept, Whole, Gone, PoolVerbs, PlaceKept, CreationAt, RemovalAt,
          CREATIONS
    <2>. QED BY <1>2, <2>1 DEF PoolDone
  <1>8. PoolContractStep
    BY <1>2, <1>3, <1>4 DEF PoolDone, PoolInv, PoolTypes, RECORDS, GUEST_JOBS, GUEST_TREES,
        GuestKept, Whole, Gone, PoolVerbs, PlaceKept, CreationAt, RemovalAt, CREATIONS,
        PoolContractStep, PoolContract!contractVars, PoolContract!Work, PoolContract!Live,
        PoolContract!Brought, PoolContract!INTO, PoolContract!OUT, PoolContract!AWAY
  <1>. QED BY <1>5, <1>6, <1>7, <1>8 DEF PoolInv

LEMMA PoolInstallNative ==
  ASSUME PoolInv, InstallNative PROVE PoolInv' /\ PoolContractStep
  <1>. DEFINE possible == power = "on"
  <1>1. StepDone("native", possible) /\ possible \in BOOLEAN
    BY DEF InstallNative, PoolInv, PoolTypes, RECORDS, GUEST_JOBS, GUEST_TREES
  <1>2. PICK course, next : PoolDone(course, "native", possible, next)
    BY <1>1, PoolDoes
  <1>3. course = "fresh" /\ next = "may_start"
    BY <1>2 DEF PoolDone, Follows
  <1>4. /\ instance' \in RECORDS
        /\ instance'.known = instance.known
        /\ instance'.initialized = instance.initialized
        /\ instance'.native = IF possible THEN TRUE ELSE instance.native
        /\ instance'.retained = instance.retained
        /\ instance'.disabled = instance.disabled
        /\ UNCHANGED <<power, overlay, job, guestTree>>
    BY DEF InstallNative, theHost, theGuest, PoolInv, PoolTypes, RECORDS, GUEST_JOBS, GUEST_TREES
  <1>5. PoolTypes'
    BY <1>2, <1>4 DEF PoolDone, PoolInv, PoolTypes
  <1>6. GuestKept'
    BY <1>2, <1>3, <1>4 DEF PoolDone, PoolInv, PoolTypes, RECORDS, GUEST_JOBS, GUEST_TREES,
        GuestKept, Whole, Gone, PoolVerbs, PlaceKept, CreationAt, RemovalAt, CREATIONS
  <1>7. PoolPlace'
    <2>1. ASSUME possible, next # "over" PROVE PlaceKept(course, next)'
      BY <1>2, <1>3, <1>4, <2>1 DEF PoolDone, PoolInv, PoolTypes, RECORDS, GUEST_JOBS,
          GUEST_TREES, GuestKept, Whole, Gone, PoolVerbs, PlaceKept, CreationAt, RemovalAt,
          CREATIONS
    <2>. QED BY <1>2, <2>1 DEF PoolDone
  <1>8. PoolContractStep
    BY <1>2, <1>3, <1>4 DEF PoolDone, PoolInv, PoolTypes, RECORDS, GUEST_JOBS, GUEST_TREES,
        GuestKept, Whole, Gone, PoolVerbs, PlaceKept, CreationAt, RemovalAt, CREATIONS,
        PoolContractStep, PoolContract!contractVars, PoolContract!Work, PoolContract!Live,
        PoolContract!Brought, PoolContract!INTO, PoolContract!OUT, PoolContract!AWAY
  <1>. QED BY <1>5, <1>6, <1>7, <1>8 DEF PoolInv

LEMMA PoolStorage ==
  ASSUME PoolInv, Stores("storage", [guestTree EXCEPT !.keeps = TRUE,
                                                !.software = IF @ = "none" THEN "part" ELSE @])
  PROVE  PoolInv' /\ PoolContractStep
  <1>. DEFINE possible == power = "on" /\ TRUE
  <1>1. StepDone("storage", possible) /\ possible \in BOOLEAN
    BY DEF Stores, InGuest, PoolInv, PoolTypes, RECORDS, GUEST_JOBS, GUEST_TREES
  <1>2. PICK course, next : PoolDone(course, "storage", possible, next)
    BY <1>1, PoolDoes
  <1>3. course \in {"fresh", "later"} /\ next = "copy"
    BY <1>2 DEF PoolDone, Follows
  <1>4. /\ guestTree' \in GUEST_TREES
        /\ guestTree'.software = IF possible /\ guestTree.software = "none" THEN "part"
                                 ELSE guestTree.software
        /\ guestTree'.template = guestTree.template
        /\ guestTree'.keeps = IF possible THEN TRUE ELSE guestTree.keeps
        /\ UNCHANGED <<power, overlay, instance, job>>
    BY DEF Stores, InGuest, theHost, theGuest, PoolInv, PoolTypes, RECORDS, GUEST_JOBS,
        GUEST_TREES
  <1>5. PoolTypes'
    BY <1>2, <1>4 DEF PoolDone, PoolInv, PoolTypes
  <1>6. GuestKept'
    BY <1>2, <1>3, <1>4 DEF PoolDone, PoolInv, PoolTypes, RECORDS, GUEST_JOBS, GUEST_TREES,
        GuestKept, Whole, Gone, PoolVerbs, PlaceKept, CreationAt, RemovalAt, CREATIONS
  <1>7. PoolPlace'
    <2>1. ASSUME possible, next # "over" PROVE PlaceKept(course, next)'
      BY <1>2, <1>3, <1>4, <2>1 DEF PoolDone, PoolInv, PoolTypes, RECORDS, GUEST_JOBS,
          GUEST_TREES, GuestKept, Whole, Gone, PoolVerbs, PlaceKept, CreationAt, RemovalAt,
          CREATIONS
    <2>. QED BY <1>2, <2>1 DEF PoolDone
  <1>8. PoolContractStep
    BY <1>2, <1>3, <1>4 DEF PoolDone, PoolInv, PoolTypes, RECORDS, GUEST_JOBS, GUEST_TREES,
        GuestKept, Whole, Gone, PoolVerbs, PlaceKept, CreationAt, RemovalAt, CREATIONS,
        PoolContractStep, PoolContract!contractVars, PoolContract!Work, PoolContract!Live,
        PoolContract!Brought, PoolContract!INTO, PoolContract!OUT, PoolContract!AWAY
  <1>. QED BY <1>5, <1>6, <1>7, <1>8 DEF PoolInv

LEMMA PoolCopy ==
  ASSUME PoolInv, Stores("copy", [guestTree EXCEPT !.software = 
                                             IF guestTree.template THEN @ ELSE "whole"])
  PROVE  PoolInv' /\ PoolContractStep
  <1>. DEFINE possible == power = "on" /\ TRUE
  <1>1. StepDone("copy", possible) /\ possible \in BOOLEAN
    BY DEF Stores, InGuest, PoolInv, PoolTypes, RECORDS, GUEST_JOBS, GUEST_TREES
  <1>2. PICK course, next : PoolDone(course, "copy", possible, next)
    BY <1>1, PoolDoes
  <1>3. course \in {"fresh", "later"} /\ next = "template"
    BY <1>2 DEF PoolDone, Follows
  <1>4. /\ guestTree' \in GUEST_TREES
        /\ guestTree'.software = IF possible /\ ~guestTree.template THEN "whole"
                                 ELSE guestTree.software
        /\ guestTree'.template = guestTree.template
        /\ guestTree'.keeps = guestTree.keeps
        /\ UNCHANGED <<power, overlay, instance, job>>
    BY DEF Stores, InGuest, theHost, theGuest, PoolInv, PoolTypes, RECORDS, GUEST_JOBS,
        GUEST_TREES
  <1>5. PoolTypes'
    BY <1>2, <1>4 DEF PoolDone, PoolInv, PoolTypes
  <1>6. GuestKept'
    BY <1>2, <1>3, <1>4 DEF PoolDone, PoolInv, PoolTypes, RECORDS, GUEST_JOBS, GUEST_TREES,
        GuestKept, Whole, Gone, PoolVerbs, PlaceKept, CreationAt, RemovalAt, CREATIONS
  <1>7. PoolPlace'
    <2>1. ASSUME possible, next # "over" PROVE PlaceKept(course, next)'
      BY <1>2, <1>3, <1>4, <2>1 DEF PoolDone, PoolInv, PoolTypes, RECORDS, GUEST_JOBS,
          GUEST_TREES, GuestKept, Whole, Gone, PoolVerbs, PlaceKept, CreationAt, RemovalAt,
          CREATIONS
    <2>. QED BY <1>2, <2>1 DEF PoolDone
  <1>8. PoolContractStep
    BY <1>2, <1>3, <1>4 DEF PoolDone, PoolInv, PoolTypes, RECORDS, GUEST_JOBS, GUEST_TREES,
        GuestKept, Whole, Gone, PoolVerbs, PlaceKept, CreationAt, RemovalAt, CREATIONS,
        PoolContractStep, PoolContract!contractVars, PoolContract!Work, PoolContract!Live,
        PoolContract!Brought, PoolContract!INTO, PoolContract!OUT, PoolContract!AWAY
  <1>. QED BY <1>5, <1>6, <1>7, <1>8 DEF PoolInv

LEMMA PoolTemplate ==
  ASSUME PoolInv, Stores("template", [guestTree EXCEPT !.template = TRUE])
  PROVE  PoolInv' /\ PoolContractStep
  <1>. DEFINE possible == power = "on" /\ TRUE
  <1>1. StepDone("template", possible) /\ possible \in BOOLEAN
    BY DEF Stores, InGuest, PoolInv, PoolTypes, RECORDS, GUEST_JOBS, GUEST_TREES
  <1>2. PICK course, next : PoolDone(course, "template", possible, next)
    BY <1>1, PoolDoes
  <1>3. course \in {"fresh", "later"} /\ next = "plist"
    BY <1>2 DEF PoolDone, Follows
  <1>4. /\ guestTree' \in GUEST_TREES
        /\ guestTree'.software = guestTree.software
        /\ guestTree'.template = IF possible THEN TRUE ELSE guestTree.template
        /\ guestTree'.keeps = guestTree.keeps
        /\ UNCHANGED <<power, overlay, instance, job>>
    BY DEF Stores, InGuest, theHost, theGuest, PoolInv, PoolTypes, RECORDS, GUEST_JOBS,
        GUEST_TREES
  <1>5. PoolTypes'
    BY <1>2, <1>4 DEF PoolDone, PoolInv, PoolTypes
  <1>6. GuestKept'
    BY <1>2, <1>3, <1>4 DEF PoolDone, PoolInv, PoolTypes, RECORDS, GUEST_JOBS, GUEST_TREES,
        GuestKept, Whole, Gone, PoolVerbs, PlaceKept, CreationAt, RemovalAt, CREATIONS
  <1>7. PoolPlace'
    <2>1. ASSUME possible, next # "over" PROVE PlaceKept(course, next)'
      BY <1>2, <1>3, <1>4, <2>1 DEF PoolDone, PoolInv, PoolTypes, RECORDS, GUEST_JOBS,
          GUEST_TREES, GuestKept, Whole, Gone, PoolVerbs, PlaceKept, CreationAt, RemovalAt,
          CREATIONS
    <2>. QED BY <1>2, <2>1 DEF PoolDone
  <1>8. PoolContractStep
    BY <1>2, <1>3, <1>4 DEF PoolDone, PoolInv, PoolTypes, RECORDS, GUEST_JOBS, GUEST_TREES,
        GuestKept, Whole, Gone, PoolVerbs, PlaceKept, CreationAt, RemovalAt, CREATIONS,
        PoolContractStep, PoolContract!contractVars, PoolContract!Work, PoolContract!Live,
        PoolContract!Brought, PoolContract!INTO, PoolContract!OUT, PoolContract!AWAY
  <1>. QED BY <1>5, <1>6, <1>7, <1>8 DEF PoolInv

LEMMA PoolWritePlist ==
  ASSUME PoolInv, Launchd("plist", TRUE, [job EXCEPT !.plist = TRUE])
  PROVE  PoolInv' /\ PoolContractStep
  <1>. DEFINE possible == power = "on" /\ TRUE
  <1>1. StepDone("plist", possible) /\ possible \in BOOLEAN
    BY DEF Launchd, InGuest, PoolInv, PoolTypes, RECORDS, GUEST_JOBS, GUEST_TREES
  <1>2. PICK course, next : PoolDone(course, "plist", possible, next)
    BY <1>1, PoolDoes
  <1>3. \/ course = "fresh" /\ next = "disable"
        \/ course = "later" /\ next = "enable"
    BY <1>2 DEF PoolDone, Follows
  <1>4. /\ job' \in GUEST_JOBS
        /\ job'.plist = IF possible THEN TRUE ELSE job.plist
        /\ job'.enabled = job.enabled
        /\ job'.loaded = job.loaded
        /\ job'.process = job.process
        /\ UNCHANGED <<power, overlay, instance, guestTree>>
    BY DEF Launchd, InGuest, theHost, theGuest, PoolInv, PoolTypes, RECORDS, GUEST_JOBS,
        GUEST_TREES
  <1>5. PoolTypes'
    BY <1>2, <1>4 DEF PoolDone, PoolInv, PoolTypes
  <1>6. GuestKept'
    BY <1>2, <1>3, <1>4 DEF PoolDone, PoolInv, PoolTypes, RECORDS, GUEST_JOBS, GUEST_TREES,
        GuestKept, Whole, Gone, PoolVerbs, PlaceKept, CreationAt, RemovalAt, CREATIONS
  <1>7. PoolPlace'
    <2>1. ASSUME possible, next # "over" PROVE PlaceKept(course, next)'
      BY <1>2, <1>3, <1>4, <2>1 DEF PoolDone, PoolInv, PoolTypes, RECORDS, GUEST_JOBS,
          GUEST_TREES, GuestKept, Whole, Gone, PoolVerbs, PlaceKept, CreationAt, RemovalAt,
          CREATIONS
    <2>. QED BY <1>2, <2>1 DEF PoolDone
  <1>8. PoolContractStep
    BY <1>2, <1>3, <1>4 DEF PoolDone, PoolInv, PoolTypes, RECORDS, GUEST_JOBS, GUEST_TREES,
        GuestKept, Whole, Gone, PoolVerbs, PlaceKept, CreationAt, RemovalAt, CREATIONS,
        PoolContractStep, PoolContract!contractVars, PoolContract!Work, PoolContract!Live,
        PoolContract!Brought, PoolContract!INTO, PoolContract!OUT, PoolContract!AWAY
  <1>. QED BY <1>5, <1>6, <1>7, <1>8 DEF PoolInv

LEMMA PoolEnable ==
  ASSUME PoolInv, Launchd("enable", TRUE, [job EXCEPT !.enabled = TRUE])
  PROVE  PoolInv' /\ PoolContractStep
  <1>. DEFINE possible == power = "on" /\ TRUE
  <1>1. StepDone("enable", possible) /\ possible \in BOOLEAN
    BY DEF Launchd, InGuest, PoolInv, PoolTypes, RECORDS, GUEST_JOBS, GUEST_TREES
  <1>2. PICK course, next : PoolDone(course, "enable", possible, next)
    BY <1>1, PoolDoes
  <1>3. course \in CREATIONS \cup {"start"} /\ next = "load"
    BY <1>2 DEF PoolDone, Follows
  <1>4. /\ job' \in GUEST_JOBS
        /\ job'.plist = job.plist
        /\ job'.enabled = IF possible THEN TRUE ELSE job.enabled
        /\ job'.loaded = job.loaded
        /\ job'.process = job.process
        /\ UNCHANGED <<power, overlay, instance, guestTree>>
    BY DEF Launchd, InGuest, theHost, theGuest, PoolInv, PoolTypes, RECORDS, GUEST_JOBS,
        GUEST_TREES
  <1>5. PoolTypes'
    BY <1>2, <1>4 DEF PoolDone, PoolInv, PoolTypes
  <1>6. GuestKept'
    BY <1>2, <1>3, <1>4 DEF PoolDone, PoolInv, PoolTypes, RECORDS, GUEST_JOBS, GUEST_TREES,
        GuestKept, Whole, Gone, PoolVerbs, PlaceKept, CreationAt, RemovalAt, CREATIONS
  <1>7. PoolPlace'
    <2>1. ASSUME possible, next # "over" PROVE PlaceKept(course, next)'
      BY <1>2, <1>3, <1>4, <2>1 DEF PoolDone, PoolInv, PoolTypes, RECORDS, GUEST_JOBS,
          GUEST_TREES, GuestKept, Whole, Gone, PoolVerbs, PlaceKept, CreationAt, RemovalAt,
          CREATIONS
    <2>. QED BY <1>2, <2>1 DEF PoolDone
  <1>8. PoolContractStep
    BY <1>2, <1>3, <1>4 DEF PoolDone, PoolInv, PoolTypes, RECORDS, GUEST_JOBS, GUEST_TREES,
        GuestKept, Whole, Gone, PoolVerbs, PlaceKept, CreationAt, RemovalAt, CREATIONS,
        PoolContractStep, PoolContract!contractVars, PoolContract!Work, PoolContract!Live,
        PoolContract!Brought, PoolContract!INTO, PoolContract!OUT, PoolContract!AWAY
  <1>. QED BY <1>5, <1>6, <1>7, <1>8 DEF PoolInv

LEMMA PoolLoad ==
  ASSUME PoolInv,
         Launchd("load", MayLoad,
                 [job EXCEPT !.loaded = TRUE,
                             !.process = IF job.loaded THEN @ ELSE "serving"])
  PROVE  PoolInv' /\ PoolContractStep
  <1>. DEFINE possible == power = "on" /\ MayLoad
  <1>1. StepDone("load", possible) /\ possible \in BOOLEAN
    BY DEF Launchd, InGuest, MayLoad, PoolInv, PoolTypes, RECORDS, GUEST_JOBS, GUEST_TREES
  <1>2. PICK course, next : PoolDone(course, "load", possible, next)
    BY <1>1, PoolDoes
  <1>3. course \in CREATIONS \cup {"start"} /\ next = "kick"
    BY <1>2 DEF PoolDone, Follows
  <1>4. /\ job' \in GUEST_JOBS
        /\ job'.plist = job.plist
        /\ job'.enabled = job.enabled
        /\ job'.loaded = IF possible THEN TRUE ELSE job.loaded
        /\ job'.process = IF possible /\ ~job.loaded THEN "serving" ELSE job.process
        /\ UNCHANGED <<power, overlay, instance, guestTree>>
    BY DEF Launchd, InGuest, MayLoad, theHost, theGuest, PoolInv, PoolTypes, RECORDS, GUEST_JOBS,
        GUEST_TREES
  <1>5. PoolTypes'
    BY <1>2, <1>4 DEF PoolDone, PoolInv, PoolTypes
  <1>6. GuestKept'
    BY <1>2, <1>3, <1>4 DEF PoolDone, PoolInv, PoolTypes, RECORDS, GUEST_JOBS, GUEST_TREES,
        GuestKept, Whole, Gone, PoolVerbs, PlaceKept, CreationAt, RemovalAt, CREATIONS, MayLoad
  <1>7. PoolPlace'
    <2>1. ASSUME possible, next # "over" PROVE PlaceKept(course, next)'
      BY <1>2, <1>3, <1>4, <2>1 DEF PoolDone, PoolInv, PoolTypes, RECORDS, GUEST_JOBS,
          GUEST_TREES, GuestKept, Whole, Gone, PoolVerbs, PlaceKept, CreationAt, RemovalAt,
          CREATIONS, MayLoad
    <2>. QED BY <1>2, <2>1 DEF PoolDone
  <1>8. PoolContractStep
    BY <1>2, <1>3, <1>4 DEF PoolDone, PoolInv, PoolTypes, RECORDS, GUEST_JOBS, GUEST_TREES,
        GuestKept, Whole, Gone, PoolVerbs, PlaceKept, CreationAt, RemovalAt, CREATIONS, MayLoad,
        PoolContractStep, PoolContract!contractVars, PoolContract!Work, PoolContract!Live,
        PoolContract!Brought, PoolContract!INTO, PoolContract!OUT, PoolContract!AWAY
  <1>. QED BY <1>5, <1>6, <1>7, <1>8 DEF PoolInv

LEMMA PoolKick ==
  ASSUME PoolInv, Launchd("kick", job.loaded, [job EXCEPT !.process = 
                                                          IF @ = "none" THEN "serving" ELSE @])
  PROVE  PoolInv' /\ PoolContractStep
  <1>. DEFINE possible == power = "on" /\ job.loaded
  <1>1. StepDone("kick", possible) /\ possible \in BOOLEAN
    BY DEF Launchd, InGuest, PoolInv, PoolTypes, RECORDS, GUEST_JOBS, GUEST_TREES
  <1>2. PICK course, next : PoolDone(course, "kick", possible, next)
    BY <1>1, PoolDoes
  <1>3. \/ course \in CREATIONS /\ next = "initialized"
        \/ course = "start" /\ next = "over"
    BY <1>2 DEF PoolDone, Follows
  <1>4. /\ job' \in GUEST_JOBS
        /\ job'.plist = job.plist
        /\ job'.enabled = job.enabled
        /\ job'.loaded = job.loaded
        /\ job'.process = IF possible /\ job.process = "none" THEN "serving"
                          ELSE job.process
        /\ UNCHANGED <<power, overlay, instance, guestTree>>
    BY DEF Launchd, InGuest, theHost, theGuest, PoolInv, PoolTypes, RECORDS, GUEST_JOBS,
        GUEST_TREES
  <1>5. PoolTypes'
    BY <1>2, <1>4 DEF PoolDone, PoolInv, PoolTypes
  <1>6. GuestKept'
    BY <1>2, <1>3, <1>4 DEF PoolDone, PoolInv, PoolTypes, RECORDS, GUEST_JOBS, GUEST_TREES,
        GuestKept, Whole, Gone, PoolVerbs, PlaceKept, CreationAt, RemovalAt, CREATIONS
  <1>7. PoolPlace'
    <2>1. ASSUME possible, next # "over" PROVE PlaceKept(course, next)'
      BY <1>2, <1>3, <1>4, <2>1 DEF PoolDone, PoolInv, PoolTypes, RECORDS, GUEST_JOBS,
          GUEST_TREES, GuestKept, Whole, Gone, PoolVerbs, PlaceKept, CreationAt, RemovalAt,
          CREATIONS
    <2>. QED BY <1>2, <2>1 DEF PoolDone
  <1>8. PoolContractStep
    BY <1>2, <1>3, <1>4 DEF PoolDone, PoolInv, PoolTypes, RECORDS, GUEST_JOBS, GUEST_TREES,
        GuestKept, Whole, Gone, PoolVerbs, PlaceKept, CreationAt, RemovalAt, CREATIONS,
        PoolContractStep, PoolContract!contractVars, PoolContract!Work, PoolContract!Live,
        PoolContract!Brought, PoolContract!INTO, PoolContract!OUT, PoolContract!AWAY
  <1>. QED BY <1>5, <1>6, <1>7, <1>8 DEF PoolInv

LEMMA PoolDisable ==
  ASSUME PoolInv, Launchd("disable", TRUE, [job EXCEPT !.enabled = FALSE])
  PROVE  PoolInv' /\ PoolContractStep
  <1>. DEFINE possible == power = "on" /\ TRUE
  <1>1. StepDone("disable", possible) /\ possible \in BOOLEAN
    BY DEF Launchd, InGuest, PoolInv, PoolTypes, RECORDS, GUEST_JOBS, GUEST_TREES
  <1>2. PICK course, next : PoolDone(course, "disable", possible, next)
    BY <1>1, PoolDoes
  <1>3. \/ course = "fresh" /\ next = "native"
        \/ course \in {"stop", "discard", "purge", "remove"} /\ next = "bootout"
        \/ course = "drain" /\ next = "signal"
    BY <1>2 DEF PoolDone, Follows
  <1>4. /\ job' \in GUEST_JOBS
        /\ job'.plist = job.plist
        /\ job'.enabled = IF possible THEN FALSE ELSE job.enabled
        /\ job'.loaded = job.loaded
        /\ job'.process = job.process
        /\ UNCHANGED <<power, overlay, instance, guestTree>>
    BY DEF Launchd, InGuest, theHost, theGuest, PoolInv, PoolTypes, RECORDS, GUEST_JOBS,
        GUEST_TREES
  <1>5. PoolTypes'
    BY <1>2, <1>4 DEF PoolDone, PoolInv, PoolTypes
  <1>6. GuestKept'
    BY <1>2, <1>3, <1>4 DEF PoolDone, PoolInv, PoolTypes, RECORDS, GUEST_JOBS, GUEST_TREES,
        GuestKept, Whole, Gone, PoolVerbs, PlaceKept, CreationAt, RemovalAt, CREATIONS
  <1>7. PoolPlace'
    <2>1. ASSUME possible, next # "over" PROVE PlaceKept(course, next)'
      BY <1>2, <1>3, <1>4, <2>1 DEF PoolDone, PoolInv, PoolTypes, RECORDS, GUEST_JOBS,
          GUEST_TREES, GuestKept, Whole, Gone, PoolVerbs, PlaceKept, CreationAt, RemovalAt,
          CREATIONS
    <2>. QED BY <1>2, <2>1 DEF PoolDone
  <1>8. PoolContractStep
    BY <1>2, <1>3, <1>4 DEF PoolDone, PoolInv, PoolTypes, RECORDS, GUEST_JOBS, GUEST_TREES,
        GuestKept, Whole, Gone, PoolVerbs, PlaceKept, CreationAt, RemovalAt, CREATIONS,
        PoolContractStep, PoolContract!contractVars, PoolContract!Work, PoolContract!Live,
        PoolContract!Brought, PoolContract!INTO, PoolContract!OUT, PoolContract!AWAY
  <1>. QED BY <1>5, <1>6, <1>7, <1>8 DEF PoolInv

LEMMA PoolBootout ==
  ASSUME PoolInv, Launchd("bootout", TRUE, [job EXCEPT !.loaded = FALSE, !.process = "none"])
  PROVE  PoolInv' /\ PoolContractStep
  <1>. DEFINE possible == power = "on" /\ TRUE
  <1>1. StepDone("bootout", possible) /\ possible \in BOOLEAN
    BY DEF Launchd, InGuest, PoolInv, PoolTypes, RECORDS, GUEST_JOBS, GUEST_TREES
  <1>2. PICK course, next : PoolDone(course, "bootout", possible, next)
    BY <1>1, PoolDoes
  <1>3. \/ course \in {"stop", "discard", "purge", "remove"} /\ next = "disable_record"
        \/ course = "purge" /\ next = "rm_plist"
    BY <1>2 DEF PoolDone, Follows
  <1>4. /\ job' \in GUEST_JOBS
        /\ job'.plist = job.plist
        /\ job'.enabled = job.enabled
        /\ job'.loaded = IF possible THEN FALSE ELSE job.loaded
        /\ job'.process = IF possible THEN "none" ELSE job.process
        /\ UNCHANGED <<power, overlay, instance, guestTree>>
    BY DEF Launchd, InGuest, theHost, theGuest, PoolInv, PoolTypes, RECORDS, GUEST_JOBS,
        GUEST_TREES
  <1>5. PoolTypes'
    BY <1>2, <1>4 DEF PoolDone, PoolInv, PoolTypes
  <1>6. GuestKept'
    BY <1>2, <1>3, <1>4 DEF PoolDone, PoolInv, PoolTypes, RECORDS, GUEST_JOBS, GUEST_TREES,
        GuestKept, Whole, Gone, PoolVerbs, PlaceKept, CreationAt, RemovalAt, CREATIONS
  <1>7. PoolPlace'
    <2>1. ASSUME possible, next # "over" PROVE PlaceKept(course, next)'
      BY <1>2, <1>3, <1>4, <2>1 DEF PoolDone, PoolInv, PoolTypes, RECORDS, GUEST_JOBS,
          GUEST_TREES, GuestKept, Whole, Gone, PoolVerbs, PlaceKept, CreationAt, RemovalAt,
          CREATIONS
    <2>. QED BY <1>2, <2>1 DEF PoolDone
  <1>8. PoolContractStep
    BY <1>2, <1>3, <1>4 DEF PoolDone, PoolInv, PoolTypes, RECORDS, GUEST_JOBS, GUEST_TREES,
        GuestKept, Whole, Gone, PoolVerbs, PlaceKept, CreationAt, RemovalAt, CREATIONS,
        PoolContractStep, PoolContract!contractVars, PoolContract!Work, PoolContract!Live,
        PoolContract!Brought, PoolContract!INTO, PoolContract!OUT, PoolContract!AWAY
  <1>. QED BY <1>5, <1>6, <1>7, <1>8 DEF PoolInv

LEMMA PoolSignal ==
  ASSUME PoolInv, Launchd("signal", TRUE, [job EXCEPT !.process = 
                                                      IF @ = "serving" THEN "finishing" ELSE @])
  PROVE  PoolInv' /\ PoolContractStep
  <1>. DEFINE possible == power = "on" /\ TRUE
  <1>1. StepDone("signal", possible) /\ possible \in BOOLEAN
    BY DEF Launchd, InGuest, PoolInv, PoolTypes, RECORDS, GUEST_JOBS, GUEST_TREES
  <1>2. PICK course, next : PoolDone(course, "signal", possible, next)
    BY <1>1, PoolDoes
  <1>3. course = "drain" /\ next = "disable_record"
    BY <1>2 DEF PoolDone, Follows
  <1>4. /\ job' \in GUEST_JOBS
        /\ job'.plist = job.plist
        /\ job'.enabled = job.enabled
        /\ job'.loaded = job.loaded
        /\ job'.process = IF possible /\ job.process = "serving" THEN "finishing"
                          ELSE job.process
        /\ UNCHANGED <<power, overlay, instance, guestTree>>
    BY DEF Launchd, InGuest, theHost, theGuest, PoolInv, PoolTypes, RECORDS, GUEST_JOBS,
        GUEST_TREES
  <1>5. PoolTypes'
    BY <1>2, <1>4 DEF PoolDone, PoolInv, PoolTypes
  <1>6. GuestKept'
    BY <1>2, <1>3, <1>4 DEF PoolDone, PoolInv, PoolTypes, RECORDS, GUEST_JOBS, GUEST_TREES,
        GuestKept, Whole, Gone, PoolVerbs, PlaceKept, CreationAt, RemovalAt, CREATIONS
  <1>7. PoolPlace'
    <2>1. ASSUME possible, next # "over" PROVE PlaceKept(course, next)'
      BY <1>2, <1>3, <1>4, <2>1 DEF PoolDone, PoolInv, PoolTypes, RECORDS, GUEST_JOBS,
          GUEST_TREES, GuestKept, Whole, Gone, PoolVerbs, PlaceKept, CreationAt, RemovalAt,
          CREATIONS
    <2>. QED BY <1>2, <2>1 DEF PoolDone
  <1>8. PoolContractStep
    BY <1>2, <1>3, <1>4 DEF PoolDone, PoolInv, PoolTypes, RECORDS, GUEST_JOBS, GUEST_TREES,
        GuestKept, Whole, Gone, PoolVerbs, PlaceKept, CreationAt, RemovalAt, CREATIONS,
        PoolContractStep, PoolContract!contractVars, PoolContract!Work, PoolContract!Live,
        PoolContract!Brought, PoolContract!INTO, PoolContract!OUT, PoolContract!AWAY
  <1>. QED BY <1>5, <1>6, <1>7, <1>8 DEF PoolInv

LEMMA PoolRemovePlist ==
  ASSUME PoolInv, Launchd("rm_plist", TRUE, [job EXCEPT !.plist = FALSE])
  PROVE  PoolInv' /\ PoolContractStep
  <1>. DEFINE possible == power = "on" /\ TRUE
  <1>1. StepDone("rm_plist", possible) /\ possible \in BOOLEAN
    BY DEF Launchd, InGuest, PoolInv, PoolTypes, RECORDS, GUEST_JOBS, GUEST_TREES
  <1>2. PICK course, next : PoolDone(course, "rm_plist", possible, next)
    BY <1>1, PoolDoes
  <1>3. course = "purge" /\ next = "rmtree"
    BY <1>2 DEF PoolDone, Follows
  <1>4. /\ job' \in GUEST_JOBS
        /\ job'.plist = IF possible THEN FALSE ELSE job.plist
        /\ job'.enabled = job.enabled
        /\ job'.loaded = job.loaded
        /\ job'.process = job.process
        /\ UNCHANGED <<power, overlay, instance, guestTree>>
    BY DEF Launchd, InGuest, theHost, theGuest, PoolInv, PoolTypes, RECORDS, GUEST_JOBS,
        GUEST_TREES
  <1>5. PoolTypes'
    BY <1>2, <1>4 DEF PoolDone, PoolInv, PoolTypes
  <1>6. GuestKept'
    BY <1>2, <1>3, <1>4 DEF PoolDone, PoolInv, PoolTypes, RECORDS, GUEST_JOBS, GUEST_TREES,
        GuestKept, Whole, Gone, PoolVerbs, PlaceKept, CreationAt, RemovalAt, CREATIONS
  <1>7. PoolPlace'
    <2>1. ASSUME possible, next # "over" PROVE PlaceKept(course, next)'
      BY <1>2, <1>3, <1>4, <2>1 DEF PoolDone, PoolInv, PoolTypes, RECORDS, GUEST_JOBS,
          GUEST_TREES, GuestKept, Whole, Gone, PoolVerbs, PlaceKept, CreationAt, RemovalAt,
          CREATIONS
    <2>. QED BY <1>2, <2>1 DEF PoolDone
  <1>8. PoolContractStep
    BY <1>2, <1>3, <1>4 DEF PoolDone, PoolInv, PoolTypes, RECORDS, GUEST_JOBS, GUEST_TREES,
        GuestKept, Whole, Gone, PoolVerbs, PlaceKept, CreationAt, RemovalAt, CREATIONS,
        PoolContractStep, PoolContract!contractVars, PoolContract!Work, PoolContract!Live,
        PoolContract!Brought, PoolContract!INTO, PoolContract!OUT, PoolContract!AWAY
  <1>. QED BY <1>5, <1>6, <1>7, <1>8 DEF PoolInv

LEMMA PoolRemoveTree ==
  ASSUME PoolInv, Stores("rmtree", [NothingStored EXCEPT !.keeps = guestTree.keeps])
  PROVE  PoolInv' /\ PoolContractStep
  <1>. DEFINE possible == power = "on" /\ TRUE
  <1>1. StepDone("rmtree", possible) /\ possible \in BOOLEAN
    BY DEF Stores, InGuest, NothingStored, PoolInv, PoolTypes, RECORDS, GUEST_JOBS, GUEST_TREES
  <1>2. PICK course, next : PoolDone(course, "rmtree", possible, next)
    BY <1>1, PoolDoes
  <1>3. course = "purge" /\ next = "forget"
    BY <1>2 DEF PoolDone, Follows
  <1>4. /\ guestTree' \in GUEST_TREES
        /\ guestTree'.software = IF possible THEN "none" ELSE guestTree.software
        /\ guestTree'.template = IF possible THEN FALSE ELSE guestTree.template
        /\ guestTree'.keeps = guestTree.keeps
        /\ UNCHANGED <<power, overlay, instance, job>>
    BY DEF Stores, InGuest, NothingStored, theHost, theGuest, PoolInv, PoolTypes, RECORDS,
        GUEST_JOBS, GUEST_TREES
  <1>5. PoolTypes'
    BY <1>2, <1>4 DEF PoolDone, PoolInv, PoolTypes
  <1>6. GuestKept'
    BY <1>2, <1>3, <1>4 DEF PoolDone, PoolInv, PoolTypes, RECORDS, GUEST_JOBS, GUEST_TREES,
        GuestKept, Whole, Gone, PoolVerbs, PlaceKept, CreationAt, RemovalAt, CREATIONS
  <1>7. PoolPlace'
    <2>1. ASSUME possible, next # "over" PROVE PlaceKept(course, next)'
      BY <1>2, <1>3, <1>4, <2>1 DEF PoolDone, PoolInv, PoolTypes, RECORDS, GUEST_JOBS,
          GUEST_TREES, GuestKept, Whole, Gone, PoolVerbs, PlaceKept, CreationAt, RemovalAt,
          CREATIONS
    <2>. QED BY <1>2, <2>1 DEF PoolDone
  <1>8. PoolContractStep
    BY <1>2, <1>3, <1>4 DEF PoolDone, PoolInv, PoolTypes, RECORDS, GUEST_JOBS, GUEST_TREES,
        GuestKept, Whole, Gone, PoolVerbs, PlaceKept, CreationAt, RemovalAt, CREATIONS,
        PoolContractStep, PoolContract!contractVars, PoolContract!Work, PoolContract!Live,
        PoolContract!Brought, PoolContract!INTO, PoolContract!OUT, PoolContract!AWAY
  <1>. QED BY <1>5, <1>6, <1>7, <1>8 DEF PoolInv

\* A creation that finds the job running answers at once.
LEMMA PoolUnlessServing ==
  ASSUME PoolInv, UnlessServing PROVE PoolInv' /\ PoolContractStep
  <1>1. /\ poolSteps # <<>> /\ Head(poolSteps) = "unless_serving"
        /\ UNCHANGED <<power, overlay, instance, job, guestTree, upkeep>>
    BY DEF UnlessServing, theHost, theGuest
  <1>2. CASE job.process = "none"
    <2>1. poolSteps' = Tail(poolSteps) /\ poolCall' = poolCall
      BY <1>2 DEF UnlessServing
    <2>2. PICK course \in COURSES :
            OnCourse(poolSteps, course) /\ PlaceKept(course, "unless_serving")
      BY <1>1 DEF PoolInv, PoolPlace
    <2>. DEFINE route == PoolCourse(course)
    <2>3. PICK pos \in 1 .. Len(route) : poolSteps = SubSeq(route, pos, Len(route))
      BY <2>2 DEF OnCourse
    <2>4. /\ route \in Seq(POOL_STEPS) /\ route[pos] # "over"
          /\ pos = Len(route) => Follows(course, route[pos], "over")
          /\ pos # Len(route) => Follows(course, route[pos], route[pos + 1])
      BY PlacesFollow
    <2>5. route[pos] = "unless_serving" /\ Tail(poolSteps) = SubSeq(route, pos + 1, Len(route))
      BY <1>1, <2>3, <2>4, RestOfCourse
    <2>6. course = "later" /\ pos # Len(route) /\ route[pos + 1] = "may_start"
      BY <2>4, <2>5 DEF Follows
    <2>7. pos + 1 \in 1 .. Len(route)
      BY <2>4, <2>6, LenProperties
    <2>8. Head(poolSteps') = "may_start" /\ OnCourse(poolSteps', course)
      BY <2>1, <2>4, <2>5, <2>6, <2>7, RestOfCourse DEF OnCourse
    <2>9. PlaceKept(course, "may_start")'
      BY <1>1, <1>2, <2>1, <2>2, <2>6 DEF PlaceKept, CreationAt, RemovalAt, CREATIONS, PoolVerbs
    <2>10. PoolPlace'
      BY <2>8, <2>9 DEF PoolPlace, OnCourse
    <2>11. PoolTypes' /\ GuestKept'
      BY <1>1, <2>1 DEF PoolInv, PoolTypes, GuestKept, Whole, Gone
    <2>. QED BY <1>1, <2>1, <2>10, <2>11 DEF PoolInv, PoolContractStep, PoolContract!contractVars
  <1>3. CASE job.process # "none"
    <2>1. poolSteps' = <<>> /\ poolCall' = [poolCall EXCEPT !.answered = TRUE]
      BY <1>3 DEF UnlessServing
    <2>2. PICK course \in COURSES :
            OnCourse(poolSteps, course) /\ PlaceKept(course, "unless_serving")
      BY <1>1 DEF PoolInv, PoolPlace
    <2>3. course = "later"
      <3>. DEFINE route == PoolCourse(course)
      <3>1. PICK pos \in 1 .. Len(route) : poolSteps = SubSeq(route, pos, Len(route))
        BY <2>2 DEF OnCourse
      <3>2. /\ route \in Seq(POOL_STEPS)
            /\ pos = Len(route) => Follows(course, route[pos], "over")
            /\ pos # Len(route) => Follows(course, route[pos], route[pos + 1])
        BY PlacesFollow
      <3>3. route[pos] = "unless_serving"
        BY <1>1, <3>1, <3>2, RestOfCourse
      <3>. QED BY <3>2, <3>3 DEF Follows
    <2>4. PoolTypes' /\ GuestKept' /\ PoolPlace'
      BY <1>1, <2>1 DEF PoolInv, PoolTypes, GuestKept, Whole, Gone, PoolPlace
    <2>5. PoolContractStep
      BY <1>1, <1>3, <2>1, <2>2, <2>3 DEF PoolInv, PoolTypes, GUEST_JOBS, GUEST_TREES, GuestKept,
          Whole, PoolVerbs, PlaceKept, CreationAt, CREATIONS, PoolContractStep,
          PoolContract!contractVars, PoolContract!Work, PoolContract!Brought, PoolContract!INTO,
          PoolContract!OUT, PoolContract!AWAY
    <2>. QED BY <2>4, <2>5 DEF PoolInv
  <1>. QED BY <1>2, <1>3

LEMMA PoolBegins == PoolInit => PoolInv /\ PoolContract!ContractInit
  <1>. SUFFICES ASSUME PoolInit PROVE PoolInv /\ PoolContract!ContractInit
    OBVIOUS
  <1>1. /\ NoRecord \in RECORDS /\ ~NoRecord.known /\ ~NoRecord.initialized
        /\ ~NoRecord.native /\ ~NoRecord.retained /\ ~NoRecord.disabled
    BY DEF NoRecord, RECORDS
  <1>2. /\ NoGuestJob \in GUEST_JOBS /\ ~NoGuestJob.plist /\ NoGuestJob.enabled
        /\ ~NoGuestJob.loaded /\ NoGuestJob.process = "none"
    BY DEF NoGuestJob, GUEST_JOBS
  <1>3. /\ NothingStored \in GUEST_TREES /\ NothingStored.software = "none"
        /\ ~NothingStored.template /\ ~NothingStored.keeps
    BY DEF NothingStored, GUEST_TREES
  <1>4. /\ poolCall \in [verb : UNIT_VERBS \cup {"none"}, answered : BOOLEAN]
        /\ poolCall.verb = "none" /\ ~poolCall.answered
    BY DEF PoolInit
  <1>5. PoolTypes
    BY <1>1, <1>2, <1>3, <1>4 DEF PoolInit, PoolTypes
  <1>6. GuestKept
    BY <1>1, <1>2, <1>3 DEF PoolInit, GuestKept, Whole, Gone
  <1>7. PoolPlace
    BY DEF PoolInit, PoolPlace
  <1>8. PoolContract!ContractInit
    BY <1>1, <1>2, <1>3, <1>4 DEF PoolInit, PoolContract!ContractInit
  <1>. QED BY <1>5, <1>6, <1>7, <1>8 DEF PoolInv

LEMMA PoolUnchanged ==
  ASSUME PoolInv, UNCHANGED poolVars PROVE PoolInv' /\ PoolContractStep
  BY DEF poolVars, PoolInv, PoolTypes, GuestKept, Whole, Gone, PoolPlace, OnCourse, PlaceKept,
      CreationAt, RemovalAt, PoolContractStep, PoolContract!contractVars

LEMMA PoolCallIsCut ==
  ASSUME PoolInv, PoolCallCut PROVE PoolInv' /\ PoolContractStep
  <1>1. /\ poolSteps' = <<>>
        /\ UNCHANGED <<power, instance, overlay, job, guestTree, poolCall, upkeep>>
    BY DEF PoolCallCut, theHost, theGuest
  <1>. QED BY <1>1 DEF PoolInv, PoolTypes, GuestKept, Whole, Gone, PoolPlace, PoolContractStep,
      PoolContract!contractVars

\* A removal of the tree that fails leaves part of it.
LEMMA PoolRemovesPart ==
  ASSUME PoolInv, InGuest("rmtree", FALSE), power = "on", guestTree.software # "none",
         guestTree' \in {[guestTree EXCEPT !.software = "part", !.template = t] :
                           t \in {guestTree.template, FALSE}},
         UNCHANGED job
  PROVE  PoolInv' /\ PoolContractStep
  <1>1. /\ StepDone("rmtree", FALSE) /\ FALSE \in BOOLEAN
        /\ UNCHANGED <<power, overlay, instance, job>>
    BY DEF InGuest, theHost
  <1>2. PICK course, next : PoolDone(course, "rmtree", FALSE, next)
    BY <1>1, PoolDoes
  <1>3. course = "purge" /\ next = "forget"
    BY <1>2 DEF PoolDone, Follows
  <1>4. /\ guestTree' \in GUEST_TREES /\ guestTree'.software = "part"
        /\ guestTree'.keeps = guestTree.keeps
    BY DEF PoolInv, PoolTypes, GUEST_TREES
  <1>5. PoolTypes'
    BY <1>1, <1>2, <1>4 DEF PoolDone, PoolInv, PoolTypes
  <1>6. ~job.plist /\ ~instance.retained /\ instance.known
    BY <1>2, <1>3 DEF PoolDone, PoolInv, GuestKept, Gone, PlaceKept, RemovalAt, CREATIONS
  <1>7. GuestKept'
    BY <1>1, <1>4, <1>6 DEF PoolInv, GuestKept, Whole, Gone
  <1>8. PoolPlace'
    BY <1>2 DEF PoolDone
  <1>9. PoolContractStep
    BY <1>1, <1>2, <1>3, <1>4, <1>6 DEF PoolDone, PoolInv, PoolTypes, GUEST_JOBS, GUEST_TREES,
        GuestKept, PoolVerbs, PlaceKept, CREATIONS, PoolContractStep, PoolContract!contractVars,
        PoolContract!Work, PoolContract!Brought, PoolContract!INTO, PoolContract!OUT,
        PoolContract!AWAY
  <1>. QED BY <1>5, <1>7, <1>8, <1>9 DEF PoolInv

\* What no call does: the listener exits, the guest restarts or goes down.
LEMMA PoolByItself ==
  ASSUME PoolInv, GuestJobExits \/ GuestRestarts \/ GuestGoesDown
  PROVE  PoolInv' /\ PoolContractStep
  <1>1. UNCHANGED <<instance, overlay, guestTree, poolCall, upkeep>>
    BY DEF GuestJobExits, GuestRestarts, GuestGoesDown, OfItself
  <1>2. CASE GuestJobExits
    <2>1. /\ job.process # "none" /\ UNCHANGED <<power, poolSteps>>
          /\ job' \in GUEST_JOBS /\ job'.process = "none"
          /\ job'.plist = job.plist /\ job'.enabled = job.enabled /\ job'.loaded = job.loaded
      BY <1>2 DEF GuestJobExits, PoolInv, PoolTypes, GUEST_JOBS
    <2>2. PoolTypes' /\ GuestKept'
      BY <1>1, <2>1 DEF PoolInv, PoolTypes, GuestKept, Whole, Gone
    <2>3. PoolPlace'
      <3>1. ASSUME NEW course, NEW step, PlaceKept(course, step)
            PROVE  PlaceKept(course, step)'
        BY <1>1, <2>1, <3>1 DEF PoolInv, GuestKept, PlaceKept, CreationAt, RemovalAt, Whole, Gone
      <3>. QED BY <2>1, <3>1 DEF PoolInv, PoolPlace, OnCourse
    <2>4. PoolContract!Live
      BY <1>1, <2>1 DEF PoolInv, PoolTypes, GuestKept, PoolContract!Live
    <2>. QED BY <2>2, <2>3, <2>4 DEF PoolInv, PoolContractStep
  <1>3. CASE GuestRestarts
    <2>1. power = "on" /\ job' = Booted /\ poolSteps' = <<>> /\ power' = power
      BY <1>3 DEF GuestRestarts
    <2>2. PoolTypes' /\ GuestKept' /\ PoolPlace'
      BY <1>1, <2>1, BootedGuest DEF PoolInv, PoolTypes, GuestKept, Whole, Gone, PoolPlace
    <2>3. PoolContract!Live \/ UNCHANGED PoolContract!contractVars
      BY <1>1, <2>1, BootedGuest DEF PoolInv, PoolTypes, GUEST_JOBS, GuestKept, PoolContract!Live,
          PoolContract!contractVars
    <2>. QED BY <2>2, <2>3 DEF PoolInv, PoolContractStep
  <1>4. CASE GuestGoesDown
    <2>1. /\ power = "on" /\ power' = "off" /\ poolSteps' = <<>>
          /\ job' \in GUEST_JOBS /\ job'.process = "none" /\ ~job'.loaded
          /\ job'.plist = job.plist /\ job'.enabled = job.enabled
      BY <1>4 DEF GuestGoesDown, PoolInv, PoolTypes, GUEST_JOBS
    <2>2. PoolTypes' /\ GuestKept' /\ PoolPlace'
      BY <1>1, <2>1 DEF PoolInv, PoolTypes, GuestKept, Whole, Gone, PoolPlace
    <2>3. PoolContract!Live
      BY <1>1, <2>1 DEF PoolInv, PoolTypes, GUEST_JOBS, GuestKept, PoolContract!Live
    <2>. QED BY <2>2, <2>3 DEF PoolInv, PoolContractStep
  <1>. QED BY <1>2, <1>3, <1>4

\* A call begins at the head of its course.
LEMMA PoolBeginsACall ==
  ASSUME PoolInv, NEW verb \in UNIT_VERBS \cup UPKEEP, BeginPoolCall(verb)
  PROVE  PoolInv' /\ PoolContractStep
  <1>1. /\ MayCall(verb) /\ poolSteps' = TodoFor(verb)
        /\ UNCHANGED <<power, instance, overlay, job, guestTree>>
        /\ upkeep' = IF verb \in UPKEEP THEN power ELSE "none"
        /\ poolCall' = IF verb \in UPKEEP THEN poolCall ELSE [verb |-> verb, answered |-> FALSE]
    BY DEF BeginPoolCall, theHost, theGuest
  <1>2. /\ poolCall' \in [verb : UNIT_VERBS \cup {"none"}, answered : BOOLEAN]
        /\ verb \notin UPKEEP => poolCall'.verb = verb /\ ~poolCall'.answered
        /\ verb \in UPKEEP => poolCall'.verb \in UNIT_VERBS \cup {"none"}
    BY <1>1 DEF PoolInv, PoolTypes, UPKEEP
  <1>3. PoolTypes' /\ GuestKept'
    BY <1>1, <1>2 DEF PoolInv, PoolTypes, GuestKept, Whole, Gone
  <1>4. PoolPlace'
    <2>1. CASE verb = "create"
      <3>1. PICK course \in CREATIONS :
              course = IF instance.initialized THEN "later"
                       ELSE IF instance.native THEN "resumed" ELSE "fresh"
        BY DEF CREATIONS
      <3>2. course \in COURSES /\ poolSteps' = PoolCourse(course)
        BY <1>1, <2>1, <3>1, TodoIsACourse DEF COURSES
      <3>3. OnCourse(poolSteps', course) /\ Head(poolSteps') = "allocate"
        BY <3>2, CoursesBegin, CourseHeads
      <3>4. PlaceKept(course, "allocate")'
        BY <1>1, <1>2, <2>1, <3>1 DEF MayCall, PoolInv, PoolTypes, GUEST_JOBS, GUEST_TREES,
            GuestKept, Whole, Gone, PlaceKept, CreationAt, RemovalAt, PoolVerbs, CREATIONS,
            UNIT_VERBS, UPKEEP
      <3>5. OnCourse(poolSteps, course)' /\ PlaceKept(course, Head(poolSteps))'
        BY <3>3, <3>4 DEF OnCourse, PlaceKept, CreationAt, RemovalAt
      <3>. QED BY <3>5, <3>2 DEF PoolPlace
    <2>2. CASE verb \in {"start", "cancel_drain"}
      <3>1. PICK course \in COURSES : course = "start"
        BY DEF COURSES
      <3>2. poolSteps' = PoolCourse("start")
        BY <1>1, <2>2, TodoIsACourse
      <3>3. OnCourse(poolSteps', course) /\ Head(poolSteps') = "boot"
        BY <3>1, <3>2, CoursesBegin, CourseHeads
      <3>4. PlaceKept(course, "boot")'
        BY <1>1, <1>2, <2>2, <3>1 DEF MayCall, PoolInv, PoolTypes, GUEST_JOBS, GUEST_TREES,
            GuestKept, Whole, Gone, PlaceKept, CreationAt, RemovalAt, PoolVerbs, CREATIONS,
            UNIT_VERBS, UPKEEP
      <3>5. OnCourse(poolSteps, course)' /\ PlaceKept(course, Head(poolSteps))'
        BY <3>3, <3>4 DEF OnCourse, PlaceKept, CreationAt, RemovalAt
      <3>. QED BY <3>5 DEF PoolPlace
    <2>3. CASE verb \in {"stop", "drain"}
      <3>1. CASE power = "off"
        <4>1. PICK course \in COURSES : course = "nothing"
          BY DEF COURSES
        <4>2. poolSteps' = PoolCourse("nothing")
          BY <1>1, <2>3, <3>1, TodoIsACourse
        <4>3. OnCourse(poolSteps', course) /\ Head(poolSteps') = "nothing"
          BY <4>1, <4>2, CoursesBegin, CourseHeads
        <4>4. PlaceKept(course, "nothing")'
          BY <1>1, <1>2, <2>3, <3>1, <4>1 DEF MayCall, PoolInv, PoolTypes, GUEST_JOBS, GUEST_TREES,
              GuestKept, Whole, Gone, PlaceKept, CreationAt, RemovalAt, PoolVerbs, CREATIONS,
              UNIT_VERBS, UPKEEP
        <4>5. OnCourse(poolSteps, course)' /\ PlaceKept(course, Head(poolSteps))'
          BY <4>3, <4>4 DEF OnCourse, PlaceKept, CreationAt, RemovalAt
        <4>. QED BY <4>5 DEF PoolPlace
      <3>2. CASE verb = "stop" /\ power # "off"
        <4>1. PICK course \in COURSES : course = "stop"
          BY DEF COURSES
        <4>2. poolSteps' = PoolCourse("stop")
          BY <1>1, <2>3, <3>2, TodoIsACourse
        <4>3. OnCourse(poolSteps', course) /\ Head(poolSteps') = "boot"
          BY <4>1, <4>2, CoursesBegin, CourseHeads
        <4>4. PlaceKept(course, "boot")'
          BY <1>1, <1>2, <2>3, <3>2, <4>1 DEF MayCall, PoolInv, PoolTypes, GUEST_JOBS, GUEST_TREES,
              GuestKept, Whole, Gone, PlaceKept, CreationAt, RemovalAt, PoolVerbs, CREATIONS,
              UNIT_VERBS, UPKEEP
        <4>5. OnCourse(poolSteps, course)' /\ PlaceKept(course, Head(poolSteps))'
          BY <4>3, <4>4 DEF OnCourse, PlaceKept, CreationAt, RemovalAt
        <4>. QED BY <4>5 DEF PoolPlace
      <3>3. CASE verb = "drain" /\ power # "off"
        <4>1. PICK course \in COURSES : course = "drain"
          BY DEF COURSES
        <4>2. poolSteps' = PoolCourse("drain")
          BY <1>1, <2>3, <3>3, TodoIsACourse
        <4>3. OnCourse(poolSteps', course) /\ Head(poolSteps') = "boot"
          BY <4>1, <4>2, CoursesBegin, CourseHeads
        <4>4. PlaceKept(course, "boot")'
          BY <1>1, <1>2, <2>3, <3>3, <4>1 DEF MayCall, PoolInv, PoolTypes, GUEST_JOBS, GUEST_TREES,
              GuestKept, Whole, Gone, PlaceKept, CreationAt, RemovalAt, PoolVerbs, CREATIONS,
              UNIT_VERBS, UPKEEP
        <4>5. OnCourse(poolSteps, course)' /\ PlaceKept(course, Head(poolSteps))'
          BY <4>3, <4>4 DEF OnCourse, PlaceKept, CreationAt, RemovalAt
        <4>. QED BY <4>5 DEF PoolPlace
      <3>. QED BY <2>3, <3>1, <3>2, <3>3
    <2>4. CASE verb = "rebuild"
      <3>1. CASE ~instance.known
        <4>1. PICK course \in COURSES : course = "nothing"
          BY DEF COURSES
        <4>2. poolSteps' = PoolCourse("nothing")
          BY <1>1, <2>4, <3>1, TodoIsACourse
        <4>3. OnCourse(poolSteps', course) /\ Head(poolSteps') = "nothing"
          BY <4>1, <4>2, CoursesBegin, CourseHeads
        <4>4. PlaceKept(course, "nothing")'
          BY <1>1, <1>2, <2>4, <3>1, <4>1 DEF MayCall, PoolInv, PoolTypes, GUEST_JOBS, GUEST_TREES,
              GuestKept, Whole, Gone, PlaceKept, CreationAt, RemovalAt, PoolVerbs, CREATIONS,
              UNIT_VERBS, UPKEEP
        <4>5. OnCourse(poolSteps, course)' /\ PlaceKept(course, Head(poolSteps))'
          BY <4>3, <4>4 DEF OnCourse, PlaceKept, CreationAt, RemovalAt
        <4>. QED BY <4>5 DEF PoolPlace
      <3>2. CASE instance.known /\ instance.retained /\ power = "on"
        <4>1. PICK course \in COURSES : course = "discard"
          BY DEF COURSES
        <4>2. poolSteps' = PoolCourse("discard")
          BY <1>1, <2>4, <3>2, TodoIsACourse
        <4>3. OnCourse(poolSteps', course) /\ Head(poolSteps') = "not_serving"
          BY <4>1, <4>2, CoursesBegin, CourseHeads
        <4>4. PlaceKept(course, "not_serving")'
          BY <1>1, <1>2, <2>4, <3>2, <4>1 DEF MayCall, PoolInv, PoolTypes, GUEST_JOBS, GUEST_TREES,
              GuestKept, Whole, Gone, PlaceKept, CreationAt, RemovalAt, PoolVerbs, CREATIONS,
              UNIT_VERBS, UPKEEP
        <4>5. OnCourse(poolSteps, course)' /\ PlaceKept(course, Head(poolSteps))'
          BY <4>3, <4>4 DEF OnCourse, PlaceKept, CreationAt, RemovalAt
        <4>. QED BY <4>5 DEF PoolPlace
      <3>3. CASE instance.known /\ instance.retained /\ power # "on"
        <4>1. PICK course \in COURSES : course = "discard"
          BY DEF COURSES
        <4>2. poolSteps' = <<"rm">>
          BY <1>1, <2>4, <3>3, TodoIsACourse
        <4>3. OnCourse(poolSteps', course) /\ Head(poolSteps') = "rm"
          BY <4>1, <4>2, CoursesBegin, CourseHeads
        <4>4. PlaceKept(course, "rm")'
          BY <1>1, <1>2, <2>4, <3>3, <4>1 DEF MayCall, PoolInv, PoolTypes, GUEST_JOBS, GUEST_TREES,
              GuestKept, Whole, Gone, PlaceKept, CreationAt, RemovalAt, PoolVerbs, CREATIONS,
              UNIT_VERBS, UPKEEP
        <4>5. OnCourse(poolSteps, course)' /\ PlaceKept(course, Head(poolSteps))'
          BY <4>3, <4>4 DEF OnCourse, PlaceKept, CreationAt, RemovalAt
        <4>. QED BY <4>5 DEF PoolPlace
      <3>4. CASE instance.known /\ ~instance.retained /\ power = "on"
        <4>1. PICK course \in COURSES : course = "purge"
          BY DEF COURSES
        <4>2. poolSteps' = PoolCourse("purge")
          BY <1>1, <2>4, <3>4, TodoIsACourse
        <4>3. OnCourse(poolSteps', course) /\ Head(poolSteps') = "not_serving"
          BY <4>1, <4>2, CoursesBegin, CourseHeads
        <4>4. PlaceKept(course, "not_serving")'
          BY <1>1, <1>2, <2>4, <3>4, <4>1 DEF MayCall, PoolInv, PoolTypes, GUEST_JOBS, GUEST_TREES,
              GuestKept, Whole, Gone, PlaceKept, CreationAt, RemovalAt, PoolVerbs, CREATIONS,
              UNIT_VERBS, UPKEEP
        <4>5. OnCourse(poolSteps, course)' /\ PlaceKept(course, Head(poolSteps))'
          BY <4>3, <4>4 DEF OnCourse, PlaceKept, CreationAt, RemovalAt
        <4>. QED BY <4>5 DEF PoolPlace
      <3>5. CASE instance.known /\ ~instance.retained /\ power # "on"
        <4>1. PICK course \in COURSES : course = "purge"
          BY DEF COURSES
        <4>2. poolSteps' = PurgeSteps \o <<"rm">>
          BY <1>1, <2>4, <3>5, TodoIsACourse
        <4>3. OnCourse(poolSteps', course) /\ Head(poolSteps') = "upkeep_boot"
          BY <4>1, <4>2, CoursesBegin, CourseHeads
        <4>4. PlaceKept(course, "upkeep_boot")'
          BY <1>1, <1>2, <2>4, <3>5, <4>1 DEF MayCall, PoolInv, PoolTypes, GUEST_JOBS, GUEST_TREES,
              GuestKept, Whole, Gone, PlaceKept, CreationAt, RemovalAt, PoolVerbs, CREATIONS,
              UNIT_VERBS, UPKEEP
        <4>5. OnCourse(poolSteps, course)' /\ PlaceKept(course, Head(poolSteps))'
          BY <4>3, <4>4 DEF OnCourse, PlaceKept, CreationAt, RemovalAt
        <4>. QED BY <4>5 DEF PoolPlace
      <3>. QED BY <3>1, <3>2, <3>3, <3>4, <3>5
    <2>5. CASE verb = "remove"
      <3>1. CASE ~instance.known
        <4>1. PICK course \in COURSES : course = "nothing"
          BY DEF COURSES
        <4>2. poolSteps' = PoolCourse("nothing")
          BY <1>1, <2>5, <3>1, TodoIsACourse
        <4>3. OnCourse(poolSteps', course) /\ Head(poolSteps') = "nothing"
          BY <4>1, <4>2, CoursesBegin, CourseHeads
        <4>4. PlaceKept(course, "nothing")'
          BY <1>1, <1>2, <2>5, <3>1, <4>1 DEF MayCall, PoolInv, PoolTypes, GUEST_JOBS, GUEST_TREES,
              GuestKept, Whole, Gone, PlaceKept, CreationAt, RemovalAt, PoolVerbs, CREATIONS,
              UNIT_VERBS, UPKEEP
        <4>5. OnCourse(poolSteps, course)' /\ PlaceKept(course, Head(poolSteps))'
          BY <4>3, <4>4 DEF OnCourse, PlaceKept, CreationAt, RemovalAt
        <4>. QED BY <4>5 DEF PoolPlace
      <3>2. CASE instance.known /\ power = "on"
        <4>1. PICK course \in COURSES : course = "remove"
          BY DEF COURSES
        <4>2. poolSteps' = PoolCourse("remove")
          BY <1>1, <2>5, <3>2, TodoIsACourse
        <4>3. OnCourse(poolSteps', course) /\ Head(poolSteps') = "not_serving"
          BY <4>1, <4>2, CoursesBegin, CourseHeads
        <4>4. PlaceKept(course, "not_serving")'
          BY <1>1, <1>2, <2>5, <3>2, <4>1 DEF MayCall, PoolInv, PoolTypes, GUEST_JOBS, GUEST_TREES,
              GuestKept, Whole, Gone, PlaceKept, CreationAt, RemovalAt, PoolVerbs, CREATIONS,
              UNIT_VERBS, UPKEEP
        <4>5. OnCourse(poolSteps, course)' /\ PlaceKept(course, Head(poolSteps))'
          BY <4>3, <4>4 DEF OnCourse, PlaceKept, CreationAt, RemovalAt
        <4>. QED BY <4>5 DEF PoolPlace
      <3>3. CASE instance.known /\ power # "on"
        <4>1. PICK course \in COURSES : course = "remove"
          BY DEF COURSES
        <4>2. poolSteps' = <<"rm", "rm_all">>
          BY <1>1, <2>5, <3>3, TodoIsACourse
        <4>3. OnCourse(poolSteps', course) /\ Head(poolSteps') = "rm"
          BY <4>1, <4>2, CoursesBegin, CourseHeads
        <4>4. PlaceKept(course, "rm")'
          BY <1>1, <1>2, <2>5, <3>3, <4>1 DEF MayCall, PoolInv, PoolTypes, GUEST_JOBS, GUEST_TREES,
              GuestKept, Whole, Gone, PlaceKept, CreationAt, RemovalAt, PoolVerbs, CREATIONS,
              UNIT_VERBS, UPKEEP
        <4>5. OnCourse(poolSteps, course)' /\ PlaceKept(course, Head(poolSteps))'
          BY <4>3, <4>4 DEF OnCourse, PlaceKept, CreationAt, RemovalAt
        <4>. QED BY <4>5 DEF PoolPlace
      <3>. QED BY <3>1, <3>2, <3>3
    <2>6. CASE verb \in UPKEEP
      <3>1. PICK course \in COURSES : course = "upkeep"
        BY DEF COURSES
      <3>2. poolSteps' = PoolCourse("upkeep")
        BY <1>1, <2>6, TodoIsACourse DEF UPKEEP
      <3>3. OnCourse(poolSteps', course) /\ Head(poolSteps') = "upkeep_boot"
        BY <3>1, <3>2, CoursesBegin, CourseHeads
      <3>4. PlaceKept(course, "upkeep_boot")'
        BY <1>1, <1>2, <2>6, <3>1 DEF MayCall, PoolInv, PoolTypes, GUEST_JOBS, GUEST_TREES,
            GuestKept, Whole, Gone, PlaceKept, CreationAt, RemovalAt, PoolVerbs, CREATIONS,
            UNIT_VERBS, UPKEEP
      <3>5. OnCourse(poolSteps, course)' /\ PlaceKept(course, Head(poolSteps))'
        BY <3>3, <3>4 DEF OnCourse, PlaceKept, CreationAt, RemovalAt
      <3>. QED BY <3>5 DEF PoolPlace
    <2>. QED BY <2>1, <2>2, <2>3, <2>4, <2>5, <2>6 DEF UNIT_VERBS
  <1>5. PoolContractStep
    <2>1. CASE verb \in UPKEEP
      BY <1>1, <2>1 DEF PoolContractStep, PoolContract!contractVars
    <2>2. CASE verb \notin UPKEEP
      BY <1>1, <1>2, <2>2 DEF UNIT_VERBS, PoolContractStep, PoolContract!BeginCall,
          PoolContract!UNIT_CALLS, PoolContract!INTO, PoolContract!OUT, PoolContract!AWAY
    <2>. QED BY <2>1, <2>2
  <1>. QED BY <1>3, <1>4, <1>5 DEF PoolInv

LEMMA PoolStepKeeps ==
  ASSUME PoolInv, RecordStep \/ GuestStep \/ Nothing PROVE PoolInv' /\ PoolContractStep
  <1>1. CASE RecordStep
    BY <1>1, PoolAllocate, PoolMakeOverlay, PoolMakeContainer, PoolBoot, PoolBootForUpkeep,
        PoolShutdown, PoolShutdownIfItWasOff, PoolRemoveContainer, PoolRemoveDirectory,
        PoolRemoveSomeOfIt, PoolDisableRecord, PoolMayStart, PoolInitialized, PoolForget, PoolRetain
        DEF RecordStep
  <1>2. CASE GuestStep
    <2>1. CASE RemoveGuestTree
      BY <2>1, PoolRemoveTree, PoolRemovesPart DEF RemoveGuestTree
    <2>2. CASE ~RemoveGuestTree
      BY <1>2, <2>2, PoolNotLoaded, PoolNotServing, PoolPolicy, PoolVerify, PoolWorked,
          PoolUnlessServing, PoolInstallNative, PoolStorage, PoolCopy, PoolTemplate, PoolWritePlist,
          PoolEnable, PoolLoad, PoolKick, PoolDisable, PoolBootout, PoolSignal, PoolRemovePlist
          DEF GuestStep
    <2>. QED BY <2>1, <2>2
  <1>3. CASE Nothing
    BY <1>3, PoolDoesNothing
  <1>. QED BY <1>1, <1>2, <1>3

LEMMA PoolKeepsItsInvariant ==
  PoolInv /\ [PoolNext]_poolVars => PoolInv' /\ PoolContractStep
  <1>. SUFFICES ASSUME PoolInv, [PoolNext]_poolVars PROVE PoolInv' /\ PoolContractStep
    OBVIOUS
  <1>. QED BY PoolUnchanged, PoolBeginsACall, PoolCallIsCut, PoolStepKeeps, PoolByItself
      DEF PoolNext, PoolStep

\* A guest of its own keeps the promises of a unit, though it may be off and has
\* to be booted to be asked anything, whatever step fails and whenever its host
\* or the agent goes down (macos_pool.py).
THEOREM PoolGuestKeepsTheContract == PoolSpec => PoolGuestIsAUnit
  <1>. QED BY PoolBegins, PoolKeepsItsInvariant, PTL DEF PoolSpec, PoolGuestIsAUnit,
      PoolContract!ContractSpec, PoolContractStep

\* No listener runs in a guest while its upkeep is at work, for any number of
\* calls and of calls cut off (macos_pool.py).
THEOREM NoListenerDuringUpkeep == PoolSpec => []UpkeepIsQuiet
  <1>1. PoolInv => UpkeepIsQuiet
    <2>. SUFFICES ASSUME PoolInv, poolSteps # <<>>, Head(poolSteps) = "work",
                         instance.initialized \/ instance.native
                  PROVE  job.process = "none"
      BY DEF UpkeepIsQuiet
    <2>. QED BY DEF PoolInv, PoolPlace, PlaceKept, GuestKept
  <1>. QED BY <1>1, PoolBegins, PoolKeepsItsInvariant, PTL DEF PoolSpec
-----------------------------------------------------------------------------

\* Both kinds of disk keep the data of a runner until it is removed: what the
\* workers' run checks for a few calls and cuts holds for any number.
THEOREM DisksKeepTheirData ==
  ImageSpec /\ VhdSpec => EveryDiskKeepsItsData
  BY ImageKeepsTheContract, VhdKeepsTheContract DEF EveryDiskKeepsItsData

\* Whatever a runner is made of, it keeps the promises of a unit: what the
\* workers' run checks for a few calls and cuts holds for any number.
THEOREM UnitsKeepTheirContract ==
  BoxSpec /\ WinSpec /\ MacSpec /\ PoolSpec => EveryUnitKeepsTheContract
  BY ContainerKeepsTheContract, ServiceKeepsTheContract, LaunchdJobKeepsTheContract,
     PoolGuestKeepsTheContract
  DEF EveryUnitKeepsTheContract
=============================================================================
