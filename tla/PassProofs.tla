------------------------------ MODULE PassProofs ------------------------------
(***************************************************************************)
(* Proofs about what happens around the passes of the controller: only one *)
(* is at work (PassLease), the runners of a fleet are taken out one at a   *)
(* time (RollingTurns), a request that is repeated is carried out once     *)
(* (LimitRequests implements RequestOutcomes), no worker is given more     *)
(* than it has (Placements), and an alarm is raised once (Alarms).         *)
(***************************************************************************)
EXTENDS PassLease, RollingTurns, LimitRequests, Placements, Alarms,
        FiniteSetTheorems, WellFoundedInduction, TLAPS

\* Two members of a set with one element at most are one.
LEMMA AtMostOne ==
  ASSUME NEW S, \A x, y \in S : x = y
  PROVE  Cardinality(S) <= 1
<1>1. CASE S = {}
  BY <1>1, FS_EmptySet, SMT
<1>2. CASE S # {}
  <2>1. PICK x \in S : TRUE
    BY <1>2
  <2>2. S = {x}
    BY <2>1
  <2>3. Cardinality(S) = 1
    BY <2>2, FS_Singleton
  <2> QED BY <2>3
<1> QED BY <1>1, <1>2

-----------------------------------------------------------------------------
(* The pass.                                                               *)

LEMMA LeaseInitTypes == LeaseInit => LeaseTypeOK
<1> SUFFICES ASSUME LeaseInit PROVE LeaseTypeOK
  OBVIOUS
<1> USE LeaseAssumption DEF LeaseInit
<1>1. pass \in [Controllers -> [at : PLACES_OF_A_PASS, did : 0 .. Pieces]]
  BY DEF Resting, PLACES_OF_A_PASS
<1>2. lease \in [holder : Controllers \cup {NOBODY, GONE}, left : 0 .. LeaseTicks]
  BY DEF NoLease
<1>3. leaseFaults \in 0 .. MaxLeaseFaults
  OBVIOUS
<1> QED BY <1>1, <1>2, <1>3, Zenon DEF LeaseTypeOK

\* At a piece of work there is one left to do.
OneLeft == \A p \in Controllers : pass[p].at = "piece" => pass[p].did < Pieces

\* Who is past the lock holds it.
Locked ==
  \A p \in Controllers :
    pass[p].at \in {"locked", "working", "piece", "over", "done"} => osLock = p

\* What a step of a pass does to it and to the lock.
LEMMA PassStepEffect ==
  ASSUME LeaseTypeOK, OneLeft, NEW p \in Controllers, PassStep(p)
  PROVE  /\ \E next \in [at : PLACES_OF_A_PASS, did : 0 .. Pieces] :
              pass' = [pass EXCEPT ![p] = next]
         /\ lease' \in [holder : Controllers \cup {NOBODY, GONE}, left : 0 .. LeaseTicks]
         /\ osLock' \in Controllers \cup {NOBODY}
         /\ lost' \subseteq Controllers
         /\ UNCHANGED <<suspended, maintenance, leaseFaults>>
<1> DEFINE Places == [at : PLACES_OF_A_PASS, did : 0 .. Pieces]
<1>0. pass[p] \in Places
  BY DEF LeaseTypeOK
<1>1. ASSUME NEW place \in PLACES_OF_A_PASS, PassTo(p, place)
      PROVE  \E next \in Places : pass' = [pass EXCEPT ![p] = next]
  <2> DEFINE next == [pass[p] EXCEPT !.at = place]
  <2>1. next \in Places
    BY <1>0
  <2>2. pass' = [pass EXCEPT ![p] = next]
    BY <1>1 DEF PassTo
  <2> QED BY <2>1, <2>2
<1>2. Resting \in Places
  BY LeaseAssumption DEF Resting, PLACES_OF_A_PASS
<1>3. NoLease \in [holder : Controllers \cup {NOBODY, GONE}, left : 0 .. LeaseTicks]
  BY LeaseAssumption DEF NoLease
<1> USE DEF LeaseTypeOK, PLACES_OF_A_PASS, Unlock
<1>4. CASE BeginPass(p)
  BY <1>1, <1>4 DEF BeginPass
<1>5. CASE TakeLock(p)
  BY <1>1, <1>5 DEF TakeLock
<1>6. CASE Acquire(p)
  <2>1. CASE MayTake(p)
    <3>1. [at |-> "working", did |-> 0] \in Places
      BY LeaseAssumption
    <3>2. [holder |-> p, left |-> LeaseTicks]
            \in [holder : Controllers \cup {NOBODY, GONE}, left : 0 .. LeaseTicks]
      BY LeaseAssumption
    <3> QED BY <1>6, <2>1, <3>1, <3>2 DEF Acquire
  <2>2. CASE ~MayTake(p)
    BY <1>1, <1>6, <2>2 DEF Acquire
  <2> QED BY <2>1, <2>2
<1>7. CASE BeginPiece(p)
  BY <1>1, <1>7 DEF BeginPiece
<1>8. CASE DoPiece(p)
  <2>1. [at |-> "working", did |-> pass[p].did + 1] \in Places
    BY <1>0, <1>8, LeaseAssumption DEF DoPiece, PassAt, OneLeft
  <2> QED BY <1>8, <2>1 DEF DoPiece
<1>9. CASE EndPass(p)
  BY <1>1, <1>9 DEF EndPass
<1>10. CASE Release(p)
  BY <1>1, <1>3, <1>10 DEF Release
<1>11. CASE CloseLock(p)
  BY <1>2, <1>11 DEF CloseLock
<1> QED
  BY <1>4, <1>5, <1>6, <1>7, <1>8, <1>9, <1>10, <1>11 DEF PassStep

LEMMA LeaseTypesKept ==
  ASSUME LeaseTypeOK, OneLeft, [LeaseNext]_leaseVars
  PROVE  LeaseTypeOK'
<1> USE DEF LeaseTypeOK
<1>1. ASSUME NEW p \in Controllers, PassStep(p)
      PROVE  LeaseTypeOK'
  <2>1. pass' \in [Controllers -> [at : PLACES_OF_A_PASS, did : 0 .. Pieces]]
    BY <1>1, PassStepEffect
  <2> QED BY <1>1, <2>1, PassStepEffect
<1>2. ASSUME NEW p \in Controllers, Renew(p)
      PROVE  LeaseTypeOK'
  BY <1>2, LeaseAssumption DEF Renew
<1>3. ASSUME NEW p \in Controllers, FailToRenew(p)
      PROVE  LeaseTypeOK'
  BY <1>3, LeaseAssumption DEF FailToRenew, LeaseFault
<1>4. ASSUME NEW p \in Controllers, CrashPass(p)
      PROVE  LeaseTypeOK'
  <2>1. Resting \in [at : PLACES_OF_A_PASS, did : 0 .. Pieces]
    BY LeaseAssumption DEF Resting, PLACES_OF_A_PASS
  <2>2. pass' \in [Controllers -> [at : PLACES_OF_A_PASS, did : 0 .. Pieces]]
    BY <1>4, <2>1 DEF CrashPass
  <2>3. lease' \in [holder : Controllers \cup {NOBODY, GONE}, left : 0 .. LeaseTicks]
    BY <1>4 DEF CrashPass
  <2>4. leaseFaults' \in 0 .. MaxLeaseFaults
    BY <1>4, LeaseAssumption DEF CrashPass, LeaseFault
  <2>5. osLock' \in Controllers \cup {NOBODY} /\ suspended' \subseteq Controllers
    BY <1>4 DEF CrashPass, Unlock
  <2> QED BY <1>4, <2>2, <2>3, <2>4, <2>5, Zenon DEF CrashPass
<1>5. ASSUME NEW p \in Controllers, Suspend(p) \/ Resumes(p)
      PROVE  LeaseTypeOK'
  BY <1>5, LeaseAssumption DEF Suspend, Resumes, LeaseFault
<1>6. CASE LeaseTick
  <2>1. lease' \in [holder : Controllers \cup {NOBODY, GONE}, left : 0 .. LeaseTicks]
    BY <1>6, LeaseAssumption DEF LeaseTick
  <2> QED BY <1>6, <2>1, Zenon DEF LeaseTick
<1>7. CASE SetMaintenance
  <2>1. leaseFaults' \in 0 .. MaxLeaseFaults
    BY <1>7, LeaseAssumption DEF SetMaintenance, LeaseFault
  <2>2. maintenance' \in BOOLEAN
    BY <1>7, Zenon DEF SetMaintenance
  <2> QED BY <1>7, <2>1, <2>2, Zenon DEF SetMaintenance
<1>8. CASE UNCHANGED leaseVars
  BY <1>8, Zenon DEF leaseVars
<1> QED
  BY <1>1, <1>2, <1>3, <1>4, <1>5, <1>6, <1>7, <1>8 DEF LeaseNext

LEMMA OneLeftKept ==
  ASSUME LeaseTypeOK, OneLeft, [LeaseNext]_leaseVars
  PROVE  OneLeft'
<1> USE DEF LeaseTypeOK, OneLeft
<1>1. ASSUME NEW p \in Controllers, PassStep(p)
      PROVE  OneLeft'
  <2> USE DEF PassAt, PassTo
  <2>1. CASE BeginPass(p) \/ TakeLock(p)
    BY <1>1, <2>1 DEF BeginPass, TakeLock
  <2>2. CASE Acquire(p)
    BY <1>1, <2>2 DEF Acquire
  <2>3. CASE BeginPiece(p)
    BY <1>1, <2>3 DEF BeginPiece
  <2>4. CASE DoPiece(p)
    BY <1>1, <2>4 DEF DoPiece
  <2>5. CASE EndPass(p) \/ Release(p)
    BY <1>1, <2>5 DEF EndPass, Release
  <2>6. CASE CloseLock(p)
    BY <1>1, <2>6 DEF CloseLock, Resting
  <2> QED BY <1>1, <2>1, <2>2, <2>3, <2>4, <2>5, <2>6 DEF PassStep
<1>2. ASSUME NEW p \in Controllers, CrashPass(p)
      PROVE  OneLeft'
  BY <1>2 DEF CrashPass, Resting
<1>3. CASE UNCHANGED pass
  BY <1>3
<1> QED
  BY <1>1, <1>2, <1>3
  DEF LeaseNext, Renew, FailToRenew, Suspend, Resumes, LeaseTick, SetMaintenance, leaseVars

\* The lock is taken by one that finds it free, and let go at the end or by dying.
LEMMA LockedKept ==
  ASSUME LeaseTypeOK, Locked, [LeaseNext]_leaseVars
  PROVE  Locked'
<1> USE LeaseAssumption DEF LeaseTypeOK, Locked
<1>1. ASSUME NEW p \in Controllers, PassStep(p)
      PROVE  Locked'
  <2> USE DEF PassAt, PassTo
  <2>1. CASE BeginPass(p)
    BY <1>1, <2>1 DEF BeginPass
  <2>2. CASE TakeLock(p)
    BY <1>1, <2>2 DEF TakeLock, LockIsFree
  <2>3. CASE Acquire(p)
    BY <1>1, <2>3 DEF Acquire, Unlock
  <2>4. CASE BeginPiece(p)
    BY <1>1, <2>4 DEF BeginPiece
  <2>5. CASE DoPiece(p)
    BY <1>1, <2>5 DEF DoPiece
  <2>6. CASE EndPass(p) \/ Release(p)
    BY <1>1, <2>6 DEF EndPass, Release
  <2>7. CASE CloseLock(p)
    BY <1>1, <2>7 DEF CloseLock, Resting, Unlock
  <2> QED BY <1>1, <2>1, <2>2, <2>3, <2>4, <2>5, <2>6, <2>7 DEF PassStep
<1>2. ASSUME NEW p \in Controllers, CrashPass(p)
      PROVE  Locked'
  BY <1>2 DEF CrashPass, Resting, Unlock
<1>3. CASE UNCHANGED <<pass, osLock>>
  BY <1>3
<1> QED
  BY <1>1, <1>2, <1>3
  DEF LeaseNext, Renew, FailToRenew, Suspend, Resumes, LeaseTick, SetMaintenance, leaseVars

LeaseInv == LeaseTypeOK /\ OneLeft /\ Locked

LEMMA LeaseInvariance == LeaseSpec => []LeaseInv
<1>1. LeaseInit => LeaseInv
  <2> SUFFICES ASSUME LeaseInit PROVE OneLeft /\ Locked
    BY LeaseInitTypes DEF LeaseInv
  <2> QED BY DEF LeaseInit, OneLeft, Locked, Resting
<1>2. LeaseInv /\ [LeaseNext]_leaseVars => LeaseInv'
  BY LeaseTypesKept, OneLeftKept, LockedKept DEF LeaseInv
<1> QED BY <1>1, <1>2, PTL DEF LeaseSpec

\* The shapes of a pass, of the lock and of the lease row, and the budget, for any number of
\* controllers and any length of a lease.
THEOREM LeaseTypeCorrect == LeaseSpec => []LeaseTypeOK
  BY LeaseInvariance, PTL DEF LeaseInv

\* Two processes are never at a piece of work at once, whichever lease ran out under which of
\* them while it was suspended: the lock of the operating system fences them (_lock_file).
THEOREM OnePassAtWork == LeaseSpec => []OnePass
<1>1. LeaseInv => OnePass
  <2> SUFFICES ASSUME LeaseInv PROVE OnePass
    OBVIOUS
  <2> DEFINE AtWork == {p \in Controllers : pass[p].at \in {"working", "piece"}}
  <2>1. \A p, q \in AtWork : p = q
    BY DEF LeaseInv, Locked
  <2> HIDE DEF AtWork
  <2>2. Cardinality(AtWork) <= 1
    BY <2>1, AtMostOne
  <2> QED BY <2>2 DEF OnePass, AtWork
<1> QED BY <1>1, LeaseInvariance, PTL

-----------------------------------------------------------------------------
(* The turns of a fleet.                                                   *)

\* The runner the pass works on is one it listed with an operation, and one it has recorded an
\* attempt for has that operation under way.
WorksOnListed ==
  /\ turn.pc \in {"taken", "attempted"} => \E r \in turn.with : turn.on = {r}
  /\ turn.pc = "attempted" => \A r \in turn.on : Under(r)

\* Only the pass closes operations, and it strikes from its list the runners whose it closed.
StillOpen == \A r \in turn.with : ops[r] # NoTurnOp

\* An operation is pending or under way, and of one verb or the other.
NoneIsNone ==
  \A r \in Fleet : ops[r].verb = "none" \/ ops[r].state = "none" => ops[r] = NoTurnOp

StoppedOnPurpose == \A r \in Fleet : at[r] = "stopped" => wants[r] = "stopped"

\* A runner meant to serve whose clear has not begun serves, and the pass that listed it so
\* has seen it serve: its turn is not taken by one that was out already.
ServesUntilItsTurn ==
  \A r \in Fleet :
    Clears(r) /\ Pending(r) /\ wants[r] = "running" =>
      at[r] = "serving" /\ (r \in turn.with => turn.saw[r] = "serving")

OneUnder ==
  \A r, s \in Fleet :
    /\ Rebuilds(r) /\ Under(r) /\ Rebuilds(s) /\ Under(s) => r = s
    /\ Clears(r) /\ Under(r) /\ wants[r] = "running"
       /\ Clears(s) /\ Under(s) /\ wants[s] = "running" => r = s

\* Between the look at the siblings and the record of the attempt none of them begins.
TurnIsItsOwn ==
  turn.pc = "taken" =>
    \A r \in turn.on, s \in Fleet :
      r # s /\ Pending(r) =>
        /\ Rebuilds(r) => ~(Rebuilds(s) /\ Under(s))
        /\ Clears(r) /\ wants[r] = "running" => ~(Clears(s) /\ Under(s))

TurnsInv ==
  /\ TurnsTypeOK /\ WorksOnListed /\ StillOpen /\ NoneIsNone /\ StoppedOnPurpose
  /\ ServesUntilItsTurn /\ OneUnder /\ TurnIsItsOwn

TurnRecords ==
  [pc : {"over", "next", "taken", "attempted"}, on : SUBSET Fleet,
   left : SUBSET Fleet, with : SUBSET Fleet, saw : [Fleet -> PLACES]]

TurnOps ==
  [verb : {"none", "recreate", "clear"}, state : {"none", "pending", "running"},
   done : BOOLEAN, rank : 0 .. MaxTurnRequests]

LEMMA NoTurnTypes == NoTurn \in TurnRecords /\ NoTurnOp \in TurnOps
<1>1. NoTurn \in TurnRecords
  BY DEF NoTurn, TurnRecords, PLACES
<1>2. NoTurnOp \in TurnOps
  BY TurnsAssumption DEF NoTurnOp, TurnOps
<1> QED BY <1>1, <1>2

\* The pass goes on with a shorter list, having seen what it saw.
LEMMA NextRunnerEffect ==
  ASSUME turn \in TurnRecords, NEW r \in Fleet, NEW closed \in SUBSET Fleet, NextRunner(r, closed)
  PROVE  /\ turn' \in TurnRecords
         /\ turn'.pc \in {"over", "next"}
         /\ turn'.with \subseteq turn.with \ closed
         /\ \A s \in turn'.with : turn'.saw[s] = turn.saw[s]
<1>1. CASE turn.left = {r}
  <2>1. turn' = NoTurn
    BY <1>1 DEF NextRunner
  <2> QED BY <2>1, NoTurnTypes DEF NoTurn
<1>2. CASE turn.left # {r}
  <2>1. turn' = [turn EXCEPT !.pc = "next", !.on = {}, !.left = @ \ {r}, !.with = @ \ closed]
    BY <1>2 DEF NextRunner
  <2>2. turn' = [pc |-> "next", on |-> {}, left |-> turn.left \ {r},
                 with |-> turn.with \ closed, saw |-> turn.saw]
    BY <2>1 DEF TurnRecords
  <2> QED BY <2>2 DEF TurnRecords
<1> QED BY <1>1, <1>2

LEMMA CloseTurnsEffect ==
  ASSUME ops \in [Fleet -> TurnOps], NEW closed \in SUBSET Fleet, CloseTurns(closed)
  PROVE  /\ ops' \in [Fleet -> TurnOps]
         /\ \A s \in Fleet : ops'[s] = IF s \in closed THEN NoTurnOp ELSE ops[s]
         /\ intact' \subseteq intact
<1>1. ops' = [s \in Fleet |-> IF s \in closed THEN NoTurnOp ELSE ops[s]] /\ intact' \subseteq intact
  BY DEF CloseTurns
<1>2. ops' \in [Fleet -> TurnOps]
  BY <1>1, NoTurnTypes
<1> QED BY <1>1, <1>2

\* What the pass does to a runner it then goes on from: it may close operations, its own and
\* those that wait for it, and moves no other runner.
MovesOn(r, closed) ==
  /\ NextRunner(r, closed)
  /\ ops' \in [Fleet -> TurnOps]
  /\ \A s \in Fleet : IF s \in closed THEN ops'[s] = NoTurnOp
                      ELSE /\ ops'[s].verb = ops[s].verb /\ ops'[s].state = ops[s].state
                           /\ ops'[s] = ops[s] \/ (ops[s].verb # "none" /\ ops[s].state # "none")
  /\ at' \in [Fleet -> PLACES]
  /\ \A s \in Fleet : \/ at'[s] = at[s]
                      \/ at'[s] # "stopped" /\ (s \in closed \/ ~(Clears(s) /\ Pending(s)))
  /\ wants' = wants /\ intact' \subseteq Fleet
  /\ asked' \in 0 .. MaxTurnRequests /\ turnFaults' \in 0 .. MaxTurnFaults

LEMMA MovesOnKeeps ==
  ASSUME TurnsInv, NEW r \in Fleet, NEW closed \in SUBSET Fleet, MovesOn(r, closed)
  PROVE  TurnsInv'
<1>1. turn \in TurnRecords /\ ops \in [Fleet -> TurnOps]
  BY DEF TurnsInv, TurnsTypeOK, TurnRecords, TurnOps
<1>2. /\ turn' \in TurnRecords
      /\ turn'.pc \in {"over", "next"}
      /\ turn'.with \subseteq turn.with \ closed
      /\ \A s \in turn'.with : turn'.saw[s] = turn.saw[s]
  BY <1>1, NextRunnerEffect DEF MovesOn
<1>3. TurnsTypeOK'
  BY <1>2 DEF TurnsInv, TurnsTypeOK, MovesOn, TurnRecords, TurnOps
<1>4. WorksOnListed' /\ TurnIsItsOwn'
  BY <1>2 DEF WorksOnListed, TurnIsItsOwn
<1>5. \A s \in Fleet : \/ ops'[s] = NoTurnOp
                       \/ /\ ops'[s].verb = ops[s].verb /\ ops'[s].state = ops[s].state
                          /\ ops'[s] = ops[s] \/ (ops[s].verb # "none" /\ ops[s].state # "none")
  BY DEF MovesOn
<1>6. StillOpen'
  <2> SUFFICES ASSUME NEW s \in turn'.with PROVE ops'[s] # NoTurnOp
    BY DEF StillOpen
  <2>1. s \in turn.with /\ s \notin closed /\ s \in Fleet
    BY <1>1, <1>2 DEF TurnRecords
  <2>2. ops[s] # NoTurnOp
    BY <2>1 DEF TurnsInv, StillOpen
  <2>3. ops'[s].verb = ops[s].verb /\ (ops'[s] = ops[s] \/ ops[s].verb # "none")
    BY <2>1 DEF MovesOn
  <2>4. NoTurnOp.verb = "none"
    BY DEF NoTurnOp
  <2> QED BY <2>2, <2>3, <2>4
<1>7. NoneIsNone'
  BY <1>5 DEF TurnsInv, NoneIsNone, NoTurnOp
<1>8. StoppedOnPurpose'
  BY DEF TurnsInv, StoppedOnPurpose, MovesOn
<1>9. ServesUntilItsTurn'
  <2> SUFFICES ASSUME NEW s \in Fleet, Clears(s)', Pending(s)', wants'[s] = "running"
               PROVE  at'[s] = "serving" /\ (s \in turn'.with => turn'.saw[s] = "serving")
    BY DEF ServesUntilItsTurn
  <2>1. s \notin closed
    BY DEF MovesOn, Clears, NoTurnOp
  <2>2. Clears(s) /\ Pending(s) /\ wants[s] = "running"
    BY <2>1 DEF MovesOn, Clears, Pending
  <2>3. at[s] = "serving" /\ (s \in turn.with => turn.saw[s] = "serving")
    BY <2>2 DEF TurnsInv, ServesUntilItsTurn
  <2> QED BY <1>2, <2>1, <2>2, <2>3 DEF MovesOn
<1>10. OneUnder'
  <2>1. \A s \in Fleet : /\ Rebuilds(s)' /\ Under(s)' => Rebuilds(s) /\ Under(s)
                         /\ Clears(s)' /\ Under(s)' => Clears(s) /\ Under(s)
    BY <1>5 DEF Rebuilds, Clears, Under, NoTurnOp
  <2> QED BY <2>1 DEF TurnsInv, OneUnder, MovesOn
<1> QED BY <1>3, <1>4, <1>6, <1>7, <1>8, <1>9, <1>10 DEF TurnsInv

\* The steps of the pass that go on from a runner.
LEMMA StepsThatMoveOn ==
  ASSUME TurnsInv, NEW r \in Fleet,
         \/ HoldBack(r) \/ RefuseRebuild(r) \/ CloseTurn(r) \/ SkipClear(r) \/ TakeOut(r)
         \/ GoOn(r) \/ Rebuilt(r) \/ Cleared(r) \/ FailTurn(r) \/ ComeBack(r) \/ Breaks(r)
  PROVE  TurnsInv'
<1>1. /\ turn \in TurnRecords /\ ops \in [Fleet -> TurnOps] /\ at \in [Fleet -> PLACES]
      /\ intact \subseteq Fleet
      /\ asked \in 0 .. MaxTurnRequests /\ turnFaults \in 0 .. MaxTurnFaults
      /\ turnFaults < MaxTurnFaults => turnFaults + 1 \in 0 .. MaxTurnFaults
  BY TurnsAssumption DEF TurnsInv, TurnsTypeOK, TurnRecords, TurnOps
<1>2. ASSUME NEW closed \in SUBSET Fleet, CloseTurns(closed)
      PROVE  /\ ops' \in [Fleet -> TurnOps]
             /\ \A s \in Fleet : ops'[s] = IF s \in closed THEN NoTurnOp ELSE ops[s]
             /\ intact' \subseteq intact
  BY <1>1, <1>2, CloseTurnsEffect
<1>3. ClosedWith(r) \in SUBSET Fleet /\ {r} \in SUBSET Fleet /\ r \in ClosedWith(r)
  BY DEF ClosedWith
<1>4. CASE HoldBack(r) \/ GoOn(r)
  <2>1. MovesOn(r, {})
    BY <1>1, <1>4 DEF HoldBack, GoOn, MovesOn
  <2> QED BY <2>1, MovesOnKeeps
<1>5. CASE RefuseRebuild(r)
  <2>1. MovesOn(r, ClosedWith(r))
    BY <1>1, <1>2, <1>3, <1>5 DEF RefuseRebuild, MovesOn, TurnFault
  <2> QED BY <1>3, <2>1, MovesOnKeeps
<1>6. CASE CloseTurn(r) \/ SkipClear(r) \/ Cleared(r)
  <2>1. MovesOn(r, {r})
    BY <1>1, <1>2, <1>3, <1>6 DEF CloseTurn, SkipClear, Cleared, MovesOn
  <2> QED BY <1>3, <2>1, MovesOnKeeps
<1>7. CASE TakeOut(r)
  <2>1. ~Pending(r)
    BY <1>7 DEF TakeOut, TurnAt, TurnsInv, WorksOnListed, Under, Pending
  <2>2. MovesOn(r, {})
    BY <1>1, <1>7, <2>1 DEF TakeOut, MovesOn, PLACES
  <2> QED BY <2>2, MovesOnKeeps
<1>8. CASE Rebuilt(r)
  <2>1. /\ ops[r].verb = "recreate" /\ ops[r].state = "running"
        /\ ops' = [ops EXCEPT ![r] = [ops[r] EXCEPT !.done = TRUE]]
    BY <1>8 DEF Rebuilt, Rebuilds, OnTheWay, TurnAt, TurnsInv, WorksOnListed, Under
  <2>2. /\ ops' \in [Fleet -> TurnOps]
        /\ \A s \in Fleet : /\ ops'[s].verb = ops[s].verb /\ ops'[s].state = ops[s].state
                            /\ ops'[s] = ops[s] \/ (ops[s].verb # "none" /\ ops[s].state # "none")
    BY <1>1, <2>1 DEF TurnOps
  <2>3. MovesOn(r, {})
    BY <1>1, <1>8, <2>1, <2>2 DEF Rebuilt, MovesOn, PLACES, Clears
  <2> QED BY <2>3, MovesOnKeeps
<1>9. CASE FailTurn(r)
  <2>1. PICK place \in {"failed", "out", "stuck"} : at' = [at EXCEPT ![r] = place]
    BY <1>9 DEF FailTurn
  <2>2. MovesOn(r, ClosedWith(r))
    BY <1>1, <1>2, <1>3, <1>9, <2>1 DEF FailTurn, MovesOn, TurnFault, PLACES
  <2> QED BY <1>3, <2>2, MovesOnKeeps
<1>10. CASE ComeBack(r) \/ Breaks(r)
  <2>1. ~Clears(r)
    BY <1>10 DEF ComeBack, Breaks, Unasked, Clears, NoTurnOp
  <2>2. MovesOn(r, {})
    BY <1>1, <1>10, <2>1 DEF ComeBack, Breaks, MovesOn, PLACES, TurnFault
  <2> QED BY <2>2, MovesOnKeeps
<1> QED BY <1>4, <1>5, <1>6, <1>7, <1>8, <1>9, <1>10

LEMMA ComeToKeeps ==
  ASSUME TurnsInv, NEW r \in Fleet, ComeTo(r)
  PROVE  TurnsInv'
<1>1. turn \in TurnRecords /\ ops \in [Fleet -> TurnOps]
  BY DEF TurnsInv, TurnsTypeOK, TurnRecords, TurnOps
<1>2. turn' = [pc |-> "taken", on |-> {r}, left |-> turn.left, with |-> turn.with,
               saw |-> turn.saw]
  BY <1>1 DEF ComeTo, TurnRecords
<1>3. UNCHANGED <<at, wants, ops, intact, asked, turnFaults>> /\ r \in turn.with /\ MayStart(r)
  BY DEF ComeTo
<1>4. turn' \in TurnRecords
  BY <1>1, <1>2 DEF TurnRecords
<1>5. TurnsTypeOK'
  BY <1>3, <1>4, Zenon DEF TurnsInv, TurnsTypeOK, TurnRecords
<1>6. WorksOnListed' /\ StillOpen' /\ ServesUntilItsTurn'
  BY <1>2, <1>3 DEF TurnsInv, WorksOnListed, StillOpen, ServesUntilItsTurn, Clears, Pending
<1>7. NoneIsNone' /\ StoppedOnPurpose' /\ OneUnder'
  BY <1>3 DEF TurnsInv, NoneIsNone, StoppedOnPurpose, OneUnder, Rebuilds, Clears, Under
<1>8. TurnIsItsOwn'
  <2> SUFFICES ASSUME NEW s \in Fleet, r # s, Pending(r)
               PROVE  /\ Rebuilds(r) => ~(Rebuilds(s) /\ Under(s))
                      /\ Clears(r) /\ wants[r] = "running" => ~(Clears(s) /\ Under(s))
    BY <1>2, <1>3 DEF TurnIsItsOwn, Pending, Rebuilds, Clears, Under
  <2>1. s \in Siblings(r)
    BY DEF Siblings
  <2>2. Rebuilds(r) => ~(Rebuilds(s) /\ Under(s))
    BY <1>3, <2>1 DEF MayStart, RebuildsNow, FirstToRebuild, Pending, Under
  <2>3. ASSUME Clears(r), wants[r] = "running"
        PROVE  ~(Clears(s) /\ Under(s))
    <3>1. turn.saw[r] = "serving"
      BY <1>3, <2>3 DEF TurnsInv, ServesUntilItsTurn
    <3> QED BY <1>3, <2>1, <2>3, <3>1 DEF MayStart, ClearsNow, Pending, Under
  <2> QED BY <2>2, <2>3
<1> QED BY <1>5, <1>6, <1>7, <1>8 DEF TurnsInv

LEMMA AttemptKeeps ==
  ASSUME TurnsInv, NEW r \in Fleet, Attempt(r)
  PROVE  TurnsInv'
<1>1. turn \in TurnRecords /\ ops \in [Fleet -> TurnOps]
  BY DEF TurnsInv, TurnsTypeOK, TurnRecords, TurnOps
<1>2. turn' = [pc |-> "attempted", on |-> {r}, left |-> turn.left, with |-> turn.with,
               saw |-> turn.saw]
  BY <1>1 DEF Attempt, TurnRecords
<1>3. /\ turn.pc = "taken" /\ turn.on = {r} /\ r \in turn.with
      /\ UNCHANGED <<at, wants, intact, asked, turnFaults>>
  BY DEF Attempt, TurnAt, TurnsInv, WorksOnListed
<1>4. ops' = [ops EXCEPT ![r] = [ops[r] EXCEPT !.state = "running"]]
  BY DEF Attempt
<1>5. ops[r].verb # "none"
  BY <1>3 DEF TurnsInv, StillOpen, NoneIsNone
<1>6. /\ ops' \in [Fleet -> TurnOps]
      /\ ops'[r].verb = ops[r].verb /\ ops'[r].state = "running"
      /\ \A s \in Fleet : s # r => ops'[s] = ops[s]
  BY <1>1, <1>4 DEF TurnOps
<1>7. TurnsTypeOK'
  <2>1. turn' \in TurnRecords
    BY <1>1, <1>2 DEF TurnRecords
  <2> QED BY <1>3, <1>6, <2>1, Zenon DEF TurnsInv, TurnsTypeOK, TurnRecords, TurnOps
<1>8. WorksOnListed' /\ TurnIsItsOwn'
  BY <1>2, <1>3, <1>6 DEF WorksOnListed, TurnIsItsOwn, Under
<1>9. StillOpen'
  BY <1>1, <1>2, <1>3, <1>5, <1>6 DEF TurnsInv, StillOpen, NoTurnOp, TurnRecords
<1>10. NoneIsNone' /\ StoppedOnPurpose'
  BY <1>3, <1>5, <1>6 DEF TurnsInv, NoneIsNone, StoppedOnPurpose
<1>11. ServesUntilItsTurn'
  BY <1>2, <1>3, <1>6 DEF TurnsInv, ServesUntilItsTurn, Clears, Pending
<1>12. OneUnder'
  <2>1. ASSUME NEW s \in Fleet, s # r, ops[r].state # "running"
        PROVE  /\ Rebuilds(r) => ~(Rebuilds(s) /\ Under(s))
               /\ Clears(r) /\ wants[r] = "running" => ~(Clears(s) /\ Under(s))
    <3>1. ops[r].state = "pending" \/ ops[r].state = "none"
      BY <1>1, <2>1 DEF TurnOps
    <3>2. ops[r].state = "pending" => Pending(r)
      BY DEF Pending
    <3>3. ops[r].state # "none"
      BY <1>5 DEF TurnsInv, NoneIsNone, NoTurnOp
    <3> QED BY <1>3, <2>1, <3>1, <3>2, <3>3 DEF TurnsInv, TurnIsItsOwn
  <2> QED BY <1>3, <1>6, <2>1 DEF TurnsInv, OneUnder, Rebuilds, Clears, Under
<1> QED BY <1>7, <1>8, <1>9, <1>10, <1>11, <1>12 DEF TurnsInv

LEMMA AskKeeps ==
  ASSUME TurnsInv, NEW r \in Fleet, NEW verb \in {"recreate", "clear"}, Ask(r, verb)
  PROVE  TurnsInv'
<1> DEFINE new == [verb |-> verb, state |-> "pending", done |-> FALSE, rank |-> asked + 1]
<1>1. /\ turn \in TurnRecords /\ ops \in [Fleet -> TurnOps]
      /\ asked + 1 \in 0 .. MaxTurnRequests /\ asked' = asked + 1
  BY TurnsAssumption DEF TurnsInv, TurnsTypeOK, TurnRecords, TurnOps, Ask
<1>2. new \in TurnOps /\ new.verb = verb /\ new.state = "pending"
  BY <1>1 DEF TurnOps
<1>3. ops' = [ops EXCEPT ![r] = new]
  BY <1>1 DEF Ask
<1> HIDE DEF new
<1>4. /\ ops' \in [Fleet -> TurnOps] /\ ops'[r] = new
      /\ \A s \in Fleet : s # r => ops'[s] = ops[s]
  BY <1>1, <1>2, <1>3
<1>5. ops[r] = NoTurnOp /\ r \notin turn.with
  BY DEF Ask, TurnsInv, StillOpen
<1>6. UNCHANGED <<at, wants, turn, turnFaults>> /\ intact' \subseteq intact
  BY DEF Ask
<1>7. TurnsTypeOK'
  BY <1>1, <1>4, <1>6, Zenon DEF TurnsInv, TurnsTypeOK, TurnRecords, TurnOps
<1>8. WorksOnListed' /\ TurnIsItsOwn'
  <2>1. turn.pc \in {"taken", "attempted"} => r \notin turn.on
    BY <1>5 DEF TurnsInv, WorksOnListed
  <2>2. \A s \in turn.on : s \in Fleet
    BY <1>1 DEF TurnRecords
  <2>3. WorksOnListed'
    BY <1>4, <1>6, <2>1, <2>2 DEF TurnsInv, WorksOnListed, Under
  <2>4. TurnIsItsOwn'
    BY <1>2, <1>4, <1>6, <2>1, <2>2
    DEF TurnsInv, TurnIsItsOwn, Under, Pending, Rebuilds, Clears
  <2> QED BY <2>3, <2>4
<1>9. StillOpen'
  BY <1>1, <1>4, <1>5, <1>6 DEF TurnsInv, StillOpen, TurnRecords
<1>10. NoneIsNone' /\ StoppedOnPurpose'
  BY <1>2, <1>4, <1>6 DEF TurnsInv, NoneIsNone, StoppedOnPurpose
<1>11. ServesUntilItsTurn'
  <2>1. Clears(r)' /\ wants[r] = "running" => at[r] = "serving"
    BY <1>2, <1>4 DEF Ask, Clears, TurnsInv, StoppedOnPurpose
  <2> QED BY <1>4, <1>5, <1>6, <2>1 DEF TurnsInv, ServesUntilItsTurn, Clears, Pending
<1>12. OneUnder'
  BY <1>2, <1>4, <1>6 DEF TurnsInv, OneUnder, Rebuilds, Clears, Under
<1> QED BY <1>7, <1>8, <1>9, <1>10, <1>11, <1>12 DEF TurnsInv

\* An operator's step, and an edit, leave the operations and the pass alone.
LEMMA OperatorKeeps ==
  ASSUME TurnsInv, NEW r \in Fleet, TakeDown(r) \/ PutBack(r) \/ Edit(r)
  PROVE  TurnsInv'
<1>1. /\ at \in [Fleet -> PLACES] /\ wants \in [Fleet -> {"running", "stopped"}]
      /\ turn \in TurnRecords
  BY DEF TurnsInv, TurnsTypeOK, TurnRecords
<1>2. UNCHANGED <<ops, turn>> /\ intact' \subseteq intact
  BY DEF TakeDown, PutBack, Edit
<1>3. /\ at' \in [Fleet -> PLACES] /\ wants' \in [Fleet -> {"running", "stopped"}]
      /\ \A s \in Fleet : at'[s] = "stopped" => \/ at'[s] = at[s] /\ wants'[s] = wants[s]
                                                \/ wants'[s] = "stopped"
      /\ \A s \in Fleet : \/ at'[s] = at[s] /\ wants'[s] = wants[s]
                          \/ ops[s] = NoTurnOp
  BY <1>1 DEF TakeDown, PutBack, Edit, PLACES
<1>4. asked' \in 0 .. MaxTurnRequests /\ turnFaults' \in 0 .. MaxTurnFaults
  BY TurnsAssumption DEF TurnsInv, TurnsTypeOK, TakeDown, PutBack, Edit, TurnFault
<1>5. TurnsTypeOK'
  BY <1>2, <1>3, <1>4, Zenon DEF TurnsInv, TurnsTypeOK
<1>6. WorksOnListed' /\ StillOpen' /\ NoneIsNone'
  BY <1>2 DEF TurnsInv, WorksOnListed, StillOpen, NoneIsNone, Under
<1>7. StoppedOnPurpose'
  BY <1>3 DEF TurnsInv, StoppedOnPurpose
<1>8. \A s \in Fleet : ops[s] = NoTurnOp => ~Clears(s) /\ ~Rebuilds(s) /\ ~Under(s)
  BY DEF NoTurnOp, Clears, Rebuilds, Under
<1>9. ServesUntilItsTurn'
  BY <1>2, <1>3, <1>8 DEF TurnsInv, ServesUntilItsTurn, Clears, Pending
<1>10. OneUnder'
  BY <1>2, <1>3, <1>8 DEF TurnsInv, OneUnder, Clears, Rebuilds, Under
<1>11. TurnIsItsOwn'
  <2>1. turn.on \subseteq Fleet
    BY <1>1 DEF TurnRecords
  <2> QED BY <1>2, <1>3, <1>8, <2>1
          DEF TurnsInv, TurnIsItsOwn, Clears, Rebuilds, Under, Pending
<1> QED BY <1>5, <1>6, <1>7, <1>9, <1>10, <1>11 DEF TurnsInv

LEMMA PassBeginsAndStops ==
  ASSUME TurnsInv, BeginTurns \/ TurnsStop
  PROVE  TurnsInv'
<1>1. ops \in [Fleet -> TurnOps] /\ at \in [Fleet -> PLACES]
  BY DEF TurnsInv, TurnsTypeOK, TurnOps
<1>2. UNCHANGED <<at, wants, ops, asked>> /\ intact' \subseteq Fleet
  BY DEF BeginTurns, TurnsStop, TurnsInv, TurnsTypeOK
<1>3. turnFaults' \in 0 .. MaxTurnFaults
  BY TurnsAssumption DEF TurnsInv, TurnsTypeOK, BeginTurns, TurnsStop, TurnFault
<1>4. /\ turn' \in TurnRecords /\ turn'.pc \in {"over", "next"}
      /\ \A r \in turn'.with : ops[r] # NoTurnOp /\ turn'.saw[r] = at[r]
  <2>1. CASE BeginTurns
    <3>1. turn' = [pc |-> "next", on |-> {}, left |-> Fleet, saw |-> at,
                   with |-> {r \in Fleet : ops[r] # NoTurnOp}]
      BY <2>1 DEF BeginTurns
    <3> QED BY <1>1, <3>1 DEF TurnRecords
  <2>2. CASE TurnsStop
    <3>1. turn' = NoTurn
      BY <2>2 DEF TurnsStop
    <3> QED BY <3>1, NoTurnTypes DEF NoTurn
  <2> QED BY <2>1, <2>2
<1>5. TurnsTypeOK'
  BY <1>2, <1>3, <1>4, Zenon DEF TurnsInv, TurnsTypeOK, TurnRecords
<1>6. WorksOnListed' /\ StillOpen' /\ TurnIsItsOwn'
  BY <1>2, <1>4 DEF WorksOnListed, StillOpen, TurnIsItsOwn
<1>7. NoneIsNone' /\ StoppedOnPurpose' /\ OneUnder'
  BY <1>2 DEF TurnsInv, NoneIsNone, StoppedOnPurpose, OneUnder, Rebuilds, Clears, Under
<1>8. ServesUntilItsTurn'
  BY <1>2, <1>4 DEF TurnsInv, ServesUntilItsTurn, Clears, Pending
<1> QED BY <1>5, <1>6, <1>7, <1>8 DEF TurnsInv

LEMMA TurnsInvariance == TurnsSpec => []TurnsInv
<1>1. TurnsInit => TurnsInv
  <2> SUFFICES ASSUME TurnsInit PROVE TurnsInv
    OBVIOUS
  <2>1. TurnsTypeOK
    <3>1. ops \in [Fleet -> TurnOps] /\ turn \in TurnRecords
      BY NoTurnTypes DEF TurnsInit
    <3>2. at \in [Fleet -> PLACES] /\ wants \in [Fleet -> {"running", "stopped"}]
      BY DEF TurnsInit, PLACES
    <3>3. asked \in 0 .. MaxTurnRequests /\ turnFaults \in 0 .. MaxTurnFaults
          /\ intact \subseteq Fleet
      BY TurnsAssumption DEF TurnsInit
    <3> QED BY <3>1, <3>2, <3>3, Zenon DEF TurnsTypeOK, TurnRecords, TurnOps
  <2>2. WorksOnListed /\ StillOpen /\ TurnIsItsOwn
    BY DEF TurnsInit, NoTurn, WorksOnListed, StillOpen, TurnIsItsOwn
  <2>3. NoneIsNone /\ StoppedOnPurpose /\ OneUnder /\ ServesUntilItsTurn
    BY DEF TurnsInit, NoTurnOp, NoneIsNone, StoppedOnPurpose, OneUnder, ServesUntilItsTurn,
           Rebuilds, Clears, Under
  <2> QED BY <2>1, <2>2, <2>3 DEF TurnsInv
<1>2. TurnsInv /\ [TurnsNext]_turnVars => TurnsInv'
  <2> SUFFICES ASSUME TurnsInv, [TurnsNext]_turnVars PROVE TurnsInv'
    OBVIOUS
  <2>1. CASE TurnsNext
    BY <2>1, StepsThatMoveOn, ComeToKeeps, AttemptKeeps, AskKeeps, OperatorKeeps,
       PassBeginsAndStops
    DEF TurnsNext, TurnStep
  <2>2. CASE UNCHANGED turnVars
    BY <2>2
    DEF turnVars, TurnsInv, TurnsTypeOK, WorksOnListed, StillOpen, NoneIsNone, StoppedOnPurpose,
        ServesUntilItsTurn, OneUnder, TurnIsItsOwn, Rebuilds, Clears, Under, Pending
  <2> QED BY <2>1, <2>2
<1> QED BY <1>1, <1>2, PTL DEF TurnsSpec

\* No two runners of a fleet that are meant to serve are rebuilt at once, nor are two cleared,
\* in a fleet of any size and whatever is asked, edited or cut off (_recreate_turn, _cache_turn).
THEOREM TurnsAreTaken == TurnsSpec => []OneAtATime
<1>1. TurnsInv => OneAtATime
  <2> SUFFICES ASSUME TurnsInv, NEW verb \in {"recreate", "clear"}
               PROVE  Cardinality({r \in Fleet :
                        ops[r].verb = verb /\ Under(r) /\ wants[r] = "running"}) <= 1
    BY DEF OneAtATime
  <2> DEFINE Taken == {r \in Fleet : ops[r].verb = verb /\ Under(r) /\ wants[r] = "running"}
  <2>1. \A r, s \in Taken : r = s
    BY DEF TurnsInv, OneUnder, Rebuilds, Clears
  <2> HIDE DEF Taken
  <2>2. Cardinality(Taken) <= 1
    BY <2>1, AtMostOne
  <2> QED BY <2>2 DEF Taken
<1> QED BY <1>1, TurnsInvariance, PTL

-----------------------------------------------------------------------------
(* Requests for limits.                                                    *)

OpRecords == [key : Keys, state : {"pending", "succeeded", "failed"}]

\* The state a list of records R gives a key.
OneIn(R) == \A i, j \in DOMAIN R : R[i].key = R[j].key => i = j
WithKey(R, k) == {i \in DOMAIN R : R[i].key = k}
StateIn(R, k) ==
  IF WithKey(R, k) = {} THEN "new"
  ELSE R[CHOOSE i \in WithKey(R, k) : \A j \in WithKey(R, k) : i <= j].state

LEMMA StateIsOfRecord ==
  ASSUME NEW R, DOMAIN R \subseteq Nat, OneIn(R), NEW k
  PROVE  /\ WithKey(R, k) = {} => StateIn(R, k) = "new"
         /\ \A i \in DOMAIN R : R[i].key = k =>
              WithKey(R, k) = {i} /\ StateIn(R, k) = R[i].state
<1>1. WithKey(R, k) = {} => StateIn(R, k) = "new"
  BY DEF StateIn
<1>2. ASSUME NEW i \in DOMAIN R, R[i].key = k
      PROVE  WithKey(R, k) = {i} /\ StateIn(R, k) = R[i].state
  <2>1. WithKey(R, k) = {i}
    BY <1>2 DEF WithKey, OneIn
  <2>2. i \in Nat
    OBVIOUS
  <2>3. (CHOOSE j \in WithKey(R, k) : \A l \in WithKey(R, k) : j <= l) = i
    BY <2>1, <2>2
  <2> QED BY <2>1, <2>3 DEF StateIn
<1> QED BY <1>1, <1>2

LEMMA StateOfFollows ==
  ASSUME NEW R, NEW S, NEW l, DOMAIN R \subseteq Nat, DOMAIN S \subseteq Nat,
         OneIn(R), OneIn(S),
         \A i \in DOMAIN R : R[i].key = l => i \in DOMAIN S /\ S[i] = R[i],
         \A i \in DOMAIN S : S[i].key = l => i \in DOMAIN R /\ R[i].key = l
  PROVE  StateIn(S, l) = StateIn(R, l)
<1>1. CASE WithKey(R, l) = {}
  <2>1. WithKey(S, l) = {}
    BY <1>1 DEF WithKey
  <2> QED BY <1>1, <2>1, StateIsOfRecord
<1>2. ASSUME NEW i \in WithKey(R, l)
      PROVE  StateIn(S, l) = StateIn(R, l)
  BY <1>2, StateIsOfRecord DEF WithKey
<1> QED BY <1>1, <1>2

\* A record with a new key is inserted, and one is closed.
LEMMA InsertEffect ==
  ASSUME NEW R, NEW S, NEW k, NEW n \in Nat, n \notin DOMAIN R,
         DOMAIN R \subseteq Nat, DOMAIN S = DOMAIN R \cup {n},
         OneIn(R), WithKey(R, k) = {},
         S[n] = [key |-> k, state |-> "pending"], \A i \in DOMAIN R : S[i] = R[i]
  PROVE  /\ OneIn(S) /\ StateIn(S, k) = "pending"
         /\ \A l \in Keys \ {k} : StateIn(S, l) = StateIn(R, l)
<1>1. DOMAIN S \subseteq Nat /\ S[n].key = k /\ S[n].state = "pending" /\ n \in DOMAIN S
  OBVIOUS
<1>2. \A i \in DOMAIN R : R[i].key # k
  BY DEF WithKey
<1>3. OneIn(S)
  BY <1>1, <1>2 DEF OneIn
<1>4. StateIn(S, k) = "pending"
  BY <1>1, <1>3, StateIsOfRecord
<1>5. ASSUME NEW l \in Keys \ {k}
      PROVE  StateIn(S, l) = StateIn(R, l)
  BY <1>1, <1>3, StateOfFollows
<1> QED BY <1>3, <1>4, <1>5

LEMMA CloseEffect ==
  ASSUME NEW R, NEW S, NEW k, NEW state, DOMAIN R \subseteq Nat, DOMAIN S = DOMAIN R,
         OneIn(R), \E i \in DOMAIN R : R[i].key = k /\ R[i].state = "pending",
         \A i \in DOMAIN R : /\ S[i].key = R[i].key
                             /\ R[i].key # k => S[i] = R[i]
                             /\ R[i].key = k /\ R[i].state = "pending" => S[i].state = state
  PROVE  /\ OneIn(S) /\ StateIn(S, k) = state
         /\ \A l \in Keys \ {k} : StateIn(S, l) = StateIn(R, l)
<1>1. OneIn(S)
  BY DEF OneIn
<1>2. PICK i \in DOMAIN R : R[i].key = k /\ R[i].state = "pending"
  OBVIOUS
<1>4. StateIn(S, k) = state
  BY <1>1, <1>2, StateIsOfRecord
<1>5. ASSUME NEW l \in Keys \ {k}
      PROVE  StateIn(S, l) = StateIn(R, l)
  BY <1>1, StateOfFollows
<1> QED BY <1>1, <1>4, <1>5

LimitShape ==
  /\ records \in Seq(OpRecords)
  /\ inFlight \in BOOLEAN /\ current \subseteq Requesters
  /\ request \in [Requesters ->
       [at : {"idle", "looked", "opened", "saved", "aiming", "deciding", "answering"},
        key : Keys \cup {NONE}, again : BOOLEAN]]
  /\ saved \in [Keys -> Nat] /\ answers \subseteq Keys \X {"pending", "succeeded", "failed"}

CARRYING == {"opened", "saved", "aiming", "deciding"}

\* Whoever carries a request is the one that opened its operation, which is pending for as
\* long; its limits were saved once it is past that, and not before.
CarriesItsOwn ==
  \A c \in Requesters :
    /\ request[c].at # "idle" => request[c].key \in Keys
    /\ request[c].at = "answering" => StateIn(records, request[c].key) # "new"
    /\ request[c].at \in CARRYING =>
         /\ StateIn(records, request[c].key) = "pending"
         /\ saved[request[c].key] = IF request[c].at = "opened" THEN 0 ELSE 1
         /\ \A d \in Requesters \ {c} :
              request[d].at \in CARRYING => request[d].key # request[c].key

SavedByRequest == \A k \in Keys : StateIn(records, k) = "new" => saved[k] = 0

LimitInv == LimitShape /\ OneIn(records) /\ CarriesItsOwn /\ SavedByRequest

LEMMA StateOfIs == \A k : /\ StateOf(k) = StateIn(records, k) /\ StateOf(k)' = StateIn(records', k)
                          /\ RecordsOf(k) = WithKey(records, k)
BY DEF StateOf, RecordsOf, StateIn, WithKey

\* A key is new while it has no record.
LEMMA NewHasNoRecord ==
  ASSUME LimitInv, NEW k
  PROVE  /\ RecordsOf(k) = {} <=> StateIn(records, k) = "new"
         /\ StateIn(records, k) \in {"new", "pending", "succeeded", "failed"}
<1>0. DOMAIN records \subseteq Nat /\ OneIn(records) /\ RecordsOf(k) = WithKey(records, k)
      /\ StateIn(records, k) = StateIn(records, k)
  BY StateOfIs DEF LimitInv, LimitShape
<1>1. CASE WithKey(records, k) = {}
  BY <1>0, <1>1, StateIsOfRecord
<1>2. CASE WithKey(records, k) # {}
  <2>1. PICK i \in DOMAIN records : records[i].key = k
    BY <1>2 DEF WithKey
  <2>2. records[i] \in OpRecords
    BY DEF LimitInv, LimitShape
  <2> QED BY <1>0, <1>2, <2>1, <2>2, StateIsOfRecord DEF OpRecords
<1> QED BY <1>1, <1>2

\* What a request that fails or succeeds does to the records, and one that opens.
LEMMA PendingIsRecorded ==
  ASSUME LimitInv, NEW k \in Keys, StateIn(records, k) = "pending"
  PROVE  \E i \in DOMAIN records : records[i].key = k /\ records[i].state = "pending"
<1>1. OneIn(records) /\ DOMAIN records \subseteq Nat
  BY DEF LimitInv, LimitShape
<1>2. PICK i \in DOMAIN records : records[i].key = k
  BY <1>1, StateIsOfRecord DEF WithKey
<1> QED BY <1>1, <1>2, StateIsOfRecord

LEMMA Closes ==
  ASSUME LimitInv, NEW k \in Keys, NEW state \in {"succeeded", "failed"},
         \E i \in DOMAIN records : records[i].key = k /\ records[i].state = "pending"
  PROVE  records' = Closed(k, state) =>
           /\ records' \in Seq(OpRecords) /\ OneIn(records')
           /\ StateIn(records', k) = state
           /\ \A l \in Keys \ {k} : StateIn(records', l) = StateIn(records, l)
<1>0. OneIn(records) /\ DOMAIN records \subseteq Nat
  BY DEF LimitInv, LimitShape
<1>1. /\ records \in Seq(OpRecords) /\ DOMAIN records = 1 .. Len(records)
      /\ Len(records) \in Nat
  BY DEF LimitInv, LimitShape
<1>2. ASSUME records' = Closed(k, state)
      PROVE  /\ DOMAIN records' = DOMAIN records
             /\ records' \in Seq(OpRecords)
             /\ \A i \in DOMAIN records :
                  /\ records'[i].key = records[i].key
                  /\ records[i].key # k => records'[i] = records[i]
                  /\ records[i].key = k /\ records[i].state = "pending"
                       => records'[i].state = state
  <2>1. DOMAIN records' = DOMAIN records
    BY <1>2 DEF Closed
  <2>2. ASSUME NEW i \in DOMAIN records
        PROVE  /\ records'[i] \in OpRecords /\ records'[i].key = records[i].key
               /\ records[i].key # k => records'[i] = records[i]
               /\ records[i].key = k /\ records[i].state = "pending"
                    => records'[i].state = state
    <3>1. records[i] \in OpRecords
      BY <1>1
    <3>2. records'[i] = IF records[i].key = k /\ records[i].state = "pending"
                        THEN [records[i] EXCEPT !.state = state] ELSE records[i]
      BY <1>2 DEF Closed, RecordsOf
    <3> QED BY <3>1, <3>2 DEF OpRecords
  <2>3. records' \in [1 .. Len(records) -> OpRecords]
    BY <1>1, <1>2, <2>1, <2>2 DEF Closed
  <2> QED BY <1>1, <2>1, <2>2, <2>3
<1>3. ASSUME records' = Closed(k, state)
      PROVE  /\ OneIn(records') /\ StateIn(records', k) = state
             /\ \A l \in Keys \ {k} : StateIn(records', l) = StateIn(records, l)
  <2>1. /\ DOMAIN records' = DOMAIN records
        /\ \A i \in DOMAIN records :
             /\ records'[i].key = records[i].key
             /\ records[i].key # k => records'[i] = records[i]
             /\ records[i].key = k /\ records[i].state = "pending"
                  => records'[i].state = state
    BY <1>2, <1>3
  <2>2. PICK S : S = records'
    OBVIOUS
  <2>3. /\ DOMAIN S = DOMAIN records
        /\ \A i \in DOMAIN records :
             /\ S[i].key = records[i].key
             /\ records[i].key # k => S[i] = records[i]
             /\ records[i].key = k /\ records[i].state = "pending" => S[i].state = state
    BY <2>1, <2>2, Zenon
  <2>4. /\ OneIn(S) /\ StateIn(S, k) = state
        /\ \A l \in Keys \ {k} : StateIn(S, l) = StateIn(records, l)
    BY <1>0, <2>3, CloseEffect
  <2> QED BY <2>2, <2>4, Zenon
<1> QED BY <1>2, <1>3, StateOfIs

LEMMA Opens ==
  ASSUME LimitInv, NEW k \in Keys, RecordsOf(k) = {}
  PROVE  records' = Append(records, [key |-> k, state |-> "pending"]) =>
           /\ records' \in Seq(OpRecords) /\ OneIn(records')
           /\ StateIn(records', k) = "pending"
           /\ \A l \in Keys \ {k} : StateIn(records', l) = StateIn(records, l)
<1>0. OneIn(records) /\ WithKey(records, k) = {} /\ DOMAIN records \subseteq Nat
  BY StateOfIs DEF LimitInv, LimitShape
<1>1. records \in Seq(OpRecords)
  BY DEF LimitInv, LimitShape
<1>2. ASSUME records' = Append(records, [key |-> k, state |-> "pending"])
      PROVE  /\ records' \in Seq(OpRecords)
             /\ \E n \in Nat : /\ DOMAIN records' = DOMAIN records \cup {n}
                               /\ n \notin DOMAIN records
                               /\ records'[n] = [key |-> k, state |-> "pending"]
             /\ \A i \in DOMAIN records : records'[i] = records[i]
  <2>1. [key |-> k, state |-> "pending"] \in OpRecords
    BY DEF OpRecords
  <2>2. /\ DOMAIN records' = DOMAIN records \cup {Len(records) + 1}
        /\ Len(records) + 1 \in Nat /\ Len(records) + 1 \notin DOMAIN records
        /\ records'[Len(records) + 1] = [key |-> k, state |-> "pending"]
        /\ \A i \in DOMAIN records : records'[i] = records[i]
    BY <1>1, <1>2
  <2> QED BY <1>1, <1>2, <2>1, <2>2
<1>3. ASSUME records' = Append(records, [key |-> k, state |-> "pending"])
      PROVE  /\ OneIn(records') /\ StateIn(records', k) = "pending"
             /\ \A l \in Keys \ {k} : StateIn(records', l) = StateIn(records, l)
  <2>1. PICK n \in Nat : /\ DOMAIN records' = DOMAIN records \cup {n}
                         /\ n \notin DOMAIN records
                         /\ records'[n] = [key |-> k, state |-> "pending"]
    BY <1>2, <1>3
  <2>2. \A i \in DOMAIN records : records'[i] = records[i]
    BY <1>2, <1>3
  <2> QED BY <1>0, <2>1, <2>2, InsertEffect
<1> QED BY <1>2, <1>3, StateOfIs

LEMMA LimitInitInv == LimitInit => LimitInv
<1> SUFFICES ASSUME LimitInit PROVE LimitInv
  OBVIOUS
<1>1. records = <<>> /\ DOMAIN records = {} /\ \A c \in Requesters : request[c].at = "idle"
  BY DEF LimitInit, Quiet
<1>2. LimitShape
  <2>1. records \in Seq(OpRecords)
    BY <1>1
  <2>2. inFlight \in BOOLEAN /\ current \subseteq Requesters
    BY DEF LimitInit
  <2>3. request \in [Requesters ->
       [at : {"idle", "looked", "opened", "saved", "aiming", "deciding", "answering"},
        key : Keys \cup {NONE}, again : BOOLEAN]]
    BY DEF LimitInit, Quiet, NONE
  <2>4. saved \in [Keys -> Nat] /\ answers \subseteq Keys \X {"pending", "succeeded", "failed"}
    BY DEF LimitInit
  <2> QED BY <2>1, <2>2, <2>3, <2>4 DEF LimitShape
<1>3. OneIn(records)
  BY <1>1 DEF OneIn
<1>4. CarriesItsOwn
  BY <1>1 DEF CarriesItsOwn, CARRYING
<1>5. SavedByRequest
  BY DEF SavedByRequest, LimitInit
<1> QED BY <1>2, <1>3, <1>4, <1>5 DEF LimitInv

\* One request moves: where to, with which key.
LEMMA RequestMoves ==
  ASSUME LimitInv, NEW c \in Requesters, NEW from, NEW to, RequestStep(c, from, to)
  PROVE  /\ request[c].at = from /\ request[c].key \in Keys \cup {NONE}
         /\ request'[c].at = to /\ request'[c].key = request[c].key
         /\ \A d \in Requesters \ {c} : request'[d] = request[d]
         /\ to \in {"idle", "looked", "opened", "saved", "aiming", "deciding", "answering"} =>
              request' \in [Requesters ->
                [at : {"idle", "looked", "opened", "saved", "aiming", "deciding", "answering"},
                 key : Keys \cup {NONE}, again : BOOLEAN]]
BY DEF RequestStep, LimitInv, LimitShape

LEMMA RequestRests ==
  ASSUME LimitInv, NEW c \in Requesters, request' = [request EXCEPT ![c] = Quiet]
  PROVE  /\ request'[c].at = "idle"
         /\ \A d \in Requesters \ {c} : request'[d] = request[d]
         /\ request' \in [Requesters ->
              [at : {"idle", "looked", "opened", "saved", "aiming", "deciding", "answering"},
               key : Keys \cup {NONE}, again : BOOLEAN]]
BY DEF LimitInv, LimitShape, Quiet, NONE

\* A step that does not touch the records, nor what was saved, and takes one request
\* from where it carries to where it carries, or to rest.
LEMMA QuietStepKeeps ==
  ASSUME LimitInv, NEW c \in Requesters, UNCHANGED <<records, saved>>,
         \A d \in Requesters \ {c} : request'[d] = request[d],
         \/ request'[c].at = "idle"
         \/ request'[c].at = "looked" /\ request'[c].key \in Keys
         \/ /\ request'[c].key = request[c].key
            /\ \/ request[c].at \in {"saved", "aiming", "deciding"}
                  /\ request'[c].at \in {"saved", "aiming", "deciding"}
               \/ request'[c].at = request[c].at
  PROVE  OneIn(records') /\ CarriesItsOwn' /\ SavedByRequest'
<1>1. \A k : StateIn(records', k) = StateIn(records, k)
  BY StateOfIs
<1>2. OneIn(records') /\ SavedByRequest'
  BY <1>1 DEF LimitInv, SavedByRequest
<1>3. CarriesItsOwn'
  BY <1>1 DEF LimitInv, CarriesItsOwn, CARRYING
<1> QED BY <1>2, <1>3

LEMMA LimitShapeKept ==
  ASSUME LimitInv, [LimitNext]_limitVars
  PROVE  LimitShape'
<1> USE DEF LimitShape
<1>0. LimitShape /\ \A k : StateIn(records, k) \in {"new", "pending", "succeeded", "failed"}
  BY NewHasNoRecord DEF LimitInv
<1>1. ASSUME NEW c \in Requesters, NEW k \in Keys, Look(c, k)
      PROVE  LimitShape'
  <2>1. request' \in [Requesters ->
          [at : {"idle", "looked", "opened", "saved", "aiming", "deciding", "answering"},
           key : Keys \cup {NONE}, again : BOOLEAN]]
    BY <1>0, <1>1 DEF Look, Quiet
  <2> QED BY <1>0, <1>1, <2>1 DEF Look
<1>2. ASSUME NEW c \in Requesters, NEW k \in Keys, StateIn(records, k) # "new", Told(c, k)
      PROVE  /\ request' \in [Requesters ->
                  [at : {"idle", "looked", "opened", "saved", "aiming", "deciding", "answering"},
                   key : Keys \cup {NONE}, again : BOOLEAN]]
             /\ answers' \subseteq Keys \X {"pending", "succeeded", "failed"}
  <2>1. /\ request' = [request EXCEPT ![c] = Quiet]
        /\ answers' = answers \cup {<<k, StateOf(k)>>}
    BY <1>2 DEF Told
  <2>2. <<k, StateOf(k)>> \in Keys \X {"pending", "succeeded", "failed"}
    BY <1>0, <1>2, StateOfIs
  <2>3. answers' \subseteq Keys \X {"pending", "succeeded", "failed"}
    BY <1>0, <2>1, <2>2
  <2> QED BY <2>1, <2>3, RequestRests
<1>3. ASSUME NEW c \in Requesters, NEW k \in Keys, Repeat(c, k)
      PROVE  LimitShape'
  <2>1. StateIn(records, k) # "new"
    BY <1>3, NewHasNoRecord DEF Repeat
  <2> QED BY <1>0, <1>2, <1>3, <2>1 DEF Repeat
<1>4. ASSUME NEW c \in Requesters, Open(c)
      PROVE  LimitShape'
  <2>1. request[c].key \in Keys /\ RecordsOf(request[c].key) = {}
    BY <1>4 DEF Open, MayInsert, RequestStep, LimitInv, CarriesItsOwn
  <2>2. records' \in Seq(OpRecords)
    BY <1>4, <2>1, Opens DEF Open
  <2>3. request' \in [Requesters ->
          [at : {"idle", "looked", "opened", "saved", "aiming", "deciding", "answering"},
           key : Keys \cup {NONE}, again : BOOLEAN]]
    BY <1>4, RequestMoves DEF Open
  <2> QED BY <1>0, <1>4, <2>2, <2>3 DEF Open
<1>5. ASSUME NEW c \in Requesters, FindOpened(c)
      PROVE  LimitShape'
  <2>1. request[c].key \in Keys /\ StateIn(records, request[c].key) # "new"
    BY <1>5, NewHasNoRecord DEF FindOpened, MayInsert, LimitInv, CarriesItsOwn
  <2> QED BY <1>0, <1>2, <1>5, <2>1 DEF FindOpened
<1>6. ASSUME NEW c \in Requesters, Save(c)
      PROVE  LimitShape'
  <2>0. request[c].key \in Keys
    BY <1>6 DEF Save, RequestStep, LimitInv, CarriesItsOwn
  <2>1. saved' \in [Keys -> Nat]
    BY <1>0, <1>6, <2>0 DEF Save
  <2>2. /\ UNCHANGED <<records, inFlight, answers>> /\ current' = {}
        /\ RequestStep(c, "opened", "saved")
    BY <1>6 DEF Save
  <2>3. request' \in [Requesters ->
          [at : {"idle", "looked", "opened", "saved", "aiming", "deciding", "answering"},
           key : Keys \cup {NONE}, again : BOOLEAN]]
    BY <2>2, RequestMoves
  <2> QED BY <1>0, <2>1, <2>2, <2>3
<1>7. ASSUME NEW c \in Requesters, SaveAgain(c)
      PROVE  LimitShape'
  BY <1>0, <1>7 DEF SaveAgain
<1>8. ASSUME NEW c \in Requesters, NEW state \in {"succeeded", "failed"}, NEW from,
             request[c].at \in CARRYING, RequestStep(c, from, "answering"),
             records' = Closed(request[c].key, state)
      PROVE  /\ records' \in Seq(OpRecords)
             /\ request' \in [Requesters ->
                  [at : {"idle", "looked", "opened", "saved", "aiming", "deciding", "answering"},
                   key : Keys \cup {NONE}, again : BOOLEAN]]
  <2>1. request[c].key \in Keys /\ StateIn(records, request[c].key) = "pending"
    BY <1>8 DEF LimitInv, CarriesItsOwn, CARRYING
  <2> QED BY <1>8, <2>1, PendingIsRecorded, Closes, RequestMoves
<1>9. ASSUME NEW c \in Requesters, Refuse(c)
      PROVE  LimitShape'
  <2>1. request[c].at \in CARRYING
    BY <1>9 DEF Refuse, FailRequest, RequestStep, CARRYING
  <2> QED BY <1>0, <1>8, <1>9, <2>1 DEF Refuse, FailRequest
<1>10. ASSUME NEW c \in Requesters, Break(c)
       PROVE  LimitShape'
  <2>1. request[c].at \in CARRYING
    BY <1>10 DEF Break, CARRYING
  <2> QED BY <1>0, <1>8, <1>10, <2>1 DEF Break, FailRequest
<1>11. ASSUME NEW c \in Requesters, Aim(c) \/ Queue(c)
       PROVE  LimitShape'
  <2>1. request' \in [Requesters ->
          [at : {"idle", "looked", "opened", "saved", "aiming", "deciding", "answering"},
           key : Keys \cup {NONE}, again : BOOLEAN]]
    BY <1>11, RequestMoves DEF Aim, Queue
  <2>2. inFlight' \in BOOLEAN /\ current' \subseteq Requesters
    BY <1>0, <1>11 DEF Aim, Queue
  <2> QED BY <1>0, <1>11, <2>1, <2>2 DEF Aim, Queue
<1>12. ASSUME NEW c \in Requesters, Succeed(c)
       PROVE  LimitShape'
  <2>1. request[c].at \in CARRYING
    BY <1>12 DEF Succeed, RequestStep, CARRYING
  <2> QED BY <1>0, <1>8, <1>12, <2>1 DEF Succeed
<1>13. ASSUME NEW c \in Requesters, Answer(c)
       PROVE  LimitShape'
  <2>1. request[c].key \in Keys /\ StateIn(records, request[c].key) # "new"
    BY <1>13 DEF Answer, LimitInv, CarriesItsOwn
  <2> QED BY <1>0, <1>2, <1>13, <2>1 DEF Answer
<1>14. ASSUME NEW c \in Requesters, CutOff(c)
       PROVE  LimitShape'
  BY <1>0, <1>14, RequestRests DEF CutOff
<1>15. CASE WriteRow
  BY <1>0, <1>15 DEF WriteRow
<1>16. CASE UNCHANGED limitVars
  BY <1>0, <1>16 DEF limitVars
<1> QED
  BY <1>1, <1>3, <1>4, <1>5, <1>6, <1>7, <1>9, <1>10, <1>11, <1>12, <1>13, <1>14, <1>15,
     <1>16 DEF LimitNext

LEMMA LimitInvKept ==
  ASSUME LimitInv, [LimitNext]_limitVars
  PROVE  LimitInv'
<1> DEFINE Kept == OneIn(records') /\ CarriesItsOwn' /\ SavedByRequest'
<1>1. ASSUME NEW c \in Requesters, NEW k \in Keys, Look(c, k)
      PROVE  Kept
  <2>1. /\ UNCHANGED <<records, saved>>
        /\ request' = [request EXCEPT ![c] = [Quiet EXCEPT !.at = "looked", !.key = k]]
    BY <1>1 DEF Look
  <2>2. request'[c].at = "looked" /\ request'[c].key = k
        /\ \A d \in Requesters \ {c} : request'[d] = request[d]
    BY <2>1 DEF LimitInv, LimitShape, Quiet
  <2> QED BY <2>1, <2>2, QuietStepKeeps
<1>2. ASSUME NEW c \in Requesters, NEW k, Told(c, k), UNCHANGED <<records, saved>>
      PROVE  Kept
  <2>1. request' = [request EXCEPT ![c] = Quiet]
    BY <1>2 DEF Told
  <2> QED BY <1>2, <2>1, RequestRests, QuietStepKeeps
<1>3. ASSUME NEW c \in Requesters, NEW k \in Keys, Repeat(c, k)
      PROVE  Kept
  BY <1>2, <1>3 DEF Repeat
<1>4. ASSUME NEW c \in Requesters, FindOpened(c) \/ Answer(c)
      PROVE  Kept
  BY <1>2, <1>4 DEF FindOpened, Answer
<1>5. ASSUME NEW c \in Requesters, Open(c)
      PROVE  Kept
  <2> DEFINE k == request[c].key
  <2>1. /\ RequestStep(c, "looked", "opened") /\ RecordsOf(k) = {} /\ saved' = saved
        /\ records' = Append(records, [key |-> k, state |-> "pending"])
    BY <1>5 DEF Open, MayInsert
  <2>2. k \in Keys
    BY <2>1 DEF RequestStep, LimitInv, CarriesItsOwn
  <2>3. /\ OneIn(records') /\ StateIn(records', k) = "pending"
        /\ \A l \in Keys \ {k} : StateIn(records', l) = StateIn(records, l)
    BY <2>1, <2>2, Opens
  <2>4. StateIn(records, k) = "new" /\ saved[k] = 0
    BY <2>1, <2>2, NewHasNoRecord DEF LimitInv, SavedByRequest
  <2>5. /\ request'[c].at = "opened" /\ request'[c].key = k
        /\ \A d \in Requesters \ {c} : request'[d] = request[d]
    BY <2>1, RequestMoves
  <2>6. \A d \in Requesters : request[d].at \in CARRYING => request[d].key # k
    BY <2>4 DEF LimitInv, CarriesItsOwn
  <2> HIDE DEF k
  <2>7. CarriesItsOwn'
    BY <2>1, <2>2, <2>3, <2>4, <2>5, <2>6 DEF LimitInv, CarriesItsOwn, CARRYING
  <2>8. SavedByRequest'
    BY <2>1, <2>2, <2>3 DEF LimitInv, SavedByRequest
  <2> QED BY <2>3, <2>7, <2>8
<1>6. ASSUME NEW c \in Requesters, Save(c)
      PROVE  Kept
  <2> DEFINE k == request[c].key
  <2>1. /\ RequestStep(c, "opened", "saved") /\ records' = records
        /\ saved' = [saved EXCEPT ![k] = @ + 1]
    BY <1>6 DEF Save
  <2>2. k \in Keys /\ StateIn(records, k) = "pending" /\ saved[k] = 0 /\ request[c].at = "opened"
        /\ \A d \in Requesters \ {c} : request[d].at \in CARRYING => request[d].key # k
    BY <2>1 DEF RequestStep, LimitInv, CarriesItsOwn, CARRYING
  <2>3. \A l : StateIn(records', l) = StateIn(records, l)
    BY <2>1, StateOfIs
  <2>4. saved'[k] = 1 /\ \A l \in Keys \ {k} : saved'[l] = saved[l]
    BY <2>1, <2>2 DEF LimitInv, LimitShape
  <2>5. /\ request'[c].at = "saved" /\ request'[c].key = k
        /\ \A d \in Requesters \ {c} : request'[d] = request[d]
    BY <2>1, RequestMoves
  <2> HIDE DEF k
  <2>7. CarriesItsOwn'
    BY <2>2, <2>3, <2>4, <2>5 DEF LimitInv, CarriesItsOwn, CARRYING
  <2>8. SavedByRequest'
    BY <2>2, <2>3, <2>4 DEF LimitInv, SavedByRequest
  <2> QED BY <2>1, <2>7, <2>8 DEF LimitInv
<1>7. ASSUME NEW c \in Requesters, SaveAgain(c)
      PROVE  Kept
  <2>1. UNCHANGED <<records, saved>> /\ request' = [request EXCEPT ![c].again = TRUE]
    BY <1>7 DEF SaveAgain
  <2>2. request'[c].at = request[c].at /\ request'[c].key = request[c].key
        /\ \A d \in Requesters \ {c} : request'[d] = request[d]
    BY <2>1 DEF LimitInv, LimitShape
  <2> QED BY <2>1, <2>2, QuietStepKeeps
<1>8. ASSUME NEW c \in Requesters, NEW state \in {"succeeded", "failed"}, NEW from,
             request[c].at \in CARRYING, RequestStep(c, from, "answering"),
             records' = Closed(request[c].key, state), saved' = saved
      PROVE  Kept
  <2> DEFINE k == request[c].key
  <2>2. /\ k \in Keys /\ StateIn(records, k) = "pending"
        /\ \A d \in Requesters \ {c} : request[d].at \in CARRYING => request[d].key # k
    BY <1>8 DEF LimitInv, CarriesItsOwn, CARRYING
  <2>3. /\ OneIn(records') /\ StateIn(records', k) = state
        /\ \A l \in Keys \ {k} : StateIn(records', l) = StateIn(records, l)
    BY <1>8, <2>2, PendingIsRecorded, Closes
  <2>5. /\ request'[c].at = "answering" /\ request'[c].key = k
        /\ \A d \in Requesters \ {c} : request'[d] = request[d]
    BY <1>8, RequestMoves
  <2> HIDE DEF k
  <2>7. CarriesItsOwn'
    BY <1>8, <2>2, <2>3, <2>5 DEF LimitInv, CarriesItsOwn, CARRYING
  <2>8. SavedByRequest'
    BY <1>8, <2>2, <2>3 DEF LimitInv, SavedByRequest
  <2> QED BY <2>3, <2>7, <2>8
<1>9. ASSUME NEW c \in Requesters, Refuse(c) \/ Break(c) \/ Succeed(c)
      PROVE  Kept
  <2>1. CASE Refuse(c)
    BY <1>8, <2>1 DEF Refuse, FailRequest, RequestStep, CARRYING
  <2>2. CASE Break(c)
    BY <1>8, <2>2 DEF Break, FailRequest, CARRYING
  <2>3. CASE Succeed(c)
    BY <1>8, <2>3 DEF Succeed, RequestStep, CARRYING
  <2> QED BY <1>9, <2>1, <2>2, <2>3
<1>10. ASSUME NEW c \in Requesters, Aim(c) \/ Queue(c)
       PROVE  Kept
  <2>1. UNCHANGED <<records, saved>>
    BY <1>10 DEF Aim, Queue
  <2>2. /\ request[c].at \in {"saved", "aiming"} /\ request'[c].at \in {"aiming", "deciding"}
        /\ request'[c].key = request[c].key
        /\ \A d \in Requesters \ {c} : request'[d] = request[d]
    BY <1>10, RequestMoves DEF Aim, Queue
  <2> QED BY <2>1, <2>2, QuietStepKeeps
<1>11. ASSUME NEW c \in Requesters, CutOff(c)
       PROVE  Kept
  <2>1. UNCHANGED <<records, saved>> /\ request' = [request EXCEPT ![c] = Quiet]
    BY <1>11 DEF CutOff
  <2> QED BY <2>1, RequestRests, QuietStepKeeps
<1>12. ASSUME WriteRow \/ UNCHANGED limitVars
       PROVE  Kept
  <2>1. UNCHANGED <<records, saved, request>>
    BY <1>12 DEF WriteRow, limitVars
  <2>2. CarriesItsOwn'
    BY <2>1 DEF LimitInv, CarriesItsOwn
  <2>3. SavedByRequest'
    BY <2>1 DEF LimitInv, SavedByRequest
  <2>4. OneIn(records')
    BY <2>1 DEF LimitInv
  <2> QED BY <2>2, <2>3, <2>4
<1> HIDE DEF Kept
<1>13. Kept
  <2>1. ASSUME NEW c \in Requesters, NEW k \in Keys, Look(c, k) \/ Repeat(c, k)
        PROVE  Kept
    BY <1>1, <1>3, <2>1
  <2>2. ASSUME NEW c \in Requesters,
               \/ Open(c) \/ FindOpened(c) \/ Save(c) \/ SaveAgain(c) \/ Refuse(c) \/ Break(c)
               \/ Aim(c) \/ Queue(c) \/ Succeed(c) \/ Answer(c) \/ CutOff(c)
        PROVE  Kept
    BY <1>4, <1>5, <1>6, <1>7, <1>9, <1>10, <1>11, <2>2
  <2> QED BY <1>12, <2>1, <2>2 DEF LimitNext
<1> QED BY <1>13, LimitShapeKept DEF LimitInv, Kept

-----------------------------------------------------------------------------
(* What those who ask are promised.                                        *)

Fate == [k \in Keys |-> AsAnswered(StateOf(k))]
ToldOf(S) == {<<a[1], AsAnswered(a[2])>> : a \in S}

\* How the records change is how the fate of the request does.
LEMMA FateFollows ==
  /\ \A k \in Keys : Fate[k] = AsAnswered(StateIn(records, k))
  /\ UNCHANGED records => Fate' = Fate
  /\ \A k \in Keys : \A s :
       /\ StateIn(records', k) = s
       /\ \A l \in Keys \ {k} : StateIn(records', l) = StateIn(records, l)
       => Fate' = [Fate EXCEPT ![k] = AsAnswered(s)]
<1>1. Fate = [k \in Keys |-> AsAnswered(StateIn(records, k))]
  BY StateOfIs DEF Fate
<1>2. Fate' = [k \in Keys |-> AsAnswered(StateIn(records', k))]
  BY StateOfIs DEF Fate
<1>3. ASSUME UNCHANGED records PROVE Fate' = Fate
  BY <1>1, <1>2, <1>3
<1>4. ASSUME NEW k \in Keys, NEW s, StateIn(records', k) = s,
             \A l \in Keys \ {k} : StateIn(records', l) = StateIn(records, l)
      PROVE  Fate' = [Fate EXCEPT ![k] = AsAnswered(s)]
  BY <1>1, <1>2, <1>4
<1> QED BY <1>1, <1>3, <1>4

LEMMA Answers ==
  /\ AsAnswered("new") = "new" /\ AsAnswered("pending") = "open"
  /\ AsAnswered("succeeded") = "succeeded" /\ AsAnswered("failed") = "failed"
  /\ \A s \in {"new", "pending", "succeeded", "failed"} : AsAnswered(s) = "new" => s = "new"
BY DEF AsAnswered

LEMMA TellsAsItStands ==
  ASSUME LimitInv, NEW c, NEW k \in Keys, StateIn(records, k) # "new", Told(c, k),
         UNCHANGED <<records, saved>>
  PROVE  Outcomes!Tell(k)
<1>1. Fate[k] # "new" /\ Fate' = Fate
  <2>1. RecordsOf(k) # {} /\ StateIn(records, k) \in {"new", "pending", "succeeded", "failed"}
    BY NewHasNoRecord
  <2> QED BY <2>1, FateFollows, Answers
<1>2. ToldOf(answers)' = ToldOf(answers) \cup {<<k, Fate[k]>>}
  <2>1. answers' = answers \cup {<<k, StateIn(records, k)>>}
    BY StateOfIs DEF Told
  <2>2. Fate[k] = AsAnswered(StateIn(records, k))
    BY FateFollows
  <2> DEFINE x == <<k, StateIn(records, k)>>
             given(a) == <<a[1], AsAnswered(a[2])>>
  <2>3. given(x) = <<k, Fate[k]>>
    BY <2>2
  <2> HIDE DEF x
  <2>4. \A S : ToldOf(S \cup {x}) = ToldOf(S) \cup {given(x)}
    BY DEF ToldOf
  <2> QED BY <2>1, <2>3, <2>4 DEF x
<1> QED BY <1>1, <1>2 DEF Outcomes!Tell, Fate, ToldOf

LEMMA LimitStepsAreOutcomeSteps ==
  ASSUME LimitInv, [LimitNext]_limitVars
  PROVE  [Outcomes!OutcomesNext]_Outcomes!outcomeVars
<1> DEFINE Simulated == Outcomes!OutcomesNext \/ UNCHANGED Outcomes!outcomeVars
<1>1. ASSUME UNCHANGED <<records, saved, answers>>
      PROVE  Simulated
  <2>1. Fate' = Fate /\ ToldOf(answers)' = ToldOf(answers)
    BY <1>1, FateFollows DEF ToldOf
  <2> QED BY <1>1, <2>1 DEF Fate, ToldOf, Outcomes!outcomeVars
<1>2. ASSUME NEW c, NEW k \in Keys, StateIn(records, k) # "new", Told(c, k),
             UNCHANGED <<records, saved>>
      PROVE  Simulated
  BY <1>2, TellsAsItStands DEF Outcomes!OutcomesNext
<1>3. ASSUME NEW c \in Requesters, Open(c)
      PROVE  Simulated
  <2> DEFINE k == request[c].key
  <2>1. /\ RequestStep(c, "looked", "opened") /\ RecordsOf(k) = {}
        /\ saved' = saved /\ answers' = answers
        /\ records' = Append(records, [key |-> k, state |-> "pending"])
    BY <1>3 DEF Open, MayInsert
  <2>2. k \in Keys /\ StateIn(records, k) = "new"
    BY <2>1, NewHasNoRecord DEF RequestStep, LimitInv, CarriesItsOwn
  <2>3. /\ StateIn(records', k) = "pending"
        /\ \A l \in Keys \ {k} : StateIn(records', l) = StateIn(records, l)
    BY <2>1, <2>2, Opens
  <2> HIDE DEF k
  <2>4. Fate[k] = "new" /\ Fate' = [Fate EXCEPT ![k] = "open"]
    BY <2>2, <2>3, FateFollows, Answers
  <2>5. ToldOf(answers)' = ToldOf(answers)
    BY <2>1 DEF ToldOf
  <2>6. Outcomes!Begin(k)
    BY <2>1, <2>4, <2>5 DEF Outcomes!Begin, Fate, ToldOf
  <2> QED BY <2>2, <2>6 DEF Outcomes!OutcomesNext
<1>4. ASSUME NEW c \in Requesters, Save(c)
      PROVE  Simulated
  <2> DEFINE k == request[c].key
  <2>1. /\ RequestStep(c, "opened", "saved") /\ records' = records /\ answers' = answers
        /\ saved' = [saved EXCEPT ![k] = @ + 1]
    BY <1>4 DEF Save
  <2>2. k \in Keys /\ StateIn(records, k) = "pending" /\ saved[k] = 0
    BY <2>1 DEF RequestStep, LimitInv, CarriesItsOwn, CARRYING
  <2>3. saved' = [saved EXCEPT ![k] = 1]
    BY <2>1, <2>2
  <2> HIDE DEF k
  <2>4. Fate[k] = "open" /\ Fate' = Fate
    BY <2>1, <2>2, FateFollows, Answers
  <2>5. ToldOf(answers)' = ToldOf(answers)
    BY <2>1 DEF ToldOf
  <2>6. Outcomes!TakeEffect(k)
    BY <2>2, <2>3, <2>4, <2>5 DEF Outcomes!TakeEffect, Fate, ToldOf
  <2> QED BY <2>2, <2>6 DEF Outcomes!OutcomesNext
<1>5. ASSUME NEW c \in Requesters, NEW state \in {"succeeded", "failed"},
             request[c].at \in CARRYING, records' = Closed(request[c].key, state),
             saved' = saved, answers' = answers,
             state = "succeeded" => request[c].at = "deciding"
      PROVE  Simulated
  <2> DEFINE k == request[c].key
  <2>1. /\ k \in Keys /\ StateIn(records, k) = "pending"
        /\ state = "succeeded" => saved[k] = 1
    BY <1>5 DEF LimitInv, CarriesItsOwn, CARRYING
  <2>2. /\ StateIn(records', k) = state
        /\ \A l \in Keys \ {k} : StateIn(records', l) = StateIn(records, l)
    BY <1>5, <2>1, PendingIsRecorded, Closes
  <2> HIDE DEF k
  <2>3. Fate[k] = "open" /\ Fate' = [Fate EXCEPT ![k] = state]
    BY <2>1, <2>2, FateFollows, Answers
  <2>4. ToldOf(answers)' = ToldOf(answers)
    BY <1>5 DEF ToldOf
  <2>5. Outcomes!Decide(k, state)
    BY <1>5, <2>1, <2>3, <2>4 DEF Outcomes!Decide, Fate, ToldOf
  <2> QED BY <2>1, <2>5 DEF Outcomes!OutcomesNext
<1>6. ASSUME NEW c \in Requesters, NEW k \in Keys, Repeat(c, k)
      PROVE  Simulated
  BY <1>2, <1>6, NewHasNoRecord DEF Repeat
<1>7. ASSUME NEW c \in Requesters, FindOpened(c) \/ Answer(c)
      PROVE  Simulated
  <2>1. /\ request[c].key \in Keys /\ Told(c, request[c].key) /\ UNCHANGED <<records, saved>>
        /\ StateIn(records, request[c].key) # "new"
    BY <1>7, NewHasNoRecord DEF FindOpened, Answer, MayInsert, LimitInv, CarriesItsOwn
  <2> QED BY <1>2, <2>1
<1>8. ASSUME NEW c \in Requesters, Refuse(c) \/ Break(c)
      PROVE  Simulated
  BY <1>5, <1>8 DEF Refuse, Break, FailRequest, RequestStep, CARRYING
<1>9. ASSUME NEW c \in Requesters, Succeed(c)
      PROVE  Simulated
  BY <1>5, <1>9 DEF Succeed, RequestStep, CARRYING
<1>10. ASSUME NEW c \in Requesters, NEW k \in Keys, Look(c, k)
       PROVE  Simulated
  BY <1>1, <1>10 DEF Look
<1>11. ASSUME NEW c \in Requesters, SaveAgain(c) \/ Aim(c) \/ Queue(c) \/ CutOff(c)
       PROVE  Simulated
  BY <1>1, <1>11 DEF SaveAgain, Aim, Queue, CutOff
<1>12. ASSUME WriteRow \/ UNCHANGED limitVars
       PROVE  Simulated
  BY <1>1, <1>12 DEF WriteRow, limitVars
<1> HIDE DEF Simulated
<1>13. Simulated
  <2>1. ASSUME NEW c \in Requesters, NEW k \in Keys, Look(c, k) \/ Repeat(c, k)
        PROVE  Simulated
    BY <1>6, <1>10, <2>1
  <2>2. ASSUME NEW c \in Requesters,
               \/ Open(c) \/ FindOpened(c) \/ Save(c) \/ SaveAgain(c) \/ Refuse(c) \/ Break(c)
               \/ Aim(c) \/ Queue(c) \/ Succeed(c) \/ Answer(c) \/ CutOff(c)
        PROVE  Simulated
    BY <1>3, <1>4, <1>7, <1>8, <1>9, <1>11, <2>2
  <2> QED BY <1>12, <2>1, <2>2 DEF LimitNext
<1> QED BY <1>13 DEF Simulated

LEMMA OutcomesBegin ==
  ASSUME LimitInit
  PROVE  Outcomes!OutcomesInit
<1>1. \A k : StateOf(k) = "new"
  BY DEF LimitInit, StateOf, RecordsOf
<1> QED BY <1>1, Answers DEF LimitInit, Outcomes!OutcomesInit

\* A retry is safe (RequestOutcomes), for any number of threads and keys, whatever
\* else writes the row and wherever a request is cut off.
THEOREM RetriesAreSafe == LimitSpec => RetryIsSafe
<1>1. LimitInit => LimitInv /\ Outcomes!OutcomesInit
  BY LimitInitInv, OutcomesBegin
<1>2. LimitInv /\ [LimitNext]_limitVars => LimitInv'
  BY LimitInvKept
<1>3. LimitInv /\ [LimitNext]_limitVars => [Outcomes!OutcomesNext]_Outcomes!outcomeVars
  BY LimitStepsAreOutcomeSteps
<1> QED BY <1>1, <1>2, <1>3, PTL DEF LimitSpec, RetryIsSafe, Outcomes!OutcomesSpec

-----------------------------------------------------------------------------
(* Placements.                                                             *)

Stages == {"planned", "provisioning", "built", "removing", "absent"}
RebuildStages == {"no", "pending", "running"}
Places == {"rest", "place", "record", "look", "create", "remove", "replace", "erase"}
MaybeMemory == {NotAsked} \cup Memories
Windows == SUBSET (0 .. LargeCores - 1)

RowSet == [at : Stages, wanted : BOOLEAN, rebuild : RebuildStages,
           machine : Machines \cup {NoMachine}, window : Windows, memory : MaybeMemory,
           cores : {NotAsked} \cup Widths, own : MaybeMemory, measured : MaybeMemory]
UnitSet == [machine : Machines \cup {NoMachine}, window : Windows, memory : MaybeMemory]
PlacingSet == [at : Places, runner : Placed, unit : UnitSet]

PlacementShape ==
  /\ rows \in [Placed -> RowSet] /\ units \in [Placed -> UnitSet]
  /\ defaults \in [cores : Widths, memory : Memories]
  /\ placing \in PlacingSet /\ unchecked \in BOOLEAN

\* A set of numbers has a smallest one.
LEMMA LeastOf ==
  ASSUME NEW S \in SUBSET Nat, S # {}
  PROVE  \E x \in S : \A y \in S : x <= y
<1>1. \E x \in S : \A y \in S : ~(<<y, x>> \in OpToRel(<, Nat))
  BY NatLessThanWellFounded, WFMin
<1>2. PICK x \in S : \A y \in S : ~(<<y, x>> \in OpToRel(<, Nat))
  BY <1>1
<1>3. \A y \in S : ~(y < x)
  BY <1>2 DEF OpToRel
<1> QED BY <1>3

LEMMA CoresAre ==
  ASSUME NEW m
  PROVE  Cores(m) \in Nat \ {0} /\ Cores(m) <= LargeCores
BY PlacementAssumption DEF Cores

-----------------------------------------------------------------------------
(* A window is cut: there is one that overlaps the others least.           *)

LEMMA OnIsFinite ==
  ASSUME NEW m, NEW r
  PROVE  IsFiniteSet(On(m, r))
BY PlacementAssumption, FS_Subset DEF On

LEMMA CoverIsBounded ==
  ASSUME NEW core, NEW m, NEW r
  PROVE  Cover(core, m, r) \in 0 .. Cardinality(Placed)
<1>1. {other \in On(m, r) : core \in rows[other].window} \subseteq Placed
  BY DEF On
<1> QED BY <1>1, PlacementAssumption, FS_Subset, FS_CardinalityType DEF Cover

LEMMA PeakIsOne ==
  ASSUME NEW cores, cores # {}, NEW m, NEW r
  PROVE  Peak(cores, m, r) \in Nat
<1> DEFINE Bounds == {n \in 0 .. Cardinality(Placed) : \A core \in cores : Cover(core, m, r) <= n}
<1>1. Cardinality(Placed) \in Nat
  BY PlacementAssumption, FS_CardinalityType
<1>2. Cardinality(Placed) \in Bounds /\ Bounds \in SUBSET Nat
  BY <1>1, CoverIsBounded
<1>3. PICK n \in Bounds : \A k \in Bounds : n <= k
  BY <1>2, LeastOf
<1>4. \E core \in cores : Cover(core, m, r) = n
  <2>1. SUFFICES ASSUME \A core \in cores : Cover(core, m, r) # n PROVE FALSE
    OBVIOUS
  <2>2. n # 0
    BY <1>3, <2>1, CoverIsBounded
  <2>3. n - 1 \in Bounds
    <3>1. n - 1 \in 0 .. Cardinality(Placed)
      BY <1>1, <1>3, <2>2
    <3>2. ASSUME NEW core \in cores PROVE Cover(core, m, r) <= n - 1
      <4>1. Cover(core, m, r) \in 0 .. Cardinality(Placed) /\ Cover(core, m, r) <= n
        BY <1>3, CoverIsBounded
      <4> QED BY <1>1, <1>3, <2>1, <4>1
    <3> QED BY <3>1, <3>2
  <2> QED BY <1>1, <1>3, <2>3
<1>5. \E k \in 0 .. Cardinality(Placed) :
        /\ \E core \in cores : Cover(core, m, r) = k
        /\ \A core \in cores : Cover(core, m, r) <= k
  BY <1>3, <1>4
<1>6. Peak(cores, m, r) \in 0 .. Cardinality(Placed)
  BY <1>5 DEF Peak
<1> QED BY <1>1, <1>6

LEMMA WindowIs ==
  ASSUME NEW m, NEW width \in Widths, NEW start \in 0 .. Cores(m) - 1
  PROVE  /\ WindowAt(start, width, m) # {} /\ IsFiniteSet(WindowAt(start, width, m))
         /\ WindowAt(start, width, m) \subseteq 0 .. Cores(m) - 1
<1>1. Cores(m) \in Nat \ {0}
  BY CoresAre
<1>2. width \in Nat \ {0}
  BY PlacementAssumption DEF Widths
<1>3. WindowAt(start, width, m) \subseteq 0 .. Cores(m) - 1
  BY <1>1, <1>2 DEF WindowAt
<1>4. IsFiniteSet(0 .. Cores(m) - 1)
  BY <1>1, FS_Interval
<1>5. 0 \in 0 .. width - 1
  BY <1>2
<1>6. WindowAt(start, width, m) # {}
  BY <1>5 DEF WindowAt
<1> QED BY <1>3, <1>4, <1>6, FS_Subset

LEMMA TotalIsOne ==
  ASSUME NEW cores, IsFiniteSet(cores), NEW m, NEW r
  PROVE  Total(cores, m, r) \in Nat
<1>1. IsFiniteSet(cores \X On(m, r))
  BY OnIsFinite, FS_Product
<1>2. IsFiniteSet({use \in cores \X On(m, r) : use[1] \in rows[use[2]].window})
  BY <1>1, FS_Subset
<1> QED BY <1>2, FS_CardinalityType DEF Total

\* Of the starts with the lowest peak those with the lowest total, and of those the lowest.
LEMMA AllocatedIsAWindow ==
  ASSUME NEW m \in Machines, NEW r \in Placed, NEW width \in Widths
  PROVE  /\ Allocated(width, m, r) # {}
         /\ Allocated(width, m, r) \subseteq 0 .. Cores(m) - 1
<1> DEFINE Starts == 0 .. Cores(m) - 1
           window == [start \in Starts |-> WindowAt(start, width, m)]
           peak == [start \in Starts |-> Peak(window[start], m, r)]
           total == [start \in Starts |-> Total(window[start], m, r)]
<1>1. Cores(m) \in Nat \ {0} /\ 0 \in Starts /\ Starts \in SUBSET Nat
  BY CoresAre
<1>2. peak \in [Starts -> Nat] /\ total \in [Starts -> Nat]
  <2>1. ASSUME NEW start \in Starts PROVE peak[start] \in Nat /\ total[start] \in Nat
    <3>1. window[start] # {} /\ IsFiniteSet(window[start])
      BY WindowIs
    <3> QED BY <3>1, PeakIsOne, TotalIsOne
  <2> QED BY <2>1
<1>3. \A a, b \in Starts :
        Better(WindowAt(a, width, m), WindowAt(b, width, m), m, r) <=>
          peak[a] < peak[b] \/ (peak[a] = peak[b] /\ total[a] < total[b])
  <2>1. \A a \in Starts : /\ peak[a] = Peak(WindowAt(a, width, m), m, r)
                          /\ total[a] = Total(WindowAt(a, width, m), m, r)
    OBVIOUS
  <2> HIDE DEF peak, total
  <2> QED BY <2>1, Zenon DEF Better
<1>4. \E s \in Starts : \A other \in Starts :
        /\ ~(peak[other] < peak[s] \/ (peak[other] = peak[s] /\ total[other] < total[s]))
        /\ \/ peak[s] < peak[other] \/ (peak[s] = peak[other] /\ total[s] < total[other])
           \/ s <= other
  <2> HIDE DEF Starts, peak, total
  <2> DEFINE Peaks == {peak[start] : start \in Starts}
  <2>1. PICK p \in Peaks : \A n \in Peaks : p <= n
    <3>1. Peaks \in SUBSET Nat /\ Peaks # {}
      BY <1>1, <1>2
    <3> QED BY <3>1, LeastOf
  <2> DEFINE Lowest == {start \in Starts : peak[start] = p}
             Totals == {total[start] : start \in Lowest}
  <2>2. PICK t \in Totals : \A n \in Totals : t <= n
    <3>1. Totals \in SUBSET Nat /\ Totals # {}
      BY <1>2, <2>1
    <3> QED BY <3>1, LeastOf
  <2> DEFINE Flattest == {start \in Lowest : total[start] = t}
  <2>3. PICK s \in Flattest : \A n \in Flattest : s <= n
    <3>1. Flattest \in SUBSET Nat /\ Flattest # {}
      BY <1>1, <2>2
    <3> QED BY <3>1, LeastOf
  <2>4. s \in Starts /\ peak[s] = p /\ total[s] = t
    BY <2>3
  <2>5. ASSUME NEW other \in Starts
        PROVE  /\ ~(peak[other] < peak[s] \/ (peak[other] = peak[s] /\ total[other] < total[s]))
               /\ \/ peak[s] < peak[other] \/ (peak[s] = peak[other] /\ total[s] < total[other])
                  \/ s <= other
    <3>1. p <= peak[other]
      BY <2>1
    <3>2. peak[other] = p => t <= total[other]
      BY <2>2
    <3>3. peak[other] = p /\ total[other] = t => s <= other
      BY <2>3
    <3>4. p \in Nat /\ t \in Nat /\ peak[other] \in Nat /\ total[other] \in Nat
      BY <1>2, <2>4
    <3> QED BY <2>4, <3>1, <3>2, <3>3, <3>4
  <2> QED BY <2>4, <2>5
<1>5. \E start \in Starts : \A other \in Starts :
        /\ ~Better(WindowAt(other, width, m), WindowAt(start, width, m), m, r)
        /\ Better(WindowAt(start, width, m), WindowAt(other, width, m), m, r) \/ start <= other
  <2> HIDE DEF peak, total
  <2> QED BY <1>3, <1>4
<1>6. \E start \in Starts : Allocated(width, m, r) = WindowAt(start, width, m)
  BY <1>5 DEF Allocated
<1> QED BY <1>6, WindowIs

-----------------------------------------------------------------------------
(* The invariant.                                                          *)

\* A runner that has a machine.
HasPlace(r) == rows[r].at \notin {"planned", "absent"}

\* What a runner may come to use before anybody looks for room again.
Claim(r) ==
  IF rows[r].at = "provisioning"
  THEN IF units[r].memory > Memory(r) THEN units[r].memory ELSE Memory(r)
  ELSE IF WorksOn(r) /\ placing.at \in {"remove", "replace"}
  THEN IF units[r].memory > Replaced(r) THEN units[r].memory ELSE Replaced(r)
  ELSE units[r].memory

OnMachine(m) == {r \in Placed : rows[r].machine = m}
ClaimedOn(m) == {piece \in OnMachine(m) \X Memories : piece[2] <= Claim(piece[1])}

\* A row says where its unit is, and has a window of that machine if it has one.
RowHolds(r) ==
  /\ ~HasPlace(r) => rows[r].machine = NoMachine /\ units[r] = NoUnitYet
  /\ HasPlace(r) => rows[r].machine \in Machines /\ rows[r].memory # NotAsked
  /\ rows[r].window \subseteq
       IF rows[r].machine = NoMachine THEN {} ELSE 0 .. Cores(rows[r].machine) - 1
  /\ units[r] # NoUnitYet => units[r].machine = rows[r].machine
RowsHold == \A r \in Placed : RowHolds(r)

\* Where the runner is that the pass works on.  What is to be built is what is on record.
WorkHolds ==
  /\ Working("place") => rows[Mine].at = "planned" /\ rows[Mine].memory # NotAsked
  /\ placing.at \in {"look", "create", "record"} => rows[Mine].at = "provisioning"
  /\ placing.at \in {"remove", "replace", "erase"} => rows[Mine].at = "removing"
  /\ placing.at \in {"replace", "create"} => units[Mine] = NoUnitYet
  /\ Working("create") =>
       /\ placing.unit.machine = rows[Mine].machine /\ placing.unit.window = rows[Mine].window
       /\ rows[Mine].window # {}
       /\ ~unchecked => placing.unit.memory = Memory(Mine)

SlotsHold == \A m \in Machines : Cardinality(OnMachine(m)) <= Slots(m)
ReserveHolds == ~unchecked => \A r \in Placed : units[r].memory <= Reserved(r)
ClaimsHold == ~unchecked => \A m \in Machines : Cardinality(ClaimedOn(m)) <= MemoryBudget

PlacementInv ==
  /\ PlacementShape /\ RowsHold /\ WorkHolds /\ SlotsHold /\ ReserveHolds /\ ClaimsHold

LEMMA NumbersAre ==
  ASSUME PlacementShape, NEW r \in Placed
  PROVE  /\ Memory(r) \in Memories /\ Replaced(r) \in Memories /\ Width(r) \in Widths
         /\ Reserved(r) \in Memories /\ Reserved(r) >= Memory(r)
         /\ Reserved(r) >= rows[r].measured
         /\ units[r].memory \in 0 .. MaxMemory /\ rows[r].measured \in 0 .. MaxMemory
<1>1. rows[r] \in RowSet /\ units[r] \in UnitSet
  BY DEF PlacementShape
<1>2. /\ rows[r].cores \in {NotAsked} \cup Widths /\ rows[r].own \in MaybeMemory
      /\ rows[r].memory \in MaybeMemory /\ rows[r].measured \in MaybeMemory
      /\ units[r].memory \in MaybeMemory
  BY <1>1 DEF RowSet, UnitSet
<1>3. defaults.cores \in Widths /\ defaults.memory \in Memories
  BY DEF PlacementShape
<1>4. Memory(r) \in Memories /\ Replaced(r) \in Memories
  BY <1>2, <1>3 DEF Memory, Replaced, MaybeMemory
<1>5. Width(r) \in Widths
  BY <1>2, <1>3 DEF Width
<1>6. MaybeMemory = 0 .. MaxMemory
  BY PlacementAssumption DEF MaybeMemory, Memories, NotAsked
<1>7. /\ Reserved(r) \in Memories /\ Reserved(r) >= Memory(r)
      /\ Reserved(r) >= rows[r].measured
  BY <1>2, <1>4, <1>6 DEF Reserved, Memories
<1> QED BY <1>2, <1>4, <1>5, <1>6, <1>7

LEMMA ClaimIsNumber ==
  ASSUME PlacementShape, NEW r \in Placed
  PROVE  Claim(r) \in 0 .. MaxMemory
BY NumbersAre DEF Claim, Memories

LEMMA PiecesAreFinite ==
  ASSUME NEW S, S \subseteq Placed \X Memories
  PROVE  IsFiniteSet(S)
<1>1. IsFiniteSet(Memories)
  BY PlacementAssumption, FS_Interval DEF Memories
<1> QED BY <1>1, PlacementAssumption, FS_Product, FS_Subset

\* A row is written.
LEMMA RowIsWritten ==
  ASSUME PlacementShape, NEW r \in Placed, NEW row \in RowSet, OnRow(r, row)
  PROVE  /\ rows' \in [Placed -> RowSet] /\ rows'[r] = row
         /\ \A other \in Placed \ {r} : rows'[other] = rows[other]
BY DEF PlacementShape, OnRow

\* Nobody is placed anywhere.
LEMMA SlotsStay ==
  ASSUME PlacementInv, \A r \in Placed : rows'[r].machine \in {rows[r].machine, NoMachine}
  PROVE  SlotsHold'
<1> SUFFICES ASSUME NEW m \in Machines PROVE Cardinality(OnMachine(m)') <= Slots(m)
  BY DEF SlotsHold, Slots, Cores
<1>1. OnMachine(m)' \subseteq OnMachine(m)
  BY PlacementAssumption DEF OnMachine
<1>2. IsFiniteSet(OnMachine(m))
  BY PlacementAssumption, FS_Subset DEF OnMachine
<1>3. Cardinality(OnMachine(m)') <= Cardinality(OnMachine(m))
  BY <1>1, <1>2, FS_Subset
<1>4. Cardinality(OnMachine(m)) <= Slots(m) /\ Slots(m) \in Nat
  BY CoresAre DEF PlacementInv, SlotsHold, Slots
<1>5. Cardinality(OnMachine(m)) \in Nat /\ Cardinality(OnMachine(m)') \in Nat
  BY <1>1, <1>2, FS_Subset, FS_CardinalityType
<1> QED BY <1>3, <1>4, <1>5

\* Nobody is placed anywhere, and nobody claims more.
LEMMA ClaimsStay ==
  ASSUME PlacementInv, unchecked => unchecked',
         ~unchecked' => \A r \in Placed :
           \/ rows'[r].machine = NoMachine
           \/ rows'[r].machine = rows[r].machine /\ Claim(r)' \in 0 .. Claim(r)
  PROVE  ClaimsHold'
<1> SUFFICES ASSUME ~unchecked', NEW m \in Machines
             PROVE  Cardinality(ClaimedOn(m)') <= MemoryBudget
  BY DEF ClaimsHold
<1>1. \A r \in Placed : Claim(r) \in 0 .. MaxMemory
  BY ClaimIsNumber DEF PlacementInv
<1>2. ClaimedOn(m)' \subseteq ClaimedOn(m)
  <2>1. ASSUME NEW r \in Placed, NEW n \in Memories, rows'[r].machine = m, n <= Claim(r)'
        PROVE  rows[r].machine = m /\ n <= Claim(r)
    <3>1. rows'[r].machine = rows[r].machine /\ Claim(r)' \in 0 .. Claim(r)
      BY <2>1, PlacementAssumption
    <3>2. Claim(r) \in Nat /\ n \in Nat
      BY <1>1, PlacementAssumption DEF Memories
    <3> QED BY <2>1, <3>1, <3>2
  <2> QED BY <2>1 DEF ClaimedOn, OnMachine
<1>3. IsFiniteSet(ClaimedOn(m))
  BY PiecesAreFinite DEF ClaimedOn, OnMachine
<1>4. Cardinality(ClaimedOn(m)') <= Cardinality(ClaimedOn(m))
      /\ Cardinality(ClaimedOn(m)') \in Nat /\ Cardinality(ClaimedOn(m)) \in Nat
  BY <1>2, <1>3, FS_Subset, FS_CardinalityType
<1> QED BY <1>4, PlacementAssumption DEF PlacementInv, ClaimsHold

LEMMA ClaimCoversUnit ==
  ASSUME PlacementShape, NEW r \in Placed
  PROVE  units[r].memory \in 0 .. Claim(r) /\ 0 \in 0 .. Claim(r) /\ Claim(r) \in 0 .. Claim(r)
BY NumbersAre DEF Claim, Memories

\* A runner is given room that was there, and nobody else claims more than is reserved.
LEMMA RoomIsClaimed ==
  ASSUME PlacementInv, NEW r \in Placed, NEW m \in Machines, NEW n \in Memories,
         Cardinality(ReservedOn(m, r)) + n <= MemoryBudget,
         Claim(r)' = n, unchecked => unchecked',
         \A other \in Placed \ {r} :
           rows'[other].machine = rows[other].machine /\ Claim(other)' \in 0 .. Reserved(other)
  PROVE  Cardinality(ClaimedOn(m)') <= MemoryBudget
<1> DEFINE Own == {r} \X (1 .. n)
<1>1. n \in Nat /\ n <= MaxMemory
  BY PlacementAssumption DEF Memories
<1>2. ClaimedOn(m)' \subseteq ReservedOn(m, r) \cup Own
  <2>1. ASSUME NEW other \in Placed, NEW k \in Memories, rows'[other].machine = m,
               k <= Claim(other)'
        PROVE  <<other, k>> \in ReservedOn(m, r) \cup Own
    <3>1. k \in Nat /\ k >= 1
      BY PlacementAssumption DEF Memories
    <3>2. CASE other = r
      BY <1>1, <2>1, <3>1, <3>2
    <3>3. CASE other # r
      <4>1. rows[other].machine = m /\ Claim(other)' \in 0 .. Reserved(other)
        BY <2>1, <3>3
      <4>2. k <= Reserved(other)
        <5>1. Reserved(other) \in Nat
          BY NumbersAre, PlacementAssumption DEF PlacementInv, Memories
        <5> QED BY <2>1, <3>1, <4>1, <5>1
      <4>3. rows[other].at # "absent"
        BY <4>1, PlacementAssumption DEF PlacementInv, RowsHold, RowHolds, HasPlace
      <4> QED BY <3>3, <4>1, <4>2, <4>3 DEF ReservedOn, On
    <3> QED BY <3>2, <3>3
  <2> QED BY <2>1 DEF ClaimedOn, OnMachine
<1>3. IsFiniteSet(Own) /\ Cardinality(Own) = n
  <2>1. IsFiniteSet(1 .. n) /\ Cardinality(1 .. n) = n
    BY <1>1, FS_Interval
  <2>2. IsFiniteSet({r}) /\ Cardinality({r}) = 1
    BY FS_Singleton
  <2> QED BY <1>1, <2>1, <2>2, FS_Product
<1>4. IsFiniteSet(ReservedOn(m, r))
  BY PiecesAreFinite DEF ReservedOn, On
<1> HIDE DEF Own
<1> DEFINE Both == ReservedOn(m, r) \cup Own
<1>5. IsFiniteSet(Both) /\ Cardinality(Both) <= Cardinality(ReservedOn(m, r)) + n
  <2>1. IsFiniteSet(ReservedOn(m, r) \cap Own)
    BY <1>3, FS_Subset
  <2>2. Cardinality(ReservedOn(m, r) \cap Own) \in Nat
    BY <2>1, FS_CardinalityType
  <2>3. Cardinality(ReservedOn(m, r)) \in Nat
    BY <1>4, FS_CardinalityType
  <2>4. IsFiniteSet(Both)
        /\ Cardinality(Both) = Cardinality(ReservedOn(m, r)) + Cardinality(Own)
                               - Cardinality(ReservedOn(m, r) \cap Own)
    BY <1>3, <1>4, FS_Union
  <2> HIDE DEF Both
  <2> QED BY <1>1, <1>3, <2>2, <2>3, <2>4
<1>6. Cardinality(ClaimedOn(m)') <= Cardinality(Both) /\ Cardinality(ClaimedOn(m)') \in Nat
      /\ Cardinality(Both) \in Nat /\ Cardinality(ReservedOn(m, r)) \in Nat
  BY <1>2, <1>4, <1>5, FS_Subset, FS_CardinalityType
<1> QED BY <1>1, <1>5, <1>6, PlacementAssumption

LEMMA NotPlacingIs ==
  PlacementShape => /\ NotPlacing \in PlacingSet /\ NoUnitYet \in UnitSet
                    /\ NotPlacing.at = "rest" /\ NoUnitYet.memory = 0
                    /\ NoUnitYet.machine = NoMachine
<1>1. NoUnitYet \in UnitSet
  BY DEF NoUnitYet, UnitSet, MaybeMemory, Windows
<1>2. (CHOOSE r \in Placed : TRUE) \in Placed
  BY PlacementAssumption
<1> QED BY <1>1, <1>2 DEF NotPlacing, PlacingSet, Places, NoUnitYet, NotAsked

\* What requests and turns touch of a row is of no matter here; nor is it if the pass
\* leaves the runner as it is.
LEMMA RequestsTouchLittle ==
  ASSUME PlacementInv, rows' \in [Placed -> RowSet],
         UNCHANGED <<units, defaults, unchecked>>, placing' \in {placing, NotPlacing},
         \A r \in Placed :
           /\ rows'[r].at = rows[r].at /\ rows'[r].machine = rows[r].machine
           /\ rows'[r].window = rows[r].window /\ rows'[r].memory = rows[r].memory
           /\ rows'[r].own = rows[r].own /\ rows'[r].measured = rows[r].measured
  PROVE  PlacementInv'
<1> USE DEF PlacementInv
<1>1. PlacementShape'
  BY NotPlacingIs DEF PlacementShape
<1>2. RowsHold'
  BY DEF RowsHold, RowHolds, HasPlace, Cores
<1>3. Mine \in Placed
  BY DEF PlacementShape, PlacingSet, Mine
<1>4. \A r \in Placed : Memory(r)' = Memory(r) /\ Replaced(r)' = Replaced(r)
  BY DEF Memory, Replaced
<1>5. WorkHolds'
  <2>1. CASE placing' = placing
    BY <1>3, <1>4, <2>1 DEF WorkHolds, Working, Mine
  <2>2. CASE placing' = NotPlacing
    BY <2>2, NotPlacingIs DEF WorkHolds, Working
  <2> QED BY <2>1, <2>2
<1>6. SlotsHold'
  BY SlotsStay
<1>7. \A r \in Placed : Reserved(r)' = Reserved(r)
  BY <1>4 DEF Reserved
<1>8. ReserveHolds'
  BY <1>7 DEF ReserveHolds
<1>9. ClaimsHold'
  <2>1. \A r \in Placed : Claim(r)' \in {Claim(r), units[r].memory}
    <3>1. CASE placing' = placing
      BY <1>4, <3>1 DEF Claim, WorksOn, Working, Mine
    <3>2. CASE placing' = NotPlacing
      BY <1>4, <3>2, NotPlacingIs DEF Claim, WorksOn, Working
    <3> QED BY <3>1, <3>2
  <2>2. \A r \in Placed : Claim(r)' \in 0 .. Claim(r)
    BY <2>1, ClaimCoversUnit
  <2> QED BY <2>2, ClaimsStay
<1> QED BY <1>1, <1>2, <1>5, <1>6, <1>8, <1>9

LEMMA BeginRebuildKeeps ==
  ASSUME PlacementInv, NEW r \in Placed, BeginRebuild(r) PROVE PlacementInv'
<1> USE DEF PlacementInv
<1>1. rows' \in [Placed -> RowSet]
      /\ \A other \in Placed : \E rebuild \in RebuildStages :
           rows'[other] = [rows[other] EXCEPT !.rebuild = rebuild]
  BY DEF BeginRebuild, Halts, OnRow, PlacementShape, RowSet, RebuildStages
<1>2. UNCHANGED <<units, defaults, placing, unchecked>>
  BY DEF BeginRebuild
<1> QED BY <1>1, <1>2, RequestsTouchLittle DEF PlacementShape, RowSet

LEMMA RecreateKeeps ==
  ASSUME PlacementInv, NEW r \in Placed, Recreate(r) PROVE PlacementInv'
<1> USE DEF PlacementInv
<1>1. rows' \in [Placed -> RowSet]
      /\ \A other \in Placed : \E rebuild \in RebuildStages :
           rows'[other] = [rows[other] EXCEPT !.rebuild = rebuild]
  BY DEF Recreate, OnRow, PlacementShape, RowSet, RebuildStages
<1>2. UNCHANGED <<units, defaults, placing, unchecked>>
  BY DEF Recreate
<1> QED BY <1>1, <1>2, RequestsTouchLittle DEF PlacementShape, RowSet

LEMMA RetireKeeps ==
  ASSUME PlacementInv, NEW r \in Placed, RetirePlaced(r) PROVE PlacementInv'
<1> USE DEF PlacementInv
<1>0. rows \in [Placed -> RowSet] /\ rows' = [rows EXCEPT ![r] = [rows[r] EXCEPT !.wanted = FALSE]]
  BY DEF RetirePlaced, OnRow, PlacementShape
<1>1. rows' \in [Placed -> RowSet]
      /\ \A other \in Placed : \E wanted \in BOOLEAN :
           rows'[other] = [rows[other] EXCEPT !.wanted = wanted]
  <2> HIDE DEF PlacementInv
  <2>1. [rows[r] EXCEPT !.wanted = FALSE] \in RowSet
    BY <1>0 DEF RowSet
  <2>2. \A other \in Placed : rows[other] = [rows[other] EXCEPT !.wanted = rows[other].wanted]
                             /\ rows[other].wanted \in BOOLEAN
    BY <1>0 DEF RowSet
  <2>3. \A other \in Placed :
          rows'[other] = IF other = r THEN [rows[r] EXCEPT !.wanted = FALSE] ELSE rows[other]
    BY <1>0
  <2> QED BY <1>0, <2>1, <2>2, <2>3
<1>2. UNCHANGED <<units, defaults, placing, unchecked>>
  BY DEF RetirePlaced
<1> QED BY <1>1, <1>2, RequestsTouchLittle DEF PlacementShape, RowSet

\* The pass leaves the runner as it is.
LEMMA PassStopsKeeps ==
  ASSUME PlacementInv, UNCHANGED <<rows, units, defaults, unchecked>>, placing' = NotPlacing
  PROVE  PlacementInv'
BY RequestsTouchLittle DEF PlacementInv, PlacementShape

\* A rebuild is called off, with those that wait for it.
LEMMA HaltsKeeps ==
  ASSUME PlacementInv, NEW r \in Placed, Halts(r), UNCHANGED <<units, defaults, unchecked>>,
         placing' \in {placing, NotPlacing}
  PROVE  PlacementInv'
<1>1. rows' \in [Placed -> RowSet]
      /\ \A other \in Placed : \E rebuild \in RebuildStages :
           rows'[other] = [rows[other] EXCEPT !.rebuild = rebuild]
  BY DEF Halts, PlacementInv, PlacementShape, RowSet, RebuildStages
<1> QED BY <1>1, RequestsTouchLittle DEF PlacementInv, PlacementShape, RowSet

\* What a step does to the row it writes, and to the unit, is all that has to be looked at.
LEMMA OtherRowsHold ==
  ASSUME PlacementInv, NEW r \in Placed, PlacementShape', RowHolds(r)',
         \A other \in Placed \ {r} : rows'[other] = rows[other] /\ units'[other] = units[other]
  PROVE  RowsHold'
BY DEF PlacementInv, RowsHold, RowHolds, HasPlace, Cores

LEMMA OthersReserve ==
  ASSUME PlacementInv, NEW r \in Placed, unchecked => unchecked',
         ~unchecked' => units'[r].memory <= Reserved(r)', defaults' = defaults,
         \A other \in Placed \ {r} : rows'[other] = rows[other] /\ units'[other] = units[other]
  PROVE  ReserveHolds'
<1>1. \A other \in Placed \ {r} : Reserved(other)' = Reserved(other)
  BY DEF Reserved, Memory
<1> QED BY <1>1 DEF PlacementInv, ReserveHolds

\* What others claim is as it was: the pass works on r, or on nobody, before and after.
LEMMA OthersClaim ==
  ASSUME PlacementInv, NEW r \in Placed, NEW other \in Placed \ {r}, defaults' = defaults,
         rows'[other] = rows[other], units'[other] = units[other],
         Working("rest") \/ Mine = r, Working("rest")' \/ Mine' = r
  PROVE  Claim(other)' = Claim(other)
BY DEF Claim, Memory, Replaced, WorksOn, Working, Mine

\* A step on r that gives it no machine and no more than it claimed.
LEMMA ClaimsOfOneStay ==
  ASSUME PlacementInv, NEW r \in Placed, defaults' = defaults, unchecked => unchecked',
         \A other \in Placed \ {r} : rows'[other] = rows[other] /\ units'[other] = units[other],
         Working("rest") \/ Mine = r, Working("rest")' \/ Mine' = r,
         \/ rows'[r].machine = NoMachine
         \/ rows'[r].machine = rows[r].machine /\ (~unchecked' => Claim(r)' \in 0 .. Claim(r))
  PROVE  SlotsHold' /\ ClaimsHold'
<1>1. \A other \in Placed \ {r} :
        rows'[other].machine = rows[other].machine /\ Claim(other)' \in 0 .. Claim(other)
  <2>1. ASSUME NEW other \in Placed \ {r} PROVE Claim(other)' = Claim(other)
    BY OthersClaim
  <2> QED BY <2>1, ClaimCoversUnit DEF PlacementInv
<1>2. SlotsHold'
  BY <1>1, SlotsStay
<1>3. ClaimsHold'
  BY <1>1, ClaimsStay
<1> QED BY <1>2, <1>3

LEMMA MeasureKeeps ==
  ASSUME PlacementInv, NEW r \in Placed, Measure(r) PROVE PlacementInv'
<1> USE DEF PlacementInv
<1> DEFINE row == [rows[r] EXCEPT !.measured = units[r].memory]
<1>1. UNCHANGED <<units, defaults, placing, unchecked>> /\ OnRow(r, row)
  BY DEF Measure
<1>2. row \in RowSet
  BY DEF PlacementShape, RowSet, UnitSet
<1>3. /\ rows' \in [Placed -> RowSet] /\ rows'[r] = row
      /\ \A other \in Placed \ {r} : rows'[other] = rows[other]
  BY <1>1, <1>2, RowIsWritten
<1>4. PlacementShape'
  BY <1>1, <1>3 DEF PlacementShape
<1>5. /\ row.at = rows[r].at /\ row.machine = rows[r].machine /\ row.window = rows[r].window
      /\ row.memory = rows[r].memory /\ row.own = rows[r].own
      /\ row.measured = units[r].memory
  BY DEF PlacementShape, RowSet
<1> HIDE DEF row
<1>6. RowsHold'
  BY <1>1, <1>3, <1>5 DEF RowsHold, RowHolds, HasPlace, Cores
<1>7. Mine \in Placed
  BY DEF PlacementShape, PlacingSet, Mine
<1>8. \A other \in Placed : Memory(other)' = Memory(other) /\ Replaced(other)' = Replaced(other)
  BY <1>1, <1>3, <1>5 DEF Memory, Replaced
<1>9. WorkHolds'
  <2>1. /\ rows'[Mine].at = rows[Mine].at /\ rows'[Mine].memory = rows[Mine].memory
        /\ rows'[Mine].machine = rows[Mine].machine /\ rows'[Mine].window = rows[Mine].window
    BY <1>3, <1>5, <1>7
  <2> QED BY <1>1, <1>7, <1>8, <2>1 DEF WorkHolds, Working, Mine
<1>10. ReserveHolds'
  <2>1. Reserved(r)' >= units[r].memory
    BY <1>3, <1>5, <1>8, NumbersAre DEF Reserved, Memories
  <2>2. \A other \in Placed \ {r} : Reserved(other)' = Reserved(other)
    BY <1>3, <1>8 DEF Reserved
  <2>3. units[r].memory <= Reserved(r)'
    BY <1>3, <1>5, <1>8, NumbersAre DEF Reserved, Memories
  <2> QED BY <1>1, <2>2, <2>3 DEF ReserveHolds
<1>11. SlotsHold'
  BY <1>3, <1>5, SlotsStay
<1>12. ClaimsHold'
  <2>1. \A other \in Placed : Claim(other)' = Claim(other) /\ Claim(other) \in 0 .. Claim(other)
                              /\ rows'[other].machine = rows[other].machine
    BY <1>1, <1>3, <1>5, <1>8, ClaimCoversUnit DEF Claim, WorksOn, Working, Mine
  <2> QED BY <1>1, <2>1, ClaimsStay
<1> QED BY <1>4, <1>6, <1>9, <1>10, <1>11, <1>12

\* A limit is set: it is flagged if it may be built, or reserved, unchecked.
LEMMA SetLimitsKeeps ==
  ASSUME PlacementInv, NEW r \in Placed, SetLimits(r) PROVE PlacementInv'
<1> USE DEF PlacementInv
<1>1. CASE \E cores \in {NotAsked} \cup Widths :
             OnRow(r, [rows[r] EXCEPT !.cores = cores]) /\ UNCHANGED unchecked
  <2>1. PICK cores \in {NotAsked} \cup Widths :
          OnRow(r, [rows[r] EXCEPT !.cores = cores]) /\ UNCHANGED unchecked
    BY <1>1
  <2>2. [rows[r] EXCEPT !.cores = cores] \in RowSet
    BY DEF PlacementShape, RowSet
  <2>3. /\ rows' \in [Placed -> RowSet] /\ rows'[r] = [rows[r] EXCEPT !.cores = cores]
        /\ \A other \in Placed \ {r} : rows'[other] = rows[other]
    BY <2>1, <2>2, RowIsWritten
  <2> QED BY <2>1, <2>3, RequestsTouchLittle DEF SetLimits, PlacementShape, RowSet
<1>2. CASE \E memory \in MaybeMemory :
             /\ OnRow(r, [rows[r] EXCEPT !.own = memory])
             /\ unchecked' = (unchecked \/ rows[r].at = "provisioning" \/ WorksOn(r)
                                        \/ rows[r].measured < units[r].memory)
  <2>1. PICK memory \in MaybeMemory :
          /\ OnRow(r, [rows[r] EXCEPT !.own = memory])
          /\ unchecked' = (unchecked \/ rows[r].at = "provisioning" \/ WorksOn(r)
                                     \/ rows[r].measured < units[r].memory)
    BY <1>2
  <2> DEFINE row == [rows[r] EXCEPT !.own = memory]
  <2>2. UNCHANGED <<units, defaults, placing>> /\ unchecked' \in BOOLEAN
    BY <2>1 DEF SetLimits
  <2>3. row \in RowSet
    BY DEF PlacementShape, RowSet
  <2>4. /\ rows' \in [Placed -> RowSet] /\ rows'[r] = row
        /\ \A other \in Placed \ {r} : rows'[other] = rows[other]
    BY <2>1, <2>3, RowIsWritten
  <2>5. PlacementShape'
    BY <2>2, <2>4 DEF PlacementShape
  <2>6. /\ row.at = rows[r].at /\ row.machine = rows[r].machine /\ row.window = rows[r].window
        /\ row.memory = rows[r].memory /\ row.measured = rows[r].measured
    BY DEF PlacementShape, RowSet
  <2> HIDE DEF row
  <2>7. RowsHold'
    BY <2>2, <2>4, <2>6 DEF RowsHold, RowHolds, HasPlace, Cores
  <2>8. Mine \in Placed
    BY DEF PlacementShape, PlacingSet, Mine
  <2>9. \A other \in Placed \ {r} : Memory(other)' = Memory(other)
                                    /\ Replaced(other)' = Replaced(other)
    BY <2>2, <2>4 DEF Memory, Replaced
  <2>10. WorkHolds'
    <3>1. /\ rows'[Mine].at = rows[Mine].at /\ rows'[Mine].memory = rows[Mine].memory
          /\ rows'[Mine].machine = rows[Mine].machine
          /\ rows'[Mine].window = rows[Mine].window
      BY <2>4, <2>6, <2>8
    <3>2. ~unchecked' /\ Working("create") => Mine # r
      BY <2>1 DEF WorksOn, Working
    <3> QED BY <2>1, <2>2, <2>8, <2>9, <3>1, <3>2 DEF WorkHolds, Working, Mine
  <2>11. ReserveHolds'
    <3>1. ASSUME ~unchecked' PROVE units[r].memory <= Reserved(r)'
      <4>1. Memory(r)' \in Memories
        BY <2>2, <2>4 DEF Memory, MaybeMemory, PlacementShape, RowSet
      <4>2. units[r].memory <= rows'[r].measured
        <5>1. ~(rows[r].measured < units[r].memory)
          BY <2>1, <3>1, Zenon
        <5>2. units[r].memory \in 0 .. MaxMemory /\ rows[r].measured \in 0 .. MaxMemory
          BY NumbersAre
        <5> QED BY <2>4, <2>6, <5>1, <5>2, PlacementAssumption
      <4>3. /\ units[r].memory \in 0 .. MaxMemory /\ rows[r].measured \in 0 .. MaxMemory
            /\ rows'[r].measured = rows[r].measured
        BY <2>4, <2>6, NumbersAre
      <4>4. Reserved(r)' \in {rows'[r].measured, Memory(r)'}
            /\ (rows'[r].measured > Memory(r)' => Reserved(r)' = rows'[r].measured)
        BY DEF Reserved
      <4>5. Memory(r)' \in Nat
        BY <4>1, PlacementAssumption DEF Memories
      <4> QED BY <4>2, <4>3, <4>4, <4>5, PlacementAssumption
    <3>2. \A other \in Placed \ {r} : Reserved(other)' = Reserved(other)
      BY <2>4, <2>9 DEF Reserved
    <3> QED BY <2>1, <2>2, <3>1, <3>2 DEF ReserveHolds
  <2>12. SlotsHold'
    BY <2>4, <2>6, SlotsStay
  <2>13. ClaimsHold'
    <3>1. ASSUME ~unchecked', NEW other \in Placed PROVE Claim(other)' = Claim(other)
      <4>1. CASE other = r
        BY <2>1, <2>2, <2>4, <2>6, <3>1, <4>1 DEF Claim, WorksOn, Working, Mine
      <4>2. CASE other # r
        BY <2>2, <2>4, <2>9, <4>2 DEF Claim, WorksOn, Working, Mine
      <4> QED BY <4>1, <4>2
    <3>2. \A other \in Placed : Claim(other) \in 0 .. Claim(other)
                                /\ rows'[other].machine = rows[other].machine
      BY <2>4, <2>6, ClaimCoversUnit
    <3> QED BY <2>1, <3>1, <3>2, ClaimsStay
  <2> QED BY <2>5, <2>7, <2>10, <2>11, <2>12, <2>13
<1> QED BY <1>1, <1>2 DEF SetLimits, MaybeMemory

LEMMA SetDefaultsKeeps ==
  ASSUME PlacementInv, SetDefaults PROVE PlacementInv'
<1> USE DEF PlacementInv
<1>1. /\ UNCHANGED <<rows, units, placing>> /\ unchecked' \in BOOLEAN
      /\ defaults' \in [cores : Widths, memory : Memories]
      /\ (unchecked => unchecked')
      /\ (~unchecked' => \/ defaults'.memory = defaults.memory
                         \/ (~Working("remove") /\ ~Working("replace")))
  <2>1. CASE \E cores \in Widths :
               defaults' = [defaults EXCEPT !.cores = cores] /\ UNCHANGED unchecked
    BY <2>1 DEF SetDefaults, PlacementShape
  <2>2. CASE \E memory \in Memories :
               /\ defaults' = [defaults EXCEPT !.memory = memory]
               /\ unchecked' = (unchecked \/ Working("remove") \/ Working("replace"))
    <3>1. unchecked' \in BOOLEAN /\ (unchecked => unchecked')
          /\ (~unchecked' => ~Working("remove") /\ ~Working("replace"))
      BY <2>2, Zenon DEF PlacementShape
    <3>2. defaults' \in [cores : Widths, memory : Memories]
      BY <2>2 DEF PlacementShape
    <3> QED BY <3>1, <3>2 DEF SetDefaults
  <2> QED BY <2>1, <2>2 DEF SetDefaults
<1>2. PlacementShape' /\ RowsHold'
  BY <1>1 DEF PlacementShape, RowsHold, RowHolds, HasPlace, Cores
<1>3. \A r \in Placed : rows[r].memory # NotAsked => Memory(r)' = Memory(r)
  BY <1>1 DEF Memory
<1>4. Mine \in Placed
  BY DEF PlacementShape, PlacingSet, Mine
<1>5. WorkHolds'
  <2>1. Working("create") => rows[Mine].memory # NotAsked
    BY <1>4 DEF WorkHolds, Working, RowsHold, RowHolds, HasPlace
  <2> QED BY <1>1, <1>3, <1>4, <2>1 DEF WorkHolds, Working, Mine
<1>6. SlotsHold'
  BY <1>1, SlotsStay
<1>7. ReserveHolds'
  <2>1. ASSUME ~unchecked', NEW r \in Placed PROVE units[r].memory <= Reserved(r)'
    <3>1. CASE HasPlace(r)
      <4>1. Reserved(r)' = Reserved(r)
        BY <1>1, <1>3, <3>1 DEF Reserved, RowsHold, RowHolds
      <4> QED BY <1>1, <2>1, <4>1 DEF ReserveHolds
    <3>2. CASE ~HasPlace(r)
      <4>1. units[r].memory = 0
        BY <3>2, NotPlacingIs DEF RowsHold, RowHolds
      <4>2. Memory(r)' \in Memories /\ rows'[r].measured \in 0 .. MaxMemory
        <5>1. /\ rows'[r].own \in MaybeMemory /\ rows'[r].memory \in MaybeMemory
              /\ rows'[r].measured \in 0 .. MaxMemory /\ defaults'.memory \in Memories
          BY <1>1, NumbersAre DEF PlacementShape, RowSet
        <5> QED BY <5>1 DEF Memory, MaybeMemory
      <4> QED BY <1>1, <4>1, <4>2 DEF Reserved, Memories
    <3> QED BY <3>1, <3>2
  <2> QED BY <1>1, <2>1 DEF ReserveHolds
<1>8. ClaimsHold'
  <2>1. ASSUME ~unchecked', NEW r \in Placed PROVE Claim(r)' = Claim(r)
    <3>1. rows[r].at = "provisioning" => Memory(r)' = Memory(r)
      BY <1>3 DEF RowsHold, RowHolds, HasPlace
    <3>2. WorksOn(r) /\ placing.at \in {"remove", "replace"} => Replaced(r)' = Replaced(r)
      BY <1>1, <2>1 DEF Replaced, Working
    <3> QED BY <1>1, <3>1, <3>2 DEF Claim, WorksOn, Working, Mine
  <2> QED BY <1>1, <2>1, ClaimCoversUnit, ClaimsStay
<1> QED BY <1>2, <1>5, <1>6, <1>7, <1>8

\* What a step of the pass on r has to show.
LEMMA StepOnOne ==
  ASSUME PlacementInv, NEW r \in Placed, PlacementShape', WorkHolds', RowHolds(r)',
         UNCHANGED <<defaults, unchecked>>,
         \A other \in Placed \ {r} : rows'[other] = rows[other] /\ units'[other] = units[other],
         Working("rest") \/ Mine = r, Working("rest")' \/ Mine' = r,
         ~unchecked => units'[r].memory <= Reserved(r)',
         \/ rows'[r].machine = NoMachine
         \/ rows'[r].machine = rows[r].machine /\ (~unchecked => Claim(r)' \in 0 .. Claim(r))
  PROVE  PlacementInv'
<1>1. RowsHold'
  BY OtherRowsHold
<1>2. ReserveHolds'
  BY OthersReserve
<1>3. SlotsHold' /\ ClaimsHold'
  BY ClaimsOfOneStay
<1> QED BY <1>1, <1>2, <1>3 DEF PlacementInv

\* The limits are recorded: what a runner gets does not change by it.
LEMMA ResolveKeeps ==
  ASSUME PlacementInv, NEW r \in Placed, Resolve(r) PROVE PlacementInv'
<1> USE DEF PlacementInv
<1> DEFINE row == [rows[r] EXCEPT !.memory = Memory(r),
                                  !.window = IF Keeps(r) THEN @ ELSE {}]
           place == IF rows[r].machine = NoMachine THEN "place" ELSE "look"
<1>1. /\ UNCHANGED <<units, defaults, unchecked>> /\ OnRow(r, row)
      /\ Working("rest") /\ rows[r].at \in {"planned", "provisioning"}
      /\ placing' = [at |-> place, runner |-> r, unit |-> NoUnitYet]
  BY DEF Resolve, TakeUp
<1>2. Memory(r) \in Memories
  BY NumbersAre
<1>3. row \in RowSet
  BY <1>2 DEF PlacementShape, RowSet, MaybeMemory, Windows
<1>4. /\ rows' \in [Placed -> RowSet] /\ rows'[r] = row
      /\ \A other \in Placed \ {r} : rows'[other] = rows[other]
  BY <1>1, <1>3, RowIsWritten
<1>5. placing' \in PlacingSet /\ placing'.at = place /\ placing'.runner = r
  BY <1>1, NotPlacingIs DEF PlacingSet, Places
<1>6. PlacementShape'
  BY <1>1, <1>4, <1>5 DEF PlacementShape
<1>7. /\ row.at = rows[r].at /\ row.machine = rows[r].machine /\ row.memory = Memory(r)
      /\ row.own = rows[r].own /\ row.measured = rows[r].measured
      /\ row.window \in {rows[r].window, {}}
  BY DEF PlacementShape, RowSet
<1> HIDE DEF row
<1>8. Memory(r) # NotAsked
  BY <1>2 DEF Memories, NotAsked
<1>9. RowHolds(r)'
  <2>1. RowHolds(r)
    BY DEF RowsHold
  <2> QED BY <1>1, <1>4, <1>7, <1>8, <2>1 DEF RowHolds, HasPlace, Cores
<1>10. WorkHolds'
  <2>1. rows[r].at = "provisioning" => rows[r].machine # NoMachine
    BY PlacementAssumption DEF RowsHold, RowHolds, HasPlace
  <2>2. rows[r].at = "planned" => rows[r].machine = NoMachine
    BY DEF RowsHold, RowHolds, HasPlace
  <2> QED BY <1>1, <1>4, <1>5, <1>7, <1>8, <2>1, <2>2 DEF WorkHolds, Working, Mine
<1>11. Memory(r)' = Memory(r)
  BY <1>4, <1>7, <1>8 DEF Memory
<1>12. Claim(r)' = Claim(r)
  BY <1>1, <1>4, <1>5, <1>7, <1>11 DEF Claim, WorksOn, Working, Mine
<1>13. Reserved(r)' = Reserved(r)
  BY <1>4, <1>7, <1>11 DEF Reserved
<1>14. ~unchecked => units'[r].memory <= Reserved(r)'
  BY <1>1, <1>13 DEF ReserveHolds
<1>15. Claim(r) \in 0 .. Claim(r)
  BY ClaimCoversUnit
<1>16. Mine' = r
  BY <1>5 DEF Mine
<1> QED BY <1>1, <1>4, <1>6, <1>7, <1>9, <1>10, <1>12, <1>14, <1>15, <1>16, StepOnOne

LEMMA WorkedOn ==
  PlacementShape => Mine \in Placed /\ placing.unit \in UnitSet
BY DEF PlacementShape, PlacingSet, Mine

\* The unit is built, of what is on record.
LEMMA CreateKeeps ==
  ASSUME PlacementInv, Create PROVE PlacementInv'
<1> USE DEF PlacementInv
<1>1. PICK r \in Placed : r = Mine
  BY WorkedOn
<1>2. /\ UNCHANGED <<rows, defaults, unchecked>> /\ Working("create")
      /\ units' = [units EXCEPT ![r] = placing.unit]
      /\ placing' = [placing EXCEPT !.at = "record"]
  BY <1>1 DEF Create, PlacingAt
<1>3. units' \in [Placed -> UnitSet] /\ units'[r] = placing.unit
      /\ \A other \in Placed \ {r} : units'[other] = units[other]
  BY <1>2, WorkedOn DEF PlacementShape
<1>4. placing' \in PlacingSet /\ placing'.at = "record" /\ Mine' = r
  BY <1>1, <1>2 DEF PlacementShape, PlacingSet, Places, Mine
<1>5. PlacementShape'
  BY <1>2, <1>3, <1>4 DEF PlacementShape
<1>6. /\ rows[r].at = "provisioning" /\ placing.unit.machine = rows[r].machine
      /\ (~unchecked => placing.unit.memory = Memory(r))
  BY <1>1, <1>2 DEF WorkHolds, Working
<1>7. RowHolds(r)'
  <2>1. RowHolds(r)
    BY DEF RowsHold
  <2> QED BY <1>2, <1>3, <1>6, <2>1 DEF RowHolds, HasPlace, Cores
<1>8. WorkHolds'
  BY <1>2, <1>4, <1>6 DEF WorkHolds, Working
<1>9. /\ Memory(r)' = Memory(r) /\ Reserved(r)' = Reserved(r)
      /\ Memory(r) \in Nat /\ units[r].memory \in Nat /\ Reserved(r) \in Nat
      /\ Reserved(r) >= Memory(r)
  BY <1>2, NumbersAre DEF Reserved, Memory, Memories
<1>10. ~unchecked => units'[r].memory <= Reserved(r)'
  BY <1>3, <1>6, <1>9
<1>11. ~unchecked => Claim(r)' \in 0 .. Claim(r)
  <2>1. ASSUME ~unchecked PROVE Claim(r)' \in 0 .. Claim(r)
    <3>1. Claim(r)' = Memory(r)
      BY <1>2, <1>3, <1>6, <1>9, <2>1 DEF Claim
    <3> QED BY <1>6, <1>9, <3>1 DEF Claim
  <2> QED BY <2>1
<1> QED BY <1>1, <1>2, <1>3, <1>4, <1>5, <1>7, <1>8, <1>10, <1>11, StepOnOne

\* A runner is moved along, with its unit, its machine and its limits.
LEMMA MovedAlong ==
  ASSUME PlacementInv, NEW r \in Placed, NEW stage \in {"built", "removing"},
         NEW rebuild \in RebuildStages,
         rows[r].at \notin {"planned", "absent"},
         OnRow(r, [rows[r] EXCEPT !.at = stage, !.rebuild = rebuild]),
         UNCHANGED <<units, defaults, unchecked>>, placing' \in PlacingSet,
         placing'.at \in {"rest", "erase"}, placing'.at = "erase" => stage = "removing",
         Working("rest") \/ Mine = r, Working("rest")' \/ Mine' = r
  PROVE  PlacementInv'
<1> USE DEF PlacementInv
<1> DEFINE row == [rows[r] EXCEPT !.at = stage, !.rebuild = rebuild]
<1>1. row \in RowSet
  <2>1. rows[r] \in RowSet
    BY DEF PlacementShape
  <2>2. stage \in Stages
    BY DEF Stages
  <2> QED BY <2>1, <2>2 DEF RowSet
<1>2. /\ rows' \in [Placed -> RowSet] /\ rows'[r] = row
      /\ \A other \in Placed \ {r} : rows'[other] = rows[other]
  BY <1>1, RowIsWritten
<1>3. /\ row.at = stage /\ row.machine = rows[r].machine /\ row.memory = rows[r].memory
      /\ row.own = rows[r].own /\ row.measured = rows[r].measured
      /\ row.window = rows[r].window
  BY DEF PlacementShape, RowSet
<1> HIDE DEF row
<1>4. PlacementShape'
  BY <1>2 DEF PlacementShape
<1>5. RowHolds(r)'
  <2>1. RowHolds(r)
    BY DEF RowsHold
  <2> QED BY <1>2, <1>3, <2>1 DEF RowHolds, HasPlace, Cores
<1>6. WorkHolds'
  BY <1>2, <1>3 DEF WorkHolds, Working
<1>7. Reserved(r)' = Reserved(r)
  BY <1>2, <1>3 DEF Reserved, Memory
<1>8. Claim(r)' = units[r].memory
  BY <1>2, <1>3 DEF Claim, WorksOn, Working
<1>9. Claim(r)' \in 0 .. Claim(r)
  BY <1>8, ClaimCoversUnit
<1>10. ~unchecked => units'[r].memory <= Reserved(r)'
  BY <1>7 DEF ReserveHolds
<1> QED BY <1>2, <1>3, <1>4, <1>5, <1>6, <1>9, <1>10, StepOnOne

LEMMA RecordBuiltKeeps ==
  ASSUME PlacementInv, RecordBuilt PROVE PlacementInv'
<1> USE DEF PlacementInv
<1>1. PICK r \in Placed : r = Mine
  BY WorkedOn
<1>2. /\ UNCHANGED <<units, defaults, unchecked>> /\ Working("record")
      /\ OnRow(r, [rows[r] EXCEPT !.at = "built"]) /\ placing' = NotPlacing
  BY <1>1 DEF RecordBuilt, LeaveRunner
<1>3. rows[r].at = "provisioning"
  BY <1>1, <1>2 DEF WorkHolds, Working
<1>4. rows[r].rebuild \in RebuildStages
      /\ [rows[r] EXCEPT !.at = "built"]
         = [rows[r] EXCEPT !.at = "built", !.rebuild = rows[r].rebuild]
  BY DEF PlacementShape, RowSet
<1>5. OnRow(r, [rows[r] EXCEPT !.at = "built", !.rebuild = rows[r].rebuild])
  BY <1>2, <1>4
<1>6. Working("rest")'
  BY <1>2, NotPlacingIs DEF Working
<1> QED BY <1>1, <1>2, <1>3, <1>4, <1>5, <1>6, NotPlacingIs, MovedAlong

\* Others claim no more than is reserved for them.
LEMMA ReservedCoversClaim ==
  ASSUME PlacementInv, NEW r \in Placed, ~unchecked, Working("rest") \/ Mine # r
  PROVE  Claim(r) \in 0 .. Reserved(r)
<1>1. /\ Memory(r) \in Nat /\ units[r].memory \in Nat /\ Reserved(r) \in Nat
      /\ Memory(r) <= Reserved(r)
  BY NumbersAre, PlacementAssumption DEF PlacementInv, Memories
<1>2. units[r].memory <= Reserved(r)
  BY DEF PlacementInv, ReserveHolds
<1>3. Claim(r) \in {Memory(r), units[r].memory}
  BY DEF Claim, WorksOn
<1> QED BY <1>1, <1>2, <1>3

\* A step on r, for which there is room where it is then.
LEMMA RoomTaken ==
  ASSUME PlacementInv, NEW r \in Placed, NEW m \in Machines, NEW n \in Memories,
         Cardinality(ReservedOn(m, r)) + n <= MemoryBudget,
         rows'[r].machine = m, ~unchecked => Claim(r)' = n, UNCHANGED <<defaults, unchecked>>,
         \A other \in Placed \ {r} : rows'[other] = rows[other] /\ units'[other] = units[other],
         Working("rest") \/ Mine = r, Working("rest")' \/ Mine' = r
  PROVE  ClaimsHold'
<1> SUFFICES ASSUME ~unchecked', NEW here \in Machines
             PROVE  Cardinality(ClaimedOn(here)') <= MemoryBudget
  BY DEF ClaimsHold
<1>1. \A other \in Placed \ {r} : Claim(other)' = Claim(other)
  BY OthersClaim
<1>2. CASE here = m
  <2>1. \A other \in Placed \ {r} : Claim(other) \in 0 .. Reserved(other)
    BY ReservedCoversClaim
  <2>2. Cardinality(ClaimedOn(m)') <= MemoryBudget
    BY <1>1, <2>1, RoomIsClaimed
  <2> QED BY <1>2, <2>2
<1>3. CASE here # m
  <2>1. ClaimedOn(here)' \subseteq ClaimedOn(here)
    BY <1>1, <1>3 DEF ClaimedOn, OnMachine
  <2>2. IsFiniteSet(ClaimedOn(here))
    BY PiecesAreFinite DEF ClaimedOn, OnMachine
  <2>3. Cardinality(ClaimedOn(here)') <= Cardinality(ClaimedOn(here))
        /\ Cardinality(ClaimedOn(here)') \in Nat /\ Cardinality(ClaimedOn(here)) \in Nat
    BY <2>1, <2>2, FS_Subset, FS_CardinalityType
  <2> QED BY <2>3, PlacementAssumption DEF PlacementInv, ClaimsHold
<1> QED BY <1>2, <1>3

\* One that is placed takes a slot that was free.
LEMMA SlotTaken ==
  ASSUME PlacementInv, NEW r \in Placed, NEW m \in Machines,
         Cardinality(On(m, r)) < Slots(m), rows'[r].machine = m,
         \A other \in Placed \ {r} : rows'[other] = rows[other]
  PROVE  SlotsHold'
<1> SUFFICES ASSUME NEW here \in Machines PROVE Cardinality(OnMachine(here)') <= Slots(here)
  BY DEF SlotsHold, Slots, Cores
<1>1. Slots(here) \in Nat /\ Slots(m) \in Nat
  BY CoresAre DEF Slots
<1>2. CASE here = m
  <2>1. OnMachine(m)' \subseteq On(m, r) \cup {r}
    <3>1. ASSUME NEW other \in Placed \ {r}, rows'[other].machine = m
          PROVE  rows[other].machine = m /\ rows[other].at # "absent"
      BY <3>1, PlacementAssumption DEF PlacementInv, RowsHold, RowHolds, HasPlace
    <3> QED BY <3>1 DEF OnMachine, On
  <2>2. /\ IsFiniteSet(On(m, r) \cup {r})
        /\ Cardinality(On(m, r) \cup {r}) = Cardinality(On(m, r)) + 1
    <3>1. r \notin On(m, r)
      BY DEF On
    <3> QED BY <3>1, OnIsFinite, FS_AddElement
  <2>3. Cardinality(On(m, r)) \in Nat
    BY OnIsFinite, FS_CardinalityType
  <2>4. Cardinality(OnMachine(m)') <= Cardinality(On(m, r) \cup {r})
        /\ Cardinality(OnMachine(m)') \in Nat
    BY <2>1, <2>2, FS_Subset, FS_CardinalityType
  <2> QED BY <1>1, <1>2, <2>2, <2>3, <2>4
<1>3. CASE here # m
  <2>1. OnMachine(here)' \subseteq OnMachine(here)
    BY <1>3 DEF OnMachine
  <2>2. IsFiniteSet(OnMachine(here))
    BY PlacementAssumption, FS_Subset DEF OnMachine
  <2>3. Cardinality(OnMachine(here)') <= Cardinality(OnMachine(here))
        /\ Cardinality(OnMachine(here)') \in Nat /\ Cardinality(OnMachine(here)) \in Nat
    BY <2>1, <2>2, FS_Subset, FS_CardinalityType
  <2> QED BY <1>1, <2>3 DEF PlacementInv, SlotsHold
<1> QED BY <1>2, <1>3

\* A runner is placed where there is room for it.
LEMMA PlaceKeeps ==
  ASSUME PlacementInv, Place PROVE PlacementInv'
<1> USE DEF PlacementInv
<1>1. PICK r \in Placed : r = Mine
  BY WorkedOn
<1>2. /\ UNCHANGED <<units, defaults, unchecked>> /\ Working("place")
      /\ \/ placing' = NotPlacing /\ UNCHANGED rows
         \/ /\ \E m \in Machines :
                 /\ Chooses(r, m)
                 /\ OnRow(r, [rows[r] EXCEPT !.at = "provisioning", !.machine = m])
            /\ placing' = [placing EXCEPT !.at = "look"]
  <2>1. UNCHANGED <<units, defaults, unchecked>> /\ Working("place")
    BY DEF Place
  <2>2. \/ LeaveRunner(r) /\ UNCHANGED rows
        \/ /\ \E m \in Machines :
                /\ Chooses(r, m)
                /\ OnRow(r, [rows[r] EXCEPT !.at = "provisioning", !.machine = m])
           /\ PlacingAt("look")
    <3>1. \/ LeaveRunner(Mine) /\ UNCHANGED rows
          \/ /\ \E m \in Machines :
                  /\ Chooses(Mine, m)
                  /\ OnRow(Mine, [rows[Mine] EXCEPT !.at = "provisioning", !.machine = m])
             /\ PlacingAt("look")
      BY DEF Place
    <3> QED BY <1>1, <3>1
  <2> QED BY <2>1, <2>2 DEF LeaveRunner, PlacingAt
<1>3. CASE placing' = NotPlacing /\ UNCHANGED rows
  BY <1>2, <1>3, PassStopsKeeps
<1>4. ASSUME NEW m \in Machines, Chooses(r, m), placing' = [placing EXCEPT !.at = "look"],
             OnRow(r, [rows[r] EXCEPT !.at = "provisioning", !.machine = m])
      PROVE  PlacementInv'
  <2> DEFINE row == [rows[r] EXCEPT !.at = "provisioning", !.machine = m]
  <2>1. row \in RowSet
    BY DEF PlacementShape, RowSet, Stages
  <2>2. /\ rows' \in [Placed -> RowSet] /\ rows'[r] = row
        /\ \A other \in Placed \ {r} : rows'[other] = rows[other]
    BY <1>4, <2>1, RowIsWritten
  <2>3. /\ row.at = "provisioning" /\ row.machine = m /\ row.memory = rows[r].memory
        /\ row.own = rows[r].own /\ row.measured = rows[r].measured
        /\ row.window = rows[r].window
    BY DEF PlacementShape, RowSet
  <2> HIDE DEF row
  <2>4. placing' \in PlacingSet /\ placing'.at = "look" /\ Mine' = r
    BY <1>1, <1>4 DEF PlacementShape, PlacingSet, Places, Mine
  <2>5. PlacementShape'
    BY <1>2, <2>2, <2>4 DEF PlacementShape
  <2>6. /\ rows[r].at = "planned" /\ rows[r].memory # NotAsked
        /\ rows[r].machine = NoMachine /\ units[r] = NoUnitYet /\ rows[r].window = {}
    BY <1>1, <1>2 DEF WorkHolds, RowsHold, RowHolds, HasPlace
  <2>7. RowHolds(r)'
    BY <1>2, <2>2, <2>3, <2>6 DEF RowHolds, HasPlace
  <2>8. RowsHold'
    BY <1>2, <2>2, <2>5, <2>7, OtherRowsHold
  <2>9. WorkHolds'
    BY <2>2, <2>3, <2>4 DEF WorkHolds, Working
  <2>10. Memory(r)' = Memory(r) /\ Reserved(r)' = Reserved(r)
    BY <1>2, <2>2, <2>3 DEF Memory, Reserved
  <2>11. ReserveHolds'
    BY <1>2, <2>2, <2>10, OthersReserve DEF ReserveHolds
  <2>12. Memory(r) \in Memories /\ units[r].memory = 0
    BY <2>6, NumbersAre, NotPlacingIs
  <2>13. Claim(r)' = Memory(r)
    <3>1. Memory(r) \in Nat /\ units'[r].memory = 0 /\ rows'[r].at = "provisioning"
      <4>1. Memory(r) \in Nat
        BY <2>12, PlacementAssumption DEF Memories
      <4> QED BY <1>2, <2>2, <2>3, <2>12, <4>1
    <3> QED BY <2>10, <3>1 DEF Claim
  <2>14. /\ Cardinality(On(m, r)) < Slots(m)
         /\ Cardinality(ReservedOn(m, r)) + Memory(r) <= MemoryBudget
    BY <1>4 DEF Chooses, Fits
  <2>15. PICK n \in Memories : n = Memory(r)
    BY <2>12
  <2>16. SlotsHold'
    BY <2>2, <2>3, <2>14, SlotTaken
  <2>17. ClaimsHold'
    BY <1>1, <1>2, <2>2, <2>3, <2>4, <2>13, <2>14, <2>15, RoomTaken
  <2> QED BY <2>5, <2>8, <2>9, <2>11, <2>16, <2>17
<1> QED BY <1>2, <1>3, <1>4

\* A window is recorded before the unit is built with it.
LEMMA LookForUnitKeeps ==
  ASSUME PlacementInv, LookForUnit PROVE PlacementInv'
<1> USE DEF PlacementInv
<1>1. PICK r \in Placed : r = Mine
  BY WorkedOn
<1>2. PICK window :
        /\ window = IF Keeps(r) THEN rows[r].window ELSE Allocated(Width(r), rows[r].machine, r)
  OBVIOUS
<1>3. /\ UNCHANGED <<units, defaults, unchecked>> /\ Working("look")
      /\ \/ /\ units[r] # NoUnitYet /\ OnRow(r, [rows[r] EXCEPT !.at = "built"])
            /\ placing' = NotPlacing
         \/ placing' = NotPlacing /\ UNCHANGED rows
         \/ /\ units[r] = NoUnitYet /\ OnRow(r, [rows[r] EXCEPT !.window = window])
            /\ placing' = [placing EXCEPT !.at = "create",
                             !.unit = [machine |-> rows[r].machine, window |-> window,
                                       memory |-> Memory(r)]]
  BY <1>1, <1>2 DEF LookForUnit, LeaveRunner, WindowRecorded
<1>4. rows[r].at = "provisioning" /\ rows[r].machine \in Machines /\ rows[r].memory # NotAsked
  BY <1>1, <1>3 DEF WorkHolds, Working, RowsHold, RowHolds, HasPlace
<1>5. CASE /\ OnRow(r, [rows[r] EXCEPT !.at = "built"]) /\ placing' = NotPlacing
  <2>1. rows[r].rebuild \in RebuildStages
        /\ [rows[r] EXCEPT !.at = "built"]
           = [rows[r] EXCEPT !.at = "built", !.rebuild = rows[r].rebuild]
    BY DEF PlacementShape, RowSet
  <2>2. OnRow(r, [rows[r] EXCEPT !.at = "built", !.rebuild = rows[r].rebuild])
    BY <1>5, <2>1
  <2>3. Working("rest")'
    BY <1>5, NotPlacingIs DEF Working
  <2> QED BY <1>1, <1>3, <1>4, <1>5, <2>1, <2>2, <2>3, NotPlacingIs, MovedAlong
<1>6. CASE placing' = NotPlacing /\ UNCHANGED rows
  BY <1>3, <1>6, PassStopsKeeps
<1>7. CASE /\ units[r] = NoUnitYet /\ OnRow(r, [rows[r] EXCEPT !.window = window])
           /\ placing' = [placing EXCEPT !.at = "create",
                            !.unit = [machine |-> rows[r].machine, window |-> window,
                                      memory |-> Memory(r)]]
  <2>1. Width(r) \in Widths /\ Memory(r) \in Memories
    BY NumbersAre
  <2>2. window # {} /\ window \subseteq 0 .. Cores(rows[r].machine) - 1
    <3>1. CASE Keeps(r)
      <4>1. rows[r].window # {} /\ RowHolds(r)
        BY <3>1 DEF Keeps, RowsHold
      <4> QED BY <1>2, <1>4, <3>1, <4>1, PlacementAssumption DEF RowHolds
    <3>2. CASE ~Keeps(r)
      BY <1>2, <1>4, <2>1, <3>2, AllocatedIsAWindow
    <3> QED BY <3>1, <3>2
  <2>3. window \in Windows
    <3>1. Cores(rows[r].machine) \in Nat /\ Cores(rows[r].machine) <= LargeCores
          /\ LargeCores \in Nat
      BY CoresAre, PlacementAssumption
    <3> QED BY <2>2, <3>1 DEF Windows
  <2> DEFINE row == [rows[r] EXCEPT !.window = window]
             unit == [machine |-> rows[r].machine, window |-> window, memory |-> Memory(r)]
  <2>4. row \in RowSet /\ unit \in UnitSet
    BY <1>4, <2>1, <2>3 DEF PlacementShape, RowSet, UnitSet, MaybeMemory
  <2>5. /\ rows' \in [Placed -> RowSet] /\ rows'[r] = row
        /\ \A other \in Placed \ {r} : rows'[other] = rows[other]
    BY <1>7, <2>4, RowIsWritten
  <2>6. /\ row.at = rows[r].at /\ row.machine = rows[r].machine /\ row.memory = rows[r].memory
        /\ row.own = rows[r].own /\ row.measured = rows[r].measured /\ row.window = window
    BY DEF PlacementShape, RowSet
  <2>7. /\ placing' \in PlacingSet /\ placing'.at = "create" /\ Mine' = r
        /\ placing'.unit.machine = rows[r].machine /\ placing'.unit.window = window
        /\ placing'.unit.memory = Memory(r)
    BY <1>1, <1>7, <2>4 DEF PlacementShape, PlacingSet, Places, Mine
  <2> HIDE DEF row, unit
  <2>8. PlacementShape'
    BY <1>3, <2>5, <2>7 DEF PlacementShape
  <2>9. RowHolds(r)'
    <3>1. RowHolds(r)
      BY DEF RowsHold
    <3> QED BY <1>3, <1>4, <2>2, <2>5, <2>6, <3>1, PlacementAssumption
            DEF RowHolds, HasPlace, Cores
  <2>10. Memory(r)' = Memory(r) /\ Reserved(r)' = Reserved(r)
    BY <1>3, <2>5, <2>6 DEF Memory, Reserved
  <2>11. WorkHolds'
    BY <1>3, <1>4, <1>7, <2>2, <2>5, <2>6, <2>7, <2>10 DEF WorkHolds, Working
  <2>12. Claim(r)' = Claim(r) /\ Claim(r) \in 0 .. Claim(r)
    BY <1>3, <1>4, <2>5, <2>6, <2>10, ClaimCoversUnit DEF Claim
  <2>13. ~unchecked => units'[r].memory <= Reserved(r)'
    BY <1>3, <2>10 DEF ReserveHolds
  <2> QED BY <1>1, <1>3, <2>5, <2>6, <2>7, <2>8, <2>9, <2>11, <2>12, <2>13, StepOnOne
<1> QED BY <1>3, <1>5, <1>6, <1>7

\* A unit is taken down: what was its, and what is to come, was claimed.
LEMMA UnitGone ==
  ASSUME PlacementInv, NEW r \in Placed, r = Mine, placing.at \in {"remove", "erase"},
         units' = [units EXCEPT ![r] = NoUnitYet], UNCHANGED <<rows, defaults, unchecked>>,
         placing' \in PlacingSet, Mine' = r,
         placing'.at = IF Working("remove") THEN "replace" ELSE "erase"
  PROVE  PlacementInv'
<1> USE DEF PlacementInv
<1>1. /\ units' \in [Placed -> UnitSet] /\ units'[r] = NoUnitYet
      /\ \A other \in Placed \ {r} : units'[other] = units[other]
  BY NotPlacingIs DEF PlacementShape
<1>2. PlacementShape'
  BY <1>1 DEF PlacementShape
<1>3. rows[r].at = "removing"
  BY DEF WorkHolds, Working
<1>4. RowHolds(r)'
  <2>1. RowHolds(r)
    BY DEF RowsHold
  <2> QED BY <1>1, <1>3, <2>1 DEF RowHolds, HasPlace, Cores
<1>5. WorkHolds'
  BY <1>1, <1>3 DEF WorkHolds, Working
<1>6. /\ Replaced(r)' = Replaced(r) /\ Reserved(r)' = Reserved(r)
      /\ Replaced(r) \in Nat /\ Reserved(r) \in Nat /\ units[r].memory \in Nat
  BY NumbersAre DEF Replaced, Reserved, Memory, Memories
<1>7. units'[r].memory = 0
  BY <1>1, NotPlacingIs
<1>8. Claim(r)' \in 0 .. Claim(r)
  <2>1. CASE Working("remove")
    <3>1. Claim(r)' = Replaced(r)
      BY <1>3, <1>6, <1>7, <2>1 DEF Claim, WorksOn, Working
    <3>2. Claim(r) \in {units[r].memory, Replaced(r)} /\ Claim(r) >= Replaced(r)
      BY <1>3, <1>6, <2>1 DEF Claim, WorksOn, Working
    <3> QED BY <1>6, <3>1, <3>2
  <2>2. CASE ~Working("remove")
    <3>1. Claim(r)' = 0
      BY <1>3, <1>7, <2>2 DEF Claim, WorksOn, Working
    <3> QED BY <3>1, ClaimCoversUnit
  <2> QED BY <2>1, <2>2
<1>9. units'[r].memory <= Reserved(r)'
  BY <1>6, <1>7
<1> QED BY <1>1, <1>2, <1>4, <1>5, <1>8, <1>9, StepOnOne

LEMMA RemoveUnitKeeps ==
  ASSUME PlacementInv, RemoveUnit PROVE PlacementInv'
<1>1. PICK r \in Placed : r = Mine
  BY WorkedOn DEF PlacementInv
<1>2. /\ UNCHANGED <<rows, defaults, unchecked>> /\ Working("remove")
      /\ units' = [units EXCEPT ![r] = NoUnitYet]
      /\ placing' = [placing EXCEPT !.at = "replace"]
  BY <1>1 DEF RemoveUnit, PlacingAt
<1>3. placing' \in PlacingSet /\ placing'.at = "replace" /\ Mine' = r
  BY <1>1, <1>2 DEF PlacementInv, PlacementShape, PlacingSet, Places, Mine
<1> QED BY <1>1, <1>2, <1>3, UnitGone DEF Working

\* What comes after the check of a rebuild was counted.
LEMMA DismantleKeeps ==
  ASSUME PlacementInv, NEW r \in Placed, Dismantle(r) PROVE PlacementInv'
<1> USE DEF PlacementInv
<1>1. UNCHANGED <<units, defaults, unchecked>> /\ Working("rest")
  BY DEF Dismantle
<1>2. CASE Halts(r) /\ UNCHANGED placing
  BY <1>1, <1>2, HaltsKeeps
<1>3. CASE /\ CheckedAgain(r) /\ rows[r].at = "built"
           /\ OnRow(r, [rows[r] EXCEPT !.at = "removing"]) /\ UNCHANGED placing
  <2>1. rows[r].rebuild \in RebuildStages
        /\ [rows[r] EXCEPT !.at = "removing"]
           = [rows[r] EXCEPT !.at = "removing", !.rebuild = rows[r].rebuild]
    BY DEF PlacementShape, RowSet
  <2>2. OnRow(r, [rows[r] EXCEPT !.at = "removing", !.rebuild = rows[r].rebuild])
    BY <1>3, <2>1
  <2>3. Working("rest")' /\ placing' \in PlacingSet
    BY <1>1, <1>3 DEF Working, PlacementShape
  <2>4. placing'.at = "rest"
    BY <2>3 DEF Working
  <2> QED BY <1>1, <1>3, <2>1, <2>2, <2>3, <2>4, MovedAlong
<1>4. CASE /\ CheckedAgain(r) /\ rows[r].at = "removing" /\ UNCHANGED rows
           /\ placing' = [at |-> "remove", runner |-> r, unit |-> NoUnitYet]
  <2>1. placing' \in PlacingSet /\ placing'.at = "remove" /\ Mine' = r
    BY <1>4, NotPlacingIs DEF PlacingSet, Places, Mine
  <2>2. PlacementShape'
    BY <1>1, <1>4, <2>1 DEF PlacementShape
  <2>3. rows[r].machine \in Machines
    BY <1>4 DEF RowsHold, RowHolds, HasPlace
  <2>4. RowsHold' /\ SlotsHold'
    BY <1>1, <1>4, SlotsStay DEF RowsHold, RowHolds, HasPlace, Cores
  <2>5. WorkHolds'
    BY <1>4, <2>1 DEF WorkHolds, Working
  <2>6. ReserveHolds'
    BY <1>1, <1>4 DEF ReserveHolds, Reserved, Memory
  <2>7. /\ Replaced(r)' = Replaced(r) /\ Replaced(r) \in Memories /\ Replaced(r) \in Nat
        /\ units[r].memory \in Nat
    BY <1>1, <1>4, NumbersAre DEF Replaced, Memories
  <2>8. Claim(r) = units[r].memory
    BY <1>1, <1>4 DEF Claim, WorksOn
  <2>9. Claim(r)' = IF units[r].memory > Replaced(r) THEN units[r].memory ELSE Replaced(r)
    BY <1>1, <1>4, <2>1, <2>7 DEF Claim, WorksOn, Working
  <2>10. CASE units[r].memory > Replaced(r)
    <3>1. Claim(r)' \in 0 .. Claim(r)
      BY <2>8, <2>9, <2>10, ClaimCoversUnit
    <3>2. ClaimsHold'
      BY <1>1, <1>4, <2>1, <3>1, ClaimsOfOneStay
    <3> QED BY <2>2, <2>4, <2>5, <2>6, <3>2
  <2>11. CASE ~(units[r].memory > Replaced(r))
    <3>1. PICK n \in Memories : n = Replaced(r)
      BY <2>7
    <3>2. PICK m \in Machines : m = rows[r].machine
      BY <2>3
    <3>3. Cardinality(ReservedOn(m, r)) + n <= MemoryBudget
      BY <1>4, <3>1, <3>2 DEF CheckedAgain, MayReplace, Fits
    <3>4. Claim(r)' = n /\ rows'[r].machine = m
      BY <1>4, <2>9, <2>11, <3>1, <3>2
    <3>5. ClaimsHold'
      BY <1>1, <1>4, <2>1, <3>3, <3>4, RoomTaken
    <3> QED BY <2>2, <2>4, <2>5, <2>6, <3>5
  <2> QED BY <2>10, <2>11
<1> QED BY <1>1, <1>2, <1>3, <1>4 DEF Dismantle, TakeUp

\* The row that is there for the new unit claims what was claimed for it.
LEMMA ReplaceKeeps ==
  ASSUME PlacementInv, Replace PROVE PlacementInv'
<1> USE DEF PlacementInv
<1>1. PICK r \in Placed : r = Mine
  BY WorkedOn
<1>2. PICK window :
        window = IF StillRight(r) THEN rows[r].window
                 ELSE Allocated(Width(r), rows[r].machine, r)
  OBVIOUS
<1> DEFINE row == [rows[r] EXCEPT !.at = "provisioning", !.rebuild = "no",
                                  !.memory = Replaced(r), !.window = window]
<1>3. /\ UNCHANGED <<units, defaults, unchecked>> /\ Working("replace") /\ placing' = NotPlacing
      /\ Halts(r) \/ OnRow(r, row)
  <2>1. [rows[r] EXCEPT !.at = "provisioning", !.rebuild = "no", !.memory = Replaced(r),
                        !.window = IF StillRight(r) THEN @
                                   ELSE Allocated(Width(r), rows[r].machine, r)] = row
    BY <1>2
  <2> HIDE DEF row
  <2> QED BY <1>1, <2>1 DEF Replace, LeaveRunner
<1>4. CASE Halts(r)
  BY <1>3, <1>4, HaltsKeeps
<1>5. CASE OnRow(r, row)
  <2>1. Width(r) \in Widths /\ Replaced(r) \in Memories
    BY NumbersAre
  <2>2. /\ rows[r].at = "removing" /\ units[r] = NoUnitYet /\ rows[r].machine \in Machines
        /\ RowHolds(r)
    BY <1>1, <1>3 DEF WorkHolds, Working, RowsHold, RowHolds, HasPlace
  <2>3. window \subseteq 0 .. Cores(rows[r].machine) - 1
    <3>1. CASE StillRight(r)
      BY <1>2, <2>2, <3>1, PlacementAssumption DEF RowHolds
    <3>2. CASE ~StillRight(r)
      BY <1>2, <2>1, <2>2, <3>2, AllocatedIsAWindow
    <3> QED BY <3>1, <3>2
  <2>4. window \in Windows
    <3>1. Cores(rows[r].machine) \in Nat /\ Cores(rows[r].machine) <= LargeCores
          /\ LargeCores \in Nat
      BY CoresAre, PlacementAssumption
    <3> QED BY <2>3, <3>1 DEF Windows
  <2>5. row \in RowSet
    <3>1. rows[r] \in RowSet
      BY DEF PlacementShape
    <3>2. "provisioning" \in Stages /\ "no" \in RebuildStages
      BY DEF Stages, RebuildStages
    <3>3. Replaced(r) \in MaybeMemory
      BY <2>1 DEF MaybeMemory
    <3> QED BY <2>4, <3>1, <3>2, <3>3 DEF RowSet
  <2>6. /\ rows' \in [Placed -> RowSet] /\ rows'[r] = row
        /\ \A other \in Placed \ {r} : rows'[other] = rows[other]
    BY <1>5, <2>5, RowIsWritten
  <2>7. /\ row.at = "provisioning" /\ row.machine = rows[r].machine
        /\ row.memory = Replaced(r) /\ row.own = rows[r].own
        /\ row.measured = rows[r].measured /\ row.window = window
    BY DEF PlacementShape, RowSet
  <2> HIDE DEF row
  <2>8. placing' \in PlacingSet /\ placing'.at = "rest" /\ Working("rest")'
    BY <1>3, NotPlacingIs DEF Working
  <2>9. PlacementShape'
    BY <1>3, <2>6, <2>8 DEF PlacementShape
  <2>10. Replaced(r) # NotAsked /\ Replaced(r) \in Nat
    BY <2>1, PlacementAssumption DEF Memories, NotAsked
  <2>11. RowHolds(r)'
    BY <1>3, <2>2, <2>3, <2>6, <2>7, <2>10, PlacementAssumption DEF RowHolds, HasPlace, Cores
  <2>12. WorkHolds'
    BY <2>8 DEF WorkHolds, Working
  <2>13. units[r].memory = 0
    BY <2>2, NotPlacingIs
  <2>14. Memory(r)' = Replaced(r)
    BY <1>3, <2>6, <2>7, <2>10 DEF Memory, Replaced
  <2>15. Claim(r) = Replaced(r)
    BY <1>1, <1>3, <2>2, <2>10, <2>13 DEF Claim, WorksOn, Working
  <2>16. Claim(r)' = Replaced(r)
    BY <1>3, <2>6, <2>7, <2>10, <2>13, <2>14 DEF Claim
  <2>17. Claim(r)' \in 0 .. Claim(r)
    BY <2>10, <2>15, <2>16
  <2>18. units'[r].memory <= Reserved(r)'
    <3>1. Reserved(r)' \in {rows[r].measured, Replaced(r)}
      BY <2>6, <2>7, <2>14 DEF Reserved
    <3>2. rows[r].measured \in 0 .. MaxMemory
      BY NumbersAre
    <3> QED BY <1>3, <2>10, <2>13, <3>1, <3>2
  <2> QED BY <1>1, <1>3, <2>6, <2>7, <2>8, <2>9, <2>11, <2>12, <2>17, <2>18, StepOnOne
<1> QED BY <1>3, <1>4, <1>5

\* A row without a unit is deleted.
LEMMA RowGoes ==
  ASSUME PlacementInv, NEW r \in Placed, units[r] = NoUnitYet, OnRow(r, DeletedRow),
         UNCHANGED <<units, defaults, unchecked>>, placing' \in PlacingSet, Working("rest")',
         Working("rest") \/ Mine = r
  PROVE  PlacementInv'
<1> USE DEF PlacementInv
<1>1. /\ DeletedRow \in RowSet /\ DeletedRow.at = "absent" /\ DeletedRow.machine = NoMachine
      /\ DeletedRow.window = {} /\ DeletedRow.memory = NotAsked /\ DeletedRow.own = NotAsked
      /\ DeletedRow.measured = NotAsked
  BY DEF DeletedRow, PlannedRow, RowSet, Stages, RebuildStages, Windows, MaybeMemory
<1>2. /\ rows' \in [Placed -> RowSet] /\ rows'[r] = DeletedRow
      /\ \A other \in Placed \ {r} : rows'[other] = rows[other]
  BY <1>1, RowIsWritten
<1>3. PlacementShape'
  BY <1>2 DEF PlacementShape
<1>4. RowHolds(r)'
  BY <1>1, <1>2 DEF RowHolds, HasPlace
<1>5. WorkHolds'
  BY DEF WorkHolds, Working
<1>6. Reserved(r)' = defaults.memory
  <2>1. Memory(r)' = defaults.memory
    BY <1>1, <1>2 DEF Memory
  <2>2. defaults.memory \in Nat
    BY PlacementAssumption DEF PlacementShape, Memories
  <2> QED BY <1>1, <1>2, <2>1, <2>2 DEF Reserved, NotAsked
<1>7. units'[r].memory <= Reserved(r)'
  <2>1. defaults.memory \in Nat
    BY PlacementAssumption DEF PlacementShape, Memories
  <2> QED BY <1>6, <2>1, NotPlacingIs
<1> QED BY <1>1, <1>2, <1>3, <1>4, <1>5, <1>7, StepOnOne

LEMMA BeginRemovalKeeps ==
  ASSUME PlacementInv, NEW r \in Placed, BeginRemoval(r) PROVE PlacementInv'
<1> USE DEF PlacementInv
<1>1. UNCHANGED <<units, defaults, unchecked>> /\ Working("rest") /\ rows[r].at # "absent"
  BY DEF BeginRemoval
<1>2. CASE rows[r].at = "planned" /\ OnRow(r, DeletedRow) /\ UNCHANGED placing
  <2>1. units[r] = NoUnitYet
    BY <1>2 DEF RowsHold, RowHolds, HasPlace
  <2>2. placing' \in PlacingSet /\ Working("rest")'
    BY <1>1, <1>2 DEF PlacementShape, Working
  <2> QED BY <1>1, <1>2, <2>1, <2>2, RowGoes
<1>3. CASE /\ rows[r].at # "planned" /\ OnRow(r, [rows[r] EXCEPT !.at = "removing"])
           /\ placing' = [at |-> "erase", runner |-> r, unit |-> NoUnitYet]
  <2>1. rows[r].rebuild \in RebuildStages
        /\ [rows[r] EXCEPT !.at = "removing"]
           = [rows[r] EXCEPT !.at = "removing", !.rebuild = rows[r].rebuild]
    BY DEF PlacementShape, RowSet
  <2>2. OnRow(r, [rows[r] EXCEPT !.at = "removing", !.rebuild = rows[r].rebuild])
    BY <1>3, <2>1
  <2>3. placing' \in PlacingSet /\ placing'.at = "erase" /\ Mine' = r
    BY <1>3, NotPlacingIs DEF PlacingSet, Places, Mine
  <2> QED BY <1>1, <1>3, <2>1, <2>2, <2>3, MovedAlong
<1> QED BY <1>1, <1>2, <1>3 DEF BeginRemoval, TakeUp

LEMMA EraseUnitKeeps ==
  ASSUME PlacementInv, EraseUnit PROVE PlacementInv'
<1>1. PICK r \in Placed : r = Mine
  BY WorkedOn DEF PlacementInv
<1>2. UNCHANGED <<defaults, unchecked>> /\ Working("erase")
  BY DEF EraseUnit
<1>3. CASE units' = [units EXCEPT ![r] = NoUnitYet] /\ UNCHANGED <<rows, placing>>
  <2>1. placing' \in PlacingSet /\ placing'.at = "erase" /\ Mine' = r
    BY <1>1, <1>2, <1>3 DEF PlacementInv, PlacementShape, Working, Mine
  <2> QED BY <1>1, <1>2, <1>3, <2>1, UnitGone DEF Working
<1>4. CASE /\ units[r] = NoUnitYet /\ OnRow(r, DeletedRow) /\ placing' = NotPlacing
           /\ UNCHANGED units
  <2>1. placing' \in PlacingSet /\ Working("rest")'
    BY <1>4, NotPlacingIs DEF PlacementInv, Working
  <2> QED BY <1>1, <1>2, <1>4, <2>1, RowGoes
<1> QED BY <1>1, <1>3, <1>4 DEF EraseUnit, LeaveRunner

LEMMA PlacementStartsInv ==
  PlacementInit => PlacementInv
<1> SUFFICES ASSUME PlacementInit PROVE PlacementInv
  OBVIOUS
<1>1. /\ PlannedRow \in RowSet /\ PlannedRow.at = "planned" /\ PlannedRow.machine = NoMachine
      /\ PlannedRow.window = {}
  BY DEF PlannedRow, RowSet, Stages, RebuildStages, Windows, MaybeMemory
<1>2. LargeCores \in Widths /\ 1 \in Memories
  BY PlacementAssumption DEF Widths, Memories
<1>3. /\ rows \in [Placed -> RowSet] /\ units \in [Placed -> UnitSet]
      /\ defaults \in [cores : Widths, memory : Memories] /\ unchecked = FALSE
      /\ placing = NotPlacing
      /\ \A r \in Placed : rows[r] = PlannedRow /\ units[r] = NoUnitYet
  <2>1. NoUnitYet \in UnitSet
    BY DEF NoUnitYet, UnitSet, MaybeMemory, Windows
  <2> QED BY <1>1, <1>2, <2>1 DEF PlacementInit
<1>4. PlacementShape
  <2>1. NoUnitYet \in UnitSet
    BY DEF NoUnitYet, UnitSet, MaybeMemory, Windows
  <2>2. NotPlacing \in PlacingSet
    BY <2>1, PlacementAssumption DEF NotPlacing, PlacingSet, Places
  <2> QED BY <1>3, <2>2 DEF PlacementShape
<1>5. RowsHold
  BY <1>1, <1>3 DEF RowsHold, RowHolds, HasPlace
<1>6. WorkHolds
  BY <1>3, <1>4, NotPlacingIs DEF WorkHolds, Working
<1>7. \A m \in Machines : OnMachine(m) = {}
  BY <1>1, <1>3, PlacementAssumption DEF OnMachine
<1>8. SlotsHold
  <2>1. \A m \in Machines : Slots(m) \in Nat
    BY CoresAre DEF Slots
  <2> QED BY <1>7, <2>1, FS_EmptySet DEF SlotsHold
<1>9. ReserveHolds
  BY <1>3, <1>4, NotPlacingIs, NumbersAre DEF ReserveHolds, Memories
<1>10. ClaimsHold
  <2>1. \A m \in Machines : ClaimedOn(m) = {}
    BY <1>7 DEF ClaimedOn
  <2> QED BY <2>1, FS_EmptySet, PlacementAssumption DEF ClaimsHold
<1> QED BY <1>4, <1>5, <1>6, <1>8, <1>9, <1>10 DEF PlacementInv

LEMMA PlacementKeepsInv ==
  PlacementInv /\ [PlacementNext]_placementVars => PlacementInv'
<1> SUFFICES ASSUME PlacementInv, [PlacementNext]_placementVars PROVE PlacementInv'
  OBVIOUS
<1>1. CASE Place
  BY <1>1, PlaceKeeps
<1>2. CASE LookForUnit
  BY <1>2, LookForUnitKeeps
<1>3. CASE Create
  BY <1>3, CreateKeeps
<1>4. CASE RecordBuilt
  BY <1>4, RecordBuiltKeeps
<1>5. CASE RemoveUnit
  BY <1>5, RemoveUnitKeeps
<1>6. CASE Replace
  BY <1>6, ReplaceKeeps
<1>7. CASE EraseUnit
  BY <1>7, EraseUnitKeeps
<1>8. CASE PassStops
  BY <1>8, PassStopsKeeps DEF PassStops
<1>9. CASE SetDefaults
  BY <1>9, SetDefaultsKeeps
<1>10. ASSUME NEW r \in Placed,
              \/ Resolve(r) \/ BeginRebuild(r) \/ Dismantle(r) \/ BeginRemoval(r)
              \/ SetLimits(r) \/ Recreate(r) \/ RetirePlaced(r) \/ Measure(r)
       PROVE  PlacementInv'
  BY <1>10, ResolveKeeps, BeginRebuildKeeps, DismantleKeeps, BeginRemovalKeeps,
     SetLimitsKeeps, RecreateKeeps, RetireKeeps, MeasureKeeps
<1>11. CASE UNCHANGED placementVars
  <2>1. UNCHANGED <<rows, units, defaults, placing, unchecked>>
    BY <1>11 DEF placementVars
  <2> QED BY <2>1, RequestsTouchLittle DEF PlacementInv, PlacementShape
<1> QED
  BY <1>1, <1>2, <1>3, <1>4, <1>5, <1>6, <1>7, <1>8, <1>9, <1>10, <1>11 DEF PlacementNext

LEMMA PlacementInvHolds ==
  PlacementSpec => []PlacementInv
<1> QED BY PlacementStartsInv, PlacementKeepsInv, PTL DEF PlacementSpec

\* No worker is overcommitted: however many runners and workers there are, whatever
\* limits they have and whatever is asked for or cut off meanwhile, what its units may
\* use was room for them when they were placed, or checked again, and nobody else has
\* been given it since.
THEOREM NoOvercommit ==
  PlacementSpec => []NeverOvercommitted
<1>1. PlacementInv => NeverOvercommitted
  <2> SUFFICES ASSUME PlacementInv, NEW m \in Machines
               PROVE  /\ Cardinality(Built(m)) <= Slots(m)
                      /\ ~unchecked => Cardinality(UsedOn(m)) <= MemoryBudget
    BY DEF NeverOvercommitted
  <2>1. Built(m) \subseteq OnMachine(m)
    <3>1. ASSUME NEW r \in Placed, units[r].machine = m PROVE rows[r].machine = m
      <4>1. units[r] # NoUnitYet
        BY <3>1, PlacementAssumption, NotPlacingIs DEF PlacementInv
      <4> QED BY <3>1, <4>1 DEF PlacementInv, RowsHold, RowHolds
    <3> QED BY <3>1 DEF Built, OnMachine
  <2>2. Cardinality(Built(m)) <= Slots(m)
    <3>1. IsFiniteSet(OnMachine(m))
      BY PlacementAssumption, FS_Subset DEF OnMachine
    <3>2. Cardinality(Built(m)) <= Cardinality(OnMachine(m))
          /\ Cardinality(Built(m)) \in Nat /\ Cardinality(OnMachine(m)) \in Nat
      BY <2>1, <3>1, FS_Subset, FS_CardinalityType
    <3>3. Slots(m) \in Nat
      BY CoresAre DEF Slots
    <3> QED BY <3>2, <3>3 DEF PlacementInv, SlotsHold
  <2>3. UsedOn(m) \subseteq ClaimedOn(m)
    <3>1. ASSUME NEW r \in Placed, NEW n \in Memories, n <= units[r].memory PROVE n <= Claim(r)
      <4>1. units[r].memory \in 0 .. Claim(r) /\ Claim(r) \in Nat /\ n \in Nat
        BY ClaimCoversUnit, ClaimIsNumber, PlacementAssumption DEF PlacementInv, Memories
      <4> QED BY <3>1, <4>1
    <3> QED BY <2>1, <3>1 DEF UsedOn, ClaimedOn, Built
  <2>4. ASSUME ~unchecked PROVE Cardinality(UsedOn(m)) <= MemoryBudget
    <3>1. IsFiniteSet(ClaimedOn(m))
      BY PiecesAreFinite DEF ClaimedOn, OnMachine
    <3>2. Cardinality(UsedOn(m)) <= Cardinality(ClaimedOn(m))
          /\ Cardinality(UsedOn(m)) \in Nat /\ Cardinality(ClaimedOn(m)) \in Nat
      BY <2>3, <3>1, FS_Subset, FS_CardinalityType
    <3> QED BY <2>4, <3>2, PlacementAssumption DEF PlacementInv, ClaimsHold
  <2> QED BY <2>2, <2>4
<1> QED BY <1>1, PlacementInvHolds, PTL

\* A unit is built on the machine that its row names, with the window its row has by
\* then, of cores that are there: the window is recorded before the unit is built, by
\* the runner's own pass, and nothing else writes it in between.
THEOREM BuiltOnRecord ==
  PlacementSpec => BuiltAsRecorded
<1> DEFINE Kept == \A r \in Placed :
             units[r] = NoUnitYet /\ units'[r] # NoUnitYet =>
               /\ units'[r].machine = rows[r].machine
               /\ units'[r].window = rows[r].window
               /\ units'[r].window # {}
               /\ units'[r].window \subseteq 0 .. Cores(rows[r].machine) - 1
<1>1. PlacementInv /\ [PlacementNext]_placementVars => Kept
  <2> SUFFICES ASSUME PlacementInv, [PlacementNext]_placementVars PROVE Kept
    OBVIOUS
  <2>1. CASE Create
    <3>1. PICK r \in Placed : r = Mine
      BY WorkedOn DEF PlacementInv
    <3>2. Working("create") /\ units' = [units EXCEPT ![r] = placing.unit]
      BY <2>1, <3>1 DEF Create
    <3>3. units'[r] = placing.unit /\ \A other \in Placed \ {r} : units'[other] = units[other]
      BY <3>2 DEF PlacementInv, PlacementShape
    <3>4. /\ rows[r].at = "provisioning" /\ placing.unit.machine = rows[r].machine
          /\ placing.unit.window = rows[r].window /\ rows[r].window # {}
      BY <3>1, <3>2 DEF PlacementInv, WorkHolds, Working
    <3>5. rows[r].window \subseteq 0 .. Cores(rows[r].machine) - 1
      BY <3>4, PlacementAssumption DEF PlacementInv, RowsHold, RowHolds, HasPlace
    <3> QED BY <3>3, <3>4, <3>5
  <2>2. CASE RemoveUnit \/ EraseUnit
    <3>1. \A r \in Placed : units'[r] \in {units[r], NoUnitYet}
      BY <2>2 DEF RemoveUnit, EraseUnit, PlacementInv, PlacementShape
    <3> QED BY <3>1
  <2>3. CASE UNCHANGED units
    BY <2>3
  <2>4. ASSUME NEW r \in Placed,
               \/ Resolve(r) \/ BeginRebuild(r) \/ Dismantle(r) \/ BeginRemoval(r)
               \/ SetLimits(r) \/ Recreate(r) \/ RetirePlaced(r) \/ Measure(r)
        PROVE  UNCHANGED units
    BY <2>4, Zenon DEF Resolve, BeginRebuild, Dismantle, BeginRemoval, SetLimits, Recreate,
       RetirePlaced, Measure
  <2>5. Place \/ LookForUnit \/ RecordBuilt \/ Replace \/ PassStops \/ SetDefaults
          => UNCHANGED units
    BY DEF Place, LookForUnit, RecordBuilt, Replace, PassStops, SetDefaults
  <2>6. UNCHANGED placementVars => UNCHANGED units
    BY DEF placementVars
  <2> HIDE DEF Kept
  <2> QED BY <2>1, <2>2, <2>3, <2>4, <2>5, <2>6 DEF PlacementNext
<1>2. PlacementInv /\ [PlacementNext]_placementVars
        => [\A r \in Placed :
             units[r] = NoUnitYet /\ units'[r] # NoUnitYet =>
              /\ units'[r].machine = rows[r].machine
              /\ units'[r].window = rows[r].window
              /\ units'[r].window # {} /\ units'[r].window \subseteq 0 .. Cores(rows[r].machine) - 1
           ]_placementVars
  BY <1>1
<1> QED BY <1>2, PlacementInvHolds, PTL DEF BuiltAsRecorded, PlacementSpec

-----------------------------------------------------------------------------
(* Alarms.                                                                 *)

RowStates == [kind : {"none", "runner_offline", "runner_planned", "job_queued", "monitor"},
              age : 0 .. AlarmAfter, raised : BOOLEAN, acked : BOOLEAN]
Books == [AlarmKeys -> RowStates]
Readings == [AlarmRunners -> {"unread", "gone", "offline", "online"}]
MinutePlaces == {"rest", "read", "runners", "observe", "publish", "jobs", "recheck"}
SweepPlaces == {"rest", "reader", "observe reader", "look", "queue", "observe queue"}
MinuteSet == [thread : [at : MinutePlaces, rows : Books], planned : SUBSET AlarmRunners,
              reading : Readings]
SweepSet == [thread : [at : SweepPlaces, rows : Books], jobs : SUBSET Jobs, swept : BOOLEAN,
             blind : BOOLEAN, online : SUBSET AlarmRunners]
ForgeSet == [readable : BOOLEAN, runners : [AlarmRunners -> {"gone", "offline", "online"}],
             jobs : [Jobs -> {"to come", "queued", "left"}], came : [Jobs -> 0 .. AlarmAfter]]

AlarmShape ==
  /\ book \in Books /\ standing \in [AlarmKeys -> Nat] /\ forge \in ForgeSet
  /\ planned \subseteq AlarmRunners /\ (online = Unknown \/ online \subseteq AlarmRunners)
  /\ minute \in MinuteSet /\ sweep \in SweepSet

\* What the threads have read is the book, for as long as they have it.
HasBook ==
  /\ minute.thread.at \in {"observe", "recheck"} =>
       lock = "minute" /\ minute.thread.rows = book
  /\ sweep.thread.at \in {"observe reader", "observe queue"} =>
       lock = "sweep" /\ sweep.thread.rows = book

AlarmInv == AlarmShape /\ HasBook /\ RaisedOnce

LEMMA NoRowIs ==
  /\ NoRow \in RowStates /\ ~NoRow.raised /\ [k \in AlarmKeys |-> NoRow] \in Books
  /\ \A row \in RowStates : row.raised \in BOOLEAN /\ row.age \in 0 .. AlarmAfter
BY AlarmAssumption DEF NoRow, RowStates, Books

LEMMA WatchedIsARow ==
  ASSUME NEW row \in RowStates, NEW age \in 0 .. AlarmAfter,
         NEW kind \in {"runner_offline", "runner_planned", "job_queued", "monitor"}
  PROVE  Watched(row, kind, age) \in RowStates
<1>1. (age >= AlarmAfter) \in BOOLEAN /\ (row.raised \/ row.age >= AlarmAfter) \in BOOLEAN
  OBVIOUS
<1>2. [NoRow EXCEPT !.kind = kind, !.age = age, !.raised = age >= AlarmAfter] \in RowStates
  BY <1>1, NoRowIs DEF RowStates
<1>3. [row EXCEPT !.raised = row.raised \/ row.age >= AlarmAfter] \in RowStates
  BY <1>1 DEF RowStates
<1> QED BY <1>2, <1>3 DEF Watched

LEMMA TurnedIsARow ==
  ASSUME NEW row \in RowStates, NEW kind \in {"runner_offline", "runner_planned"}
  PROVE  Turned(row, kind) \in RowStates
BY NoRowIs DEF Turned, RowStates

\* What a reading makes of a book is a book.
LEMMA ReadingsMakeBooks ==
  ASSUME NEW had \in Books
  PROVE  /\ \A reading, onPurpose : WithRunners(had, reading, onPurpose) \in Books
         /\ \A seen : WithOnline(had, seen) \in Books
         /\ \A read : WithReader(had, read) \in Books
         /\ forge \in ForgeSet =>
              \A jobs, swept, seen : WithQueue(had, jobs, swept, seen) \in Books
<1>1. \A k \in AlarmKeys : had[k] \in RowStates
  BY DEF Books
<1>2. 0 \in 0 .. AlarmAfter
  BY AlarmAssumption
<1>3. ASSUME NEW reading, NEW onPurpose PROVE WithRunners(had, reading, onPurpose) \in Books
  <2>1. ASSUME NEW k \in AlarmKeys
        PROVE  WithRunners(had, reading, onPurpose)[k] \in RowStates
    <3> DEFINE kind == IF k \in onPurpose THEN "runner_planned" ELSE "runner_offline"
    <3>1. WithRunners(had, reading, onPurpose)[k] \in
            {had[k], NoRow, Watched(had[k], "monitor", 0),
             Watched(Turned(had[k], kind), kind, 0)}
      BY DEF WithRunners
    <3>2. Watched(had[k], "monitor", 0) \in RowStates
      BY <1>1, <1>2, WatchedIsARow
    <3>3. kind \in {"runner_offline", "runner_planned"}
      OBVIOUS
    <3> HIDE DEF kind
    <3>4. Watched(Turned(had[k], kind), kind, 0) \in RowStates
      BY <1>1, <1>2, <3>3, WatchedIsARow, TurnedIsARow
    <3> QED BY <1>1, <3>1, <3>2, <3>4, NoRowIs
  <2>2. WithRunners(had, reading, onPurpose)
        = [k \in AlarmKeys |-> WithRunners(had, reading, onPurpose)[k]]
    BY DEF WithRunners
  <2> QED BY <2>1, <2>2 DEF Books
<1>4. ASSUME NEW seen PROVE WithOnline(had, seen) \in Books
  <2>1. ASSUME NEW k \in AlarmKeys PROVE WithOnline(had, seen)[k] \in RowStates
    <3>1. WithOnline(had, seen)[k] \in {had[k], NoRow, Watched(had[k], "job_queued", 0)}
      BY DEF WithOnline
    <3> QED BY <1>1, <1>2, <3>1, NoRowIs, WatchedIsARow
  <2>2. WithOnline(had, seen) = [k \in AlarmKeys |-> WithOnline(had, seen)[k]]
    BY Zenon DEF WithOnline
  <2> QED BY <2>1, <2>2 DEF Books
<1>5. ASSUME NEW read PROVE WithReader(had, read) \in Books
  <2>1. "queue monitor" \in AlarmKeys
    BY DEF AlarmKeys
  <2>2. Watched(had["queue monitor"], "monitor", 0) \in RowStates
    BY <1>1, <1>2, <2>1, WatchedIsARow
  <2> QED BY <2>2, NoRowIs DEF WithReader, Books
<1>6. ASSUME forge \in ForgeSet, NEW jobs, NEW swept, NEW seen
      PROVE  WithQueue(had, jobs, swept, seen) \in Books
  <2>1. ASSUME NEW k \in AlarmKeys PROVE WithQueue(had, jobs, swept, seen)[k] \in RowStates
    <3>1. WithQueue(had, jobs, swept, seen)[k] \in {had[k], NoRow}
          \/ (k \in Jobs /\ WithQueue(had, jobs, swept, seen)[k]
                            = Watched(had[k], "job_queued", forge.came[k]))
      BY DEF WithQueue
    <3>2. k \in Jobs => forge.came[k] \in 0 .. AlarmAfter
      BY <1>6 DEF ForgeSet
    <3> QED BY <1>1, <3>1, <3>2, NoRowIs, WatchedIsARow
  <2>2. WithQueue(had, jobs, swept, seen)
        = [k \in AlarmKeys |-> WithQueue(had, jobs, swept, seen)[k]]
    BY Zenon DEF WithQueue
  <2> QED BY <2>1, <2>2 DEF Books
<1> QED BY <1>3, <1>4, <1>5, <1>6

\* What is written back is the book as it was read, with what was found.
LEMMA CommitKeeps ==
  ASSUME RaisedOnce, book \in Books, standing \in [AlarmKeys -> Nat], NEW after \in Books,
         Commit(book, after)
  PROVE  book' = after /\ standing' \in [AlarmKeys -> Nat] /\ RaisedOnce'
<1>1. book' = after
  BY DEF Commit, Books
<1>2. \A k \in AlarmKeys :
        standing'[k] = (IF after[k].raised THEN standing[k] ELSE 0)
                       + (IF k \in RaisedIn(book, after) THEN 1 ELSE 0)
  BY <1>1 DEF Commit
<1>3. \A k \in AlarmKeys : k \in RaisedIn(book, after) <=> (after[k].raised /\ ~book[k].raised)
  BY DEF RaisedIn
<1>4. \A k \in AlarmKeys : after[k].raised \in BOOLEAN /\ book[k].raised \in BOOLEAN
  BY NoRowIs DEF Books
<1>5. \A k \in AlarmKeys : standing[k] = IF book[k].raised THEN 1 ELSE 0
  BY DEF RaisedOnce
<1>6. ASSUME NEW k \in AlarmKeys PROVE standing'[k] = IF after[k].raised THEN 1 ELSE 0
  <2>1. CASE after[k].raised /\ book[k].raised
    BY <1>2, <1>3, <1>5, <2>1
  <2>2. CASE after[k].raised /\ ~book[k].raised
    BY <1>2, <1>3, <1>5, <2>2
  <2>3. CASE ~after[k].raised
    BY <1>2, <1>3, <2>3
  <2> QED BY <1>4, <2>1, <2>2, <2>3
<1>7. standing' \in [AlarmKeys -> Nat]
  <2>1. standing' = [k \in AlarmKeys |-> standing'[k]]
    BY DEF Commit
  <2> QED BY <1>6, <2>1
<1> QED BY <1>1, <1>6, <1>7 DEF RaisedOnce

LEMMA AgedIs ==
  ASSUME NEW had \in Books
  PROVE  /\ Aged(had) \in Books
         /\ \A k \in AlarmKeys : Aged(had)[k].raised = had[k].raised
<1>1. ASSUME NEW k \in AlarmKeys
      PROVE  Aged(had)[k] \in RowStates /\ Aged(had)[k].raised = had[k].raised
  <2>1. had[k] \in RowStates
    BY DEF Books
  <2>2. Longer(had[k].age) \in 0 .. AlarmAfter
    BY <2>1, NoRowIs, AlarmAssumption DEF Longer
  <2>3. Aged(had)[k]
        = IF had[k] = NoRow THEN NoRow ELSE [had[k] EXCEPT !.age = Longer(had[k].age)]
    BY DEF Aged
  <2> QED BY <2>1, <2>2, <2>3, NoRowIs DEF RowStates
<1>2. Aged(had) = [k \in AlarmKeys |-> Aged(had)[k]]
  BY Zenon DEF Aged
<1> QED BY <1>1, <1>2 DEF Books

LEMMA IdleThreadsAre ==
  /\ IdleMinute \in MinuteSet /\ IdleMinute.thread.at = "rest"
  /\ IdleSweep \in SweepSet /\ IdleSweep.thread.at = "rest"
<1>1. IdleThread.rows \in Books /\ IdleThread.at = "rest"
      /\ IdleThread = [at |-> "rest", rows |-> IdleThread.rows]
  BY NoRowIs DEF IdleThread
<1>2. NoReading \in Readings
  BY DEF NoReading, Readings
<1> QED BY <1>1, <1>2
        DEF IdleMinute, IdleSweep, MinuteSet, SweepSet, MinutePlaces, SweepPlaces

LEMMA AlarmsStartInv ==
  AlarmsInit => AlarmInv
<1> SUFFICES ASSUME AlarmsInit PROVE AlarmInv
  OBVIOUS
<1>1. forge \in ForgeSet
  <2>1. 0 \in 0 .. AlarmAfter
    BY AlarmAssumption
  <2> QED BY <2>1 DEF AlarmsInit, ForgeSet
<1>2. AlarmShape
  BY <1>1, IdleThreadsAre, NoRowIs DEF AlarmsInit, AlarmShape
<1>3. HasBook
  BY IdleThreadsAre DEF AlarmsInit, HasBook
<1>4. RaisedOnce
  BY NoRowIs DEF AlarmsInit, RaisedOnce
<1> QED BY <1>2, <1>3, <1>4 DEF AlarmInv

\* The book and who has it are as they were.
LEMMA BookUntouched ==
  ASSUME AlarmInv, AlarmShape', UNCHANGED <<book, lock, standing>>,
         \/ UNCHANGED minute.thread
         \/ minute'.thread.at \notin {"observe", "recheck"},
         \/ UNCHANGED sweep.thread
         \/ sweep'.thread.at \notin {"observe reader", "observe queue"}
  PROVE  AlarmInv'
BY DEF AlarmInv, HasBook, RaisedOnce

LEMMA MinuteKeeps ==
  ASSUME AlarmInv, MinuteStep PROVE AlarmInv'
<1> USE DEF AlarmInv
<1>1. UNCHANGED <<sweep, forge, planned>>
  BY DEF MinuteStep, MinuteBegins, ReadRunners, OpenForRunners, ObserveRunners, PublishOnline,
     OpenForJobs, RecheckQueue, theForge
<1>2. CASE MinuteBegins
  <2>1. AlarmShape'
    BY <1>1, <1>2 DEF MinuteBegins, AlarmShape, theBook, MinuteSet, MinutePlaces
  <2> QED BY <1>1, <1>2, <2>1, BookUntouched
      DEF MinuteBegins, AlarmShape, MinuteSet, theBook
<1>3. CASE ReadRunners
  <2>1. (IF forge.readable THEN forge.runners ELSE NoReading) \in Readings
    BY DEF AlarmShape, ForgeSet, Readings, NoReading
  <2>2. minute' \in MinuteSet /\ minute'.thread.at = "runners"
    BY <1>3, <2>1 DEF ReadRunners, AlarmShape, MinuteSet, MinutePlaces
  <2>3. UNCHANGED <<book, lock, standing, online>>
    BY <1>3 DEF ReadRunners, theBook
  <2>4. AlarmShape'
    BY <1>1, <2>2, <2>3 DEF AlarmShape
  <2> QED BY <1>1, <2>2, <2>3, <2>4, BookUntouched
<1>4. CASE PublishOnline
  <2>1. /\ UNCHANGED theBook
        /\ minute' = IdleMinute \/ minute' = [minute EXCEPT !.thread.at = "jobs"]
        /\ online' = Unknown \/ online' \subseteq AlarmRunners
    BY <1>4 DEF PublishOnline, MinuteTo
  <2>2. minute' \in MinuteSet /\ minute'.thread.at \in {"rest", "jobs"}
    BY <2>1, IdleThreadsAre DEF AlarmShape, MinuteSet, MinutePlaces
  <2>3. AlarmShape'
    BY <1>1, <2>1, <2>2 DEF AlarmShape, theBook
  <2> QED BY <1>1, <2>1, <2>2, <2>3, BookUntouched DEF theBook
<1>5. ASSUME NEW place, NEW next \in {"observe", "recheck"}, UNCHANGED online,
             OpenBook("minute", minute.thread, place),
             minute' = [minute EXCEPT !.thread = BookOpened(minute.thread, next)]
      PROVE  AlarmInv'
  <2>1. minute'.thread.at = next /\ minute'.thread.rows = book /\ minute' \in MinuteSet
    BY <1>5 DEF BookOpened, AlarmShape, MinuteSet, MinutePlaces
  <2>2. UNCHANGED <<book, standing>> /\ lock = "free" /\ lock' = "minute"
    BY <1>5 DEF OpenBook, BookIsFree
  <2>3. AlarmShape'
    BY <1>1, <1>5, <2>1, <2>2 DEF AlarmShape
  <2>4. HasBook'
    BY <1>1, <2>1, <2>2 DEF HasBook
  <2> QED BY <2>2, <2>3, <2>4 DEF RaisedOnce
<1>6. ASSUME NEW after \in Books, UNCHANGED online, minute.thread.at \in {"observe", "recheck"},
             Commit(minute.thread.rows, after),
             minute' = IdleMinute
             \/ minute' = [minute EXCEPT !.thread = BookClosed(minute.thread, "publish")]
      PROVE  AlarmInv'
  <2>1. lock = "minute" /\ minute.thread.rows = book
    BY <1>6 DEF HasBook
  <2>2. book' = after /\ standing' \in [AlarmKeys -> Nat] /\ RaisedOnce' /\ lock' = "free"
    BY <1>6, <2>1, CommitKeeps DEF AlarmShape, Commit
  <2>3. IdleThread.rows \in Books
    BY NoRowIs DEF IdleThread
  <2>4. minute' \in MinuteSet /\ minute'.thread.at \in {"rest", "publish"}
    <3>1. CASE minute' = IdleMinute
      BY <3>1, IdleThreadsAre
    <3>2. CASE minute' = [minute EXCEPT !.thread = BookClosed(minute.thread, "publish")]
      <4>1. BookClosed(minute.thread, "publish") \in [at : MinutePlaces, rows : Books]
            /\ BookClosed(minute.thread, "publish").at = "publish"
        BY <2>3 DEF AlarmShape, BookClosed, MinuteSet, MinutePlaces
      <4> QED BY <3>2, <4>1 DEF AlarmShape, MinuteSet
    <3> QED BY <1>6, <3>1, <3>2
  <2>5. AlarmShape'
    BY <1>1, <1>6, <2>2, <2>4 DEF AlarmShape
  <2>6. HasBook'
    BY <1>1, <2>1, <2>4 DEF HasBook
  <2> QED BY <2>2, <2>5, <2>6
<1>7. CASE OpenForRunners \/ OpenForJobs
  BY <1>5, <1>7 DEF OpenForRunners, OpenForJobs
<1>8. CASE ObserveRunners
  <2>1. WithRunners(minute.thread.rows, minute.reading, minute.planned) \in Books
    BY ReadingsMakeBooks DEF AlarmShape, MinuteSet, SweepSet
  <2> QED BY <1>6, <1>8, <2>1 DEF ObserveRunners, MinuteAt
<1>9. CASE RecheckQueue
  <2>1. WithOnline(minute.thread.rows, online) \in Books
    BY ReadingsMakeBooks DEF AlarmShape, MinuteSet, SweepSet
  <2> QED BY <1>6, <1>9, <2>1 DEF RecheckQueue, MinuteAt
<1> QED BY <1>2, <1>3, <1>4, <1>7, <1>8, <1>9 DEF MinuteStep

LEMMA SweepKeeps ==
  ASSUME AlarmInv, SweepStep PROVE AlarmInv'
<1> USE DEF AlarmInv
<1>1. UNCHANGED <<minute, forge, planned>>
  BY DEF SweepStep, BeginSweep, OpenForReader, ObserveReader, LookWhoIsOnline, OpenForQueue,
     ObserveQueue, theForge
<1>2. CASE BeginSweep
  <2>1. UNCHANGED theBook
    BY <1>2 DEF BeginSweep
  <2>2. OldJobs \subseteq Jobs /\ forge.readable \in BOOLEAN
    BY DEF OldJobs, AlarmShape, ForgeSet
  <2>3. sweep' \in SweepSet /\ sweep'.thread.at \in {"reader", "look"}
    <3>1. CASE sweep' = [sweep EXCEPT !.thread.at = "reader", !.swept = forge.readable,
                             !.blind = ~forge.readable,
                             !.jobs = IF forge.readable THEN OldJobs ELSE {}]
      <4>1. (IF forge.readable THEN OldJobs ELSE {}) \in SUBSET Jobs
            /\ (~forge.readable) \in BOOLEAN
        BY <2>2
      <4> QED BY <2>2, <3>1, <4>1 DEF AlarmShape, SweepSet, SweepPlaces
    <3>2. ASSUME NEW jobs \in SUBSET OldJobs, NEW place \in {"reader", "look"},
                 sweep' = [sweep EXCEPT !.thread.at = place, !.jobs = jobs]
          PROVE  sweep' \in SweepSet /\ sweep'.thread.at \in {"reader", "look"}
      BY <2>2, <3>2 DEF AlarmShape, SweepSet, SweepPlaces
    <3> QED BY <1>2, <3>1, <3>2 DEF BeginSweep
  <2>4. online' = online
    BY <1>2 DEF BeginSweep
  <2>5. AlarmShape'
    BY <1>1, <2>1, <2>3, <2>4 DEF AlarmShape, theBook
  <2> QED BY <1>1, <2>1, <2>3, <2>5, BookUntouched DEF theBook
<1>3. CASE LookWhoIsOnline
  <2>1. (IF online = Unknown THEN {} ELSE online) \in SUBSET AlarmRunners
    BY DEF AlarmShape
  <2>2. sweep' \in SweepSet /\ sweep'.thread.at = "queue"
    BY <1>3, <2>1 DEF LookWhoIsOnline, AlarmShape, SweepSet, SweepPlaces
  <2>3. UNCHANGED <<book, lock, standing, online>>
    BY <1>3 DEF LookWhoIsOnline, theBook
  <2>4. AlarmShape'
    BY <1>1, <2>2, <2>3 DEF AlarmShape
  <2> QED BY <1>1, <2>2, <2>3, <2>4, BookUntouched
<1>4. ASSUME NEW place, NEW next \in {"observe reader", "observe queue"}, UNCHANGED online,
             OpenBook("sweep", sweep.thread, place),
             sweep' = [sweep EXCEPT !.thread = BookOpened(sweep.thread, next)]
      PROVE  AlarmInv'
  <2>1. sweep'.thread.at = next /\ sweep'.thread.rows = book /\ sweep' \in SweepSet
    BY <1>4 DEF BookOpened, AlarmShape, SweepSet, SweepPlaces
  <2>2. UNCHANGED <<book, standing>> /\ lock = "free" /\ lock' = "sweep"
    BY <1>4 DEF OpenBook, BookIsFree
  <2>3. AlarmShape'
    BY <1>1, <1>4, <2>1, <2>2 DEF AlarmShape
  <2>4. HasBook'
    BY <1>1, <2>1, <2>2 DEF HasBook
  <2> QED BY <2>2, <2>3, <2>4 DEF RaisedOnce
<1>5. ASSUME NEW after \in Books, UNCHANGED online,
             sweep.thread.at \in {"observe reader", "observe queue"},
             Commit(sweep.thread.rows, after),
             sweep' = IdleSweep
             \/ sweep' = [sweep EXCEPT !.thread = BookClosed(sweep.thread, "look")]
      PROVE  AlarmInv'
  <2>1. lock = "sweep" /\ sweep.thread.rows = book
    BY <1>5 DEF HasBook
  <2>2. book' = after /\ standing' \in [AlarmKeys -> Nat] /\ RaisedOnce' /\ lock' = "free"
    BY <1>5, <2>1, CommitKeeps DEF AlarmShape, Commit
  <2>3. IdleThread.rows \in Books
    BY NoRowIs DEF IdleThread
  <2>4. sweep' \in SweepSet /\ sweep'.thread.at \in {"rest", "look"}
    <3>1. CASE sweep' = IdleSweep
      BY <3>1, IdleThreadsAre
    <3>2. CASE sweep' = [sweep EXCEPT !.thread = BookClosed(sweep.thread, "look")]
      <4>1. BookClosed(sweep.thread, "look") \in [at : SweepPlaces, rows : Books]
            /\ BookClosed(sweep.thread, "look").at = "look"
        BY <2>3 DEF AlarmShape, BookClosed, SweepSet, SweepPlaces
      <4> QED BY <3>2, <4>1 DEF AlarmShape, SweepSet
    <3> QED BY <1>5, <3>1, <3>2
  <2>5. AlarmShape'
    BY <1>1, <1>5, <2>2, <2>4 DEF AlarmShape
  <2>6. HasBook'
    BY <1>1, <2>1, <2>4 DEF HasBook
  <2> QED BY <2>2, <2>5, <2>6
<1>6. CASE OpenForReader \/ OpenForQueue
  BY <1>4, <1>6 DEF OpenForReader, OpenForQueue
<1>7. CASE ObserveReader
  <2>1. WithReader(sweep.thread.rows, ~sweep.blind) \in Books
    BY ReadingsMakeBooks DEF AlarmShape, MinuteSet, SweepSet
  <2> QED BY <1>5, <1>7, <2>1 DEF ObserveReader, SweepAt
<1>8. CASE ObserveQueue
  <2>1. WithQueue(sweep.thread.rows, sweep.jobs, sweep.swept, sweep.online) \in Books
    BY ReadingsMakeBooks DEF AlarmShape, MinuteSet, SweepSet
  <2> QED BY <1>5, <1>8, <2>1 DEF ObserveQueue, SweepAt
<1> QED BY <1>2, <1>3, <1>6, <1>7, <1>8 DEF SweepStep

LEMMA MinutePassesKeeps ==
  ASSUME AlarmInv, MinutePasses PROVE AlarmInv'
<1> USE DEF AlarmInv
<1>1. /\ book' = Aged(book) /\ UNCHANGED <<lock, standing, planned, online>>
      /\ minute' = [minute EXCEPT !.thread.rows = Aged(minute.thread.rows)]
      /\ sweep' = [sweep EXCEPT !.thread.rows = Aged(sweep.thread.rows)]
      /\ forge' = [forge EXCEPT !.came = [j \in Jobs |-> IF forge.jobs[j] = "to come" THEN 0
                                                     ELSE Longer(forge.came[j])]]
  BY DEF MinutePasses
<1>2. [j \in Jobs |-> IF forge.jobs[j] = "to come" THEN 0 ELSE Longer(forge.came[j])]
        \in [Jobs -> 0 .. AlarmAfter]
  <2>1. ASSUME NEW age \in 0 .. AlarmAfter PROVE Longer(age) \in 0 .. AlarmAfter
    BY AlarmAssumption DEF Longer
  <2>2. 0 \in 0 .. AlarmAfter
    BY AlarmAssumption
  <2> QED BY <2>1, <2>2 DEF AlarmShape, ForgeSet
<1>3. AlarmShape'
  <2>1. book' \in Books /\ Aged(minute.thread.rows) \in Books /\ Aged(sweep.thread.rows) \in Books
    BY <1>1, AgedIs DEF AlarmShape, MinuteSet, SweepSet
  <2>2. minute' \in MinuteSet /\ sweep' \in SweepSet
    BY <1>1, <2>1 DEF AlarmShape, MinuteSet, SweepSet
  <2>3. forge' \in ForgeSet
    BY <1>1, <1>2 DEF AlarmShape, ForgeSet
  <2> QED BY <1>1, <2>1, <2>2, <2>3 DEF AlarmShape
<1>4. /\ minute'.thread.at = minute.thread.at /\ sweep'.thread.at = sweep.thread.at
      /\ minute'.thread.rows = Aged(minute.thread.rows)
      /\ sweep'.thread.rows = Aged(sweep.thread.rows)
  BY <1>1 DEF AlarmShape, MinuteSet, SweepSet
<1>5. HasBook'
  BY <1>1, <1>4 DEF HasBook
<1>6. RaisedOnce'
  BY <1>1, AgedIs DEF RaisedOnce, AlarmShape
<1> QED BY <1>3, <1>5, <1>6

LEMMA AcknowledgeKeeps ==
  ASSUME AlarmInv, AcknowledgeAlarm PROVE AlarmInv'
<1> USE DEF AlarmInv
<1>1. PICK k \in AlarmKeys : book' = [book EXCEPT ![k].acked = TRUE]
  BY DEF AcknowledgeAlarm
<1>2. UNCHANGED <<forge, planned, online, lock, standing, minute, sweep>> /\ lock = "free"
  BY DEF AcknowledgeAlarm, BookIsFree
<1>3. book' \in Books /\ \A other \in AlarmKeys : book'[other].raised = book[other].raised
  BY <1>1 DEF AlarmShape, Books, RowStates
<1> QED BY <1>2, <1>3 DEF AlarmShape, HasBook, RaisedOnce

LEMMA AlarmsKeepInv ==
  AlarmInv /\ [AlarmsNext]_alarmVars => AlarmInv'
<1> SUFFICES ASSUME AlarmInv, [AlarmsNext]_alarmVars PROVE AlarmInv'
  OBVIOUS
<1>1. CASE BeginDelivery \/ SendNext \/ UNCHANGED alarmVars
  <2>1. UNCHANGED <<forge, planned, online, book, lock, standing, minute, sweep>>
    BY <1>1 DEF BeginDelivery, SendNext, alarmVars, theForge, theBook
  <2> QED BY <2>1 DEF AlarmInv, AlarmShape, HasBook, RaisedOnce
<1>2. CASE ForgeChanges
  <2>1. UNCHANGED <<book, lock, standing, minute, sweep>>
    BY <1>2 DEF ForgeChanges, theBook
  <2>2. AlarmShape'
    <3>1. /\ \/ UNCHANGED forge
             \/ forge' = [forge EXCEPT !.readable = ~@]
             \/ \E r \in AlarmRunners, state \in {"gone", "offline", "online"} :
                  forge' = [forge EXCEPT !.runners[r] = state]
             \/ \E j \in Jobs, state \in {"left", "queued"} :
                  forge' = [forge EXCEPT !.jobs[j] = state]
          /\ planned' \subseteq AlarmRunners /\ online' = online
      BY <1>2, AlarmAssumption DEF ForgeChanges, AlarmInv, AlarmShape, ForgeSet
    <3>2. forge' \in ForgeSet
      <4>1. forge \in ForgeSet
        BY DEF AlarmInv, AlarmShape
      <4>2. CASE forge' = [forge EXCEPT !.readable = ~@]
        BY <4>1, <4>2 DEF ForgeSet
      <4>3. ASSUME NEW r \in AlarmRunners, NEW state \in {"gone", "offline", "online"},
                   forge' = [forge EXCEPT !.runners[r] = state]
            PROVE  forge' \in ForgeSet
        BY <4>1, <4>3 DEF ForgeSet
      <4>4. ASSUME NEW j \in Jobs, NEW state \in {"left", "queued"},
                   forge' = [forge EXCEPT !.jobs[j] = state]
            PROVE  forge' \in ForgeSet
        BY <4>1, <4>4 DEF ForgeSet
      <4> QED BY <3>1, <4>1, <4>2, <4>3, <4>4
    <3> QED BY <2>1, <3>1, <3>2 DEF AlarmInv, AlarmShape
  <2> QED BY <2>1, <2>2, BookUntouched
<1>3. CASE Restart
  <2>1. UNCHANGED <<forge, planned, book, standing>> /\ online' = Unknown
        /\ minute' = IdleMinute /\ sweep' = IdleSweep
    BY <1>3 DEF Restart, theForge
  <2>2. AlarmShape' /\ minute'.thread.at = "rest" /\ sweep'.thread.at = "rest"
    BY <2>1, IdleThreadsAre DEF AlarmInv, AlarmShape
  <2> QED BY <2>1, <2>2 DEF AlarmInv, HasBook, RaisedOnce
<1> QED BY <1>1, <1>2, <1>3, MinuteKeeps, SweepKeeps, MinutePassesKeeps, AcknowledgeKeeps
        DEF AlarmsNext

\* An alarm is recorded as raised once until its condition ends, with any number of runners
\* and jobs, however often the dashboard restarts and an admin acknowledges: the one that
\* records it has the book, as it was read, and nobody else writes it meanwhile.
THEOREM AlarmsRaiseOnce ==
  AlarmsSpec => []RaisedOnce
<1>1. AlarmInv => RaisedOnce
  BY DEF AlarmInv
<1> QED BY <1>1, AlarmsStartInv, AlarmsKeepInv, PTL DEF AlarmsSpec
=============================================================================
