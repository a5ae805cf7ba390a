------------------------------ MODULE LoanProofs ------------------------------
(***************************************************************************)
(* Proofs about the runners that are lent to another dashboard: the leases *)
(* keep what the owner is promised (FederationLeases implements            *)
(* LoanContract), and what the peer is shown follows the lease             *)
(* (ResultDelivery).                                                       *)
(***************************************************************************)
EXTENDS FederationLeases, ResultDelivery, FiniteSetTheorems, TLAPS

(* The leases.                                                             *)

TICKS == [pc : {"asleep", "next", "checked", "publishing", "confirming", "answered"},
          on : SUBSET Requests, left : SUBSET Requests,
          retires : SUBSET Requests, with : SUBSET Requests]

\* The requests of which a runner is there.
There == {q \in Requests : lentRunner[q] \notin {"none", "absent"} \/ q \in onForge}

\* What a tick listed is still so when it comes to it, and a runner is there only
\* while its place is taken.
LendingInv ==
  /\ \A q \in tick.left \cap tick.retires : lending[q] = "retiring"
  /\ tick.pc \in {"checked", "publishing", "confirming", "answered"} =>
       \A q \in tick.on : lending[q] \in {"activating", "retiring"}
  /\ \A q \in plans : lentRunner[q] = "planned"
  /\ \A q \in onForge : lentRunner[q] # "none"
  /\ \A q \in There : lending[q] \in LIVE_LEASES

\* How a step moves the tick.
LEMMA TickMoves ==
  ASSUME LendingTypeOK, NEW q \in Requests
  PROVE  /\ \A pc \in {"next", "checked", "publishing", "confirming", "answered"} :
              TickTo(pc, q) => /\ tick' \in TICKS /\ tick'.pc = pc /\ tick'.on = {q}
                               /\ tick'.left = tick.left /\ tick'.retires = tick.retires
         /\ Done(q) => /\ tick' \in TICKS /\ tick'.pc \in {"asleep", "next"}
                       /\ tick'.left = tick.left \ {q}
                       /\ tick'.left \cap tick'.retires \subseteq (tick.left \ {q}) \cap tick.retires
<1>1. tick \in TICKS
  BY DEF LendingTypeOK, TICKS
<1>2. ASSUME NEW pc \in {"next", "checked", "publishing", "confirming", "answered"},
             TickTo(pc, q)
      PROVE  /\ tick' \in TICKS /\ tick'.pc = pc /\ tick'.on = {q}
             /\ tick'.left = tick.left /\ tick'.retires = tick.retires
  BY <1>1, <1>2 DEF TickTo, TICKS
<1>3. ASSUME Done(q)
      PROVE  /\ tick' \in TICKS /\ tick'.pc \in {"asleep", "next"}
             /\ tick'.left = tick.left \ {q}
             /\ tick'.left \cap tick'.retires \subseteq (tick.left \ {q}) \cap tick.retires
  <2>1. CASE tick.left = {q}
    BY <1>3, <2>1 DEF Done, NoTick, TICKS
  <2>2. CASE tick.left # {q}
    BY <1>1, <1>3, <2>2 DEF Done, TICKS
  <2> QED BY <2>1, <2>2
<1> QED BY <1>2, <1>3

LEMMA LendingInitTypes == LendingInit => LendingTypeOK /\ LendingInv
<1> SUFFICES ASSUME LendingInit PROVE LendingTypeOK /\ LendingInv
  OBVIOUS
<1>1. tick \in TICKS /\ tick.left = {} /\ tick.on = {}
  BY DEF LendingInit, NoTick, TICKS
<1>2. peer \in [enabled : BOOLEAN, max : 0 .. MaxRunners]
  BY LendingAssumption DEF LendingInit
<1>3. policies \in 0 .. MaxPolicies /\ lendingFaults \in 0 .. MaxLendingFaults
  BY LendingAssumption DEF LendingInit
<1>4. LendingTypeOK
  BY <1>1, <1>2, <1>3 DEF LendingInit, LendingTypeOK, TICKS, LEASE_STATES
<1> QED BY <1>1, <1>4 DEF LendingInit, LendingInv, There

\* What any step does to the leases: the moves of one request, and of all of
\* them when a tick sweeps or the owner revokes.
Sweeps ==
  \A q \in Requests :
    \/ lending'[q] = lending[q]
    \/ lending[q] = "pending" /\ lending'[q] = "denied"
    \/ lending[q] \in PERMITTED /\ lending'[q] = "retiring"

LEMMA SweepMoves ==
  ASSUME LendingTypeOK, BeginTick \/ Revoke
  PROVE  Sweeps /\ lending' \in [Requests -> LEASE_STATES]
<1>1. CASE BeginTick
  <2>1. lending' = [q \in Requests |-> Swept(q)]
    BY <1>1 DEF BeginTick
  <2>2. ASSUME NEW q \in Requests
        PROVE  \/ Swept(q) = lending[q]
               \/ lending[q] = "pending" /\ Swept(q) = "denied"
               \/ lending[q] \in PERMITTED /\ Swept(q) = "retiring"
    <3>1. \/ Overdue(q) = lending[q]
          \/ lending[q] = "pending" /\ Overdue(q) = "denied"
          \/ lending[q] \in PERMITTED /\ Overdue(q) = "retiring"
      BY DEF Overdue, PERMITTED
    <3> HIDE DEF Overdue
    <3> QED BY <3>1 DEF Swept, PERMITTED
  <2>3. \A q \in Requests : Swept(q) \in LEASE_STATES
    BY <2>2 DEF LendingTypeOK, LEASE_STATES, LIVE_LEASES
  <2> QED BY <2>1, <2>2, <2>3 DEF Sweeps
<1>2. CASE Revoke
  <2>1. lending' = [q \in Requests |->
          CASE lending[q] = "pending" -> "denied" [] lending[q] \in PERMITTED -> "retiring"
            [] OTHER -> lending[q]]
    BY <1>2 DEF Revoke
  <2> QED BY <2>1 DEF Sweeps, PERMITTED, LendingTypeOK, LEASE_STATES, LIVE_LEASES
<1> QED BY <1>1, <1>2

\* A step of a tick on one request: a lease goes on, ends, or is over because
\* nothing of it is there.
LEMMA TickWorks ==
  ASSUME LendingTypeOK, LendingInv, NEW q \in Requests,
         \/ ProvenAbsent(q) \/ AskedToLeave(q) \/ PutOff(q) \/ Skip(q) \/ Recheck(q)
         \/ NoCredential(q) \/ StartProvision(q) \/ Publish(q) \/ Confirm(q) \/ Respond(q)
  PROVE  /\ \/ lending' = lending
            \/ /\ lending[q] \in PERMITTED
               /\ \E s \in {"activating", "active", "retiring"} :
                    lending' = [lending EXCEPT ![q] = s]
            \/ lending[q] = "retiring" /\ lending' = [lending EXCEPT ![q] = "retiring"]
            \/ /\ lending[q] = "retiring" /\ lending' = [lending EXCEPT ![q] = "expired"]
               /\ q \notin There
         /\ \/ lentRunner' = lentRunner
            \/ /\ lending[q] \in PERMITTED /\ lending' = lending
               /\ lentRunner' = [lentRunner EXCEPT ![q] = "planned"]
               /\ lentRunner[q] = "none"
         /\ tick' \in TICKS
         /\ \A r \in tick'.left \cap tick'.retires : r \in tick.left \cap tick.retires /\ lending'[r] = lending[r]
         /\ tick'.pc \in {"checked", "publishing", "confirming", "answered"} =>
              tick'.on = {q} /\ lending'[q] \in {"activating", "retiring"}
         /\ UNCHANGED <<clock, onForge, plans, limits>>
         /\ leaves' \subseteq Requests /\ sealed' \subseteq Requests
         /\ retryAt' \in [Requests -> {"none", "later", "now"}]
         /\ stirred' \in BOOLEAN /\ lendingFaults' \in 0 .. MaxLendingFaults
<1> USE DEF LendingTypeOK, fates, clock, runners, limits
<1>0. lendingFaults \in 0 .. MaxLendingFaults /\ (LendingFault => lendingFaults' \in 0 .. MaxLendingFaults)
  BY LendingAssumption DEF LendingFault
<1>1. CASE ProvenAbsent(q)
  <2>1. q \notin There
    BY <1>1 DEF ProvenAbsent, NoneLeft, There, LendingInv
  <2>2. lending[q] = "retiring"
    BY <1>1 DEF ProvenAbsent, Retires, LendingInv
  <2>3. lending' = [lending EXCEPT ![q] = "expired"] /\ Done(q)
    BY <1>1 DEF ProvenAbsent, EndLease
  <2> QED BY <1>0, <1>1, <2>1, <2>2, <2>3, TickMoves DEF ProvenAbsent, EndLease, Free
<1>2. CASE AskedToLeave(q)
  BY <1>0, <1>2, TickMoves DEF AskedToLeave, Free
<1>3. CASE PutOff(q)
  BY <1>0, <1>3, TickMoves DEF PutOff, Free
<1>4. CASE Skip(q)
  BY <1>0, <1>4, TickMoves DEF Skip, Free
<1>5. ASSUME Failed(q), lending[q] \in {"activating", "retiring"},
             Free \/ LendingFault
      PROVE  /\ lending' = [lending EXCEPT ![q] = "retiring"] /\ Done(q)
             /\ UNCHANGED <<retryAt, clock, runners, limits>>
             /\ sealed' \subseteq Requests /\ stirred' \in BOOLEAN
             /\ lendingFaults' \in 0 .. MaxLendingFaults
  BY <1>0, <1>5 DEF Failed, EndLease, Free
<1>6. CASE Recheck(q)
  <2>1. CASE WithinLimits
    <3>1. /\ lending' = [lending EXCEPT ![q] = "activating"] /\ TickTo("checked", q)
          /\ lending[q] \in PERMITTED
      BY <1>6, <2>1 DEF Recheck, PERMITTED
    <3>2. q \notin tick.left \cap tick.retires
      BY <1>6 DEF Recheck, Works
    <3>3. stirred' \in BOOLEAN
      BY <1>6, <2>1, Zenon DEF Recheck
    <3> QED BY <1>0, <1>6, <2>1, <3>1, <3>2, <3>3, TickMoves DEF Recheck, Free
  <2>2. CASE ~WithinLimits
    <3>1. /\ lending' = [lending EXCEPT ![q] = "retiring"] /\ Done(q)
          /\ lending[q] \in PERMITTED
      BY <1>6, <2>2 DEF Recheck, PERMITTED, EndLease
    <3> QED BY <1>0, <1>6, <2>2, <3>1, TickMoves DEF Recheck, Free, EndLease
  <2> QED BY <2>1, <2>2
<1>7. ASSUME TickAt("checked", q) \/ TickAt("publishing", q) \/ TickAt("confirming", q)
             \/ TickAt("answered", q)
      PROVE  lending[q] \in {"activating", "retiring"}
  BY <1>7 DEF TickAt, LendingInv
<1>8. ASSUME Failed(q), Free \/ LendingFault, lending[q] \in {"activating", "retiring"}
      PROVE  /\ lending' = [lending EXCEPT ![q] = "retiring"]
             /\ lending[q] \in PERMITTED \cup {"retiring"}
             /\ lentRunner' = lentRunner
             /\ tick' \in TICKS /\ tick'.pc \notin {"checked", "publishing", "confirming", "answered"}
             /\ \A r \in tick'.left \cap tick'.retires : r \in tick.left \cap tick.retires /\ r # q
             /\ UNCHANGED <<clock, onForge, plans, leaves, retryAt, limits>>
             /\ sealed' \subseteq Requests /\ stirred' \in BOOLEAN
             /\ lendingFaults' \in 0 .. MaxLendingFaults
  BY <1>5, <1>8, TickMoves DEF PERMITTED
<1>9. CASE NoCredential(q)
  BY <1>7, <1>8, <1>9 DEF NoCredential
<1>10. ASSUME NEW pc \in {"publishing", "confirming", "answered"}, TickTo(pc, q),
              lending[q] \in {"activating", "retiring"},
              UNCHANGED <<fates, clock, runners, limits, stirred>>, Free
       PROVE  /\ lending' = lending /\ lentRunner' = lentRunner
              /\ tick' \in TICKS /\ tick'.on = {q} /\ tick'.left = tick.left
              /\ tick'.retires = tick.retires /\ lending'[q] \in {"activating", "retiring"}
              /\ UNCHANGED <<clock, onForge, plans, leaves, limits, sealed, retryAt, stirred, lendingFaults>>
  BY <1>10, TickMoves DEF Free
<1>11. CASE StartProvision(q)
  <2>1. CASE TickTo("publishing", q) /\ UNCHANGED <<fates, clock, runners, limits, stirred>> /\ Free
    BY <1>0, <1>7, <1>10, <1>11, <2>1 DEF StartProvision
  <2>2. CASE Pend(q)
    BY <1>0, <2>2, TickMoves DEF Pend, Free
  <2>3. CASE Failed(q) /\ (Free \/ LendingFault)
    BY <1>7, <1>8, <1>11, <2>3 DEF StartProvision
  <2> QED BY <1>11, <2>1, <2>2, <2>3 DEF StartProvision
<1>12. CASE Publish(q)
  <2>1. CASE lentRunner' = [lentRunner EXCEPT ![q] = "planned"] /\ MayPublish(q) /\ lentRunner[q] = "none"
             /\ stirred' = TRUE /\ Done(q) /\ UNCHANGED <<fates, clock, leaves, onForge, plans, limits>> /\ Free
    BY <1>0, <2>1, TickMoves DEF MayPublish, StillPermitted, Free
  <2>2. CASE TickTo("confirming", q) /\ UNCHANGED <<fates, clock, runners, limits, stirred>> /\ Free
    BY <1>0, <1>7, <1>10, <1>12, <2>2 DEF Publish
  <2>3. CASE Failed(q) /\ Free
    BY <1>7, <1>8, <1>12, <2>3 DEF Publish
  <2> QED BY <1>12, <2>1, <2>2, <2>3 DEF Publish
<1>13. CASE Confirm(q)
  <2>1. CASE TickTo("answered", q) /\ UNCHANGED <<fates, clock, runners, limits, stirred>> /\ Free
    BY <1>0, <1>7, <1>10, <1>13, <2>1 DEF Confirm
  <2>2. CASE Failed(q) /\ (Free \/ LendingFault)
    BY <1>7, <1>8, <1>13, <2>2 DEF Confirm
  <2> QED BY <1>13, <2>1, <2>2 DEF Confirm
<1>14. CASE Respond(q)
  <2>1. lending[q] \in {"activating", "retiring"}
    BY <1>7, <1>14 DEF Respond
  <2>2. /\ lending' = [lending EXCEPT ![q] = AfterProvision(q)] /\ Done(q)
        /\ sealed' = sealed \ {q} /\ stirred' = TRUE
    BY <1>14 DEF Respond, EndLease
  <2>3. \/ AfterProvision(q) = "active" /\ lending[q] \in PERMITTED
        \/ AfterProvision(q) = "retiring"
    BY <2>1 DEF AfterProvision, PERMITTED
  <2>4. lending[q] \in PERMITTED \cup {"retiring"}
    BY <2>1 DEF PERMITTED
  <2> HIDE DEF AfterProvision
  <2> QED BY <1>0, <1>14, <2>2, <2>3, <2>4, TickMoves, ZenonT(40) DEF Respond, Free
<1> QED
  BY <1>1, <1>2, <1>3, <1>4, <1>6, <1>9, <1>11, <1>12, <1>13, <1>14

\* A tick that begins works on what it lists: what retires is retiring.
LEMMA TickBegins ==
  ASSUME LendingTypeOK, BeginTick
  PROVE  /\ tick' \in TICKS /\ tick'.pc \in {"asleep", "next"}
         /\ \A q \in tick'.left \cap tick'.retires : lending'[q] = "retiring"
         /\ sealed' \subseteq Requests /\ stirred' \in BOOLEAN
<1> DEFINE work == {q \in Requests : lending'[q] \in {"approved", "activating"}
                                     \/ (lending'[q] = "retiring" /\ retryAt[q] # "later")}
           listed == [pc |-> "next", on |-> {}, left |-> work, with |-> sealed' \cap work,
                      retires |-> {q \in work : lending'[q] = "retiring"}]
<1>1. tick' = IF work = {} THEN NoTick ELSE listed
  BY DEF BeginTick
<1>2. NoTick \in TICKS /\ NoTick.pc = "asleep" /\ NoTick.left = {}
  BY DEF NoTick, TICKS
<1>3. listed \in TICKS /\ listed.pc = "next" /\ listed.retires = {q \in work : lending'[q] = "retiring"}
  BY DEF TICKS
<1>4. sealed' \subseteq Requests
  BY DEF BeginTick, LendingTypeOK
<1>5. stirred' \in BOOLEAN
  BY Zenon DEF BeginTick
<1> QED BY <1>1, <1>2, <1>3, <1>4, <1>5

LEMMA LendingTypesKept ==
  ASSUME LendingTypeOK, LendingInv, [LendingNext]_lendingVars
  PROVE  LendingTypeOK'
<1> USE DEF LendingTypeOK, fates, clock, runners, limits, Free, TICKS
<1>0. /\ lendingFaults \in 0 .. MaxLendingFaults
      /\ LendingFault => lendingFaults' \in 0 .. MaxLendingFaults
      /\ policies < MaxPolicies => policies + 1 \in 0 .. MaxPolicies
  BY LendingAssumption DEF LendingFault
<1>1. ASSUME NEW q \in Requests, Submit(q) \/ Approve(q) \/ Deny(q)
      PROVE  LendingTypeOK'
  <2>1. lending' \in [Requests -> LEASE_STATES] /\ sealed' \subseteq Requests
    <3>1. "pending" \in LEASE_STATES /\ "approved" \in LEASE_STATES /\ "denied" \in LEASE_STATES
      BY DEF LEASE_STATES, LIVE_LEASES, PERMITTED
    <3>2. CASE Submit(q)
      BY <3>1, <3>2 DEF Submit
    <3>3. CASE Approve(q)
      BY <3>1, <3>3 DEF Approve
    <3>4. CASE Deny(q)
      BY <3>1, <3>4 DEF Deny
    <3> QED BY <1>1, <3>2, <3>3, <3>4
  <2>2. /\ UNCHANGED <<due, stale, leaves, onForge, plans, retryAt, peer, lentRunner, tick,
                       policies, lendingFaults>>
        /\ stirred' = TRUE
    BY <1>1 DEF Submit, Approve, Deny
  <2>3. stirred' \in BOOLEAN
    BY <2>2
  <2> QED BY <2>1, <2>2, <2>3
<1>2. ASSUME NEW n \in 0 .. MaxRunners, SetPolicy(n)
      PROVE  LendingTypeOK'
  <2>1. peer' \in [enabled : BOOLEAN, max : 0 .. MaxRunners]
    BY <1>2 DEF SetPolicy
  <2> QED BY <1>0, <1>2, <2>1 DEF SetPolicy
<1>3. CASE Revoke
  <2>1. peer' \in [enabled : BOOLEAN, max : 0 .. MaxRunners]
    BY <1>3 DEF Revoke
  <2>2. lending' \in [Requests -> LEASE_STATES] /\ sealed' \subseteq Requests
    BY <1>3, SweepMoves DEF Revoke
  <2>3. policies' \in 0 .. MaxPolicies /\ stirred' = TRUE
        /\ UNCHANGED <<due, stale, retryAt, lentRunner, leaves, onForge, plans, tick, lendingFaults>>
    BY <1>0, <1>3 DEF Revoke
  <2> QED BY <1>0, <2>1, <2>2, <2>3
<1>4. ASSUME NEW q \in Requests, LeaseEnds(q) \/ CredentialEnds(q) \/ RetryComes(q)
      PROVE  LendingTypeOK'
  BY <1>0, <1>4 DEF LeaseEnds, CredentialEnds, RetryComes
<1>5. CASE BeginTick
  <2>1. lending' \in [Requests -> LEASE_STATES]
    BY <1>5, SweepMoves
  <2>2. UNCHANGED <<retryAt, due, stale, lentRunner, leaves, onForge, plans, peer, policies, lendingFaults>>
    BY <1>5 DEF BeginTick
  <2> QED BY <1>0, <1>5, <2>1, <2>2, TickBegins
<1>6. ASSUME NEW q \in Requests,
             \/ ProvenAbsent(q) \/ AskedToLeave(q) \/ PutOff(q) \/ Skip(q) \/ Recheck(q)
             \/ NoCredential(q) \/ StartProvision(q) \/ Publish(q) \/ Confirm(q) \/ Respond(q)
      PROVE  LendingTypeOK'
  <2>1. lending' \in [Requests -> LEASE_STATES]
    BY <1>6, TickWorks DEF LEASE_STATES, LIVE_LEASES, PERMITTED
  <2>2. lentRunner' \in [Requests -> {"none", "planned", "serving", "failed", "absent"}]
    BY <1>6, TickWorks
  <2>3. tick' \in TICKS /\ leaves' \subseteq Requests /\ sealed' \subseteq Requests
        /\ retryAt' \in [Requests -> {"none", "later", "now"}] /\ stirred' \in BOOLEAN
        /\ lendingFaults' \in 0 .. MaxLendingFaults
    BY <1>6, TickWorks
  <2>4. UNCHANGED <<due, stale, onForge, plans, peer, policies>>
    BY <1>6, TickWorks
  <2> QED BY <2>1, <2>2, <2>3, <2>4
<1>7. CASE TickDies
  <2>1. tick' \in TICKS
    BY <1>7 DEF TickDies, NoTick
  <2> QED BY <1>0, <1>7, <2>1 DEF TickDies
<1>8. ASSUME NEW q \in Requests,
             Plan(q) \/ Register(q) \/ LentBreaks(q) \/ Deregister(q) \/ Leave(q)
      PROVE  LendingTypeOK'
  <2>1. UNCHANGED <<lending, sealed, retryAt, due, stale, peer, policies, tick>> /\ stirred' \in BOOLEAN
    BY <1>8 DEF Plan, Register, LentBreaks, Deregister, Leave, RunnerChanges
  <2>2. lentRunner' \in [Requests -> {"none", "planned", "serving", "failed", "absent"}]
    BY <1>8 DEF Plan, Register, LentBreaks, Deregister, Leave
  <2>3. leaves' \subseteq Requests /\ onForge' \subseteq Requests /\ plans' \subseteq Requests
    BY <1>8 DEF Plan, Register, LentBreaks, Deregister, Leave
  <2>4. lendingFaults' \in 0 .. MaxLendingFaults
    BY <1>0, <1>8 DEF Plan, Register, LentBreaks, Deregister, Leave
  <2> QED BY <2>1, <2>2, <2>3, <2>4
<1>9. CASE UNCHANGED lendingVars
  BY <1>9 DEF lendingVars
<1> QED
  BY <1>1, <1>2, <1>3, <1>4, <1>5, <1>6, <1>7, <1>8, <1>9 DEF LendingNext, TickStep

LEMMA LendingInvKept ==
  ASSUME LendingTypeOK, LendingInv, [LendingNext]_lendingVars
  PROVE  LendingInv'
<1> USE DEF LendingInv, There, fates, clock, runners, limits
<1>0. lending \in [Requests -> LEASE_STATES]
      /\ lentRunner \in [Requests -> {"none", "planned", "serving", "failed", "absent"}]
      /\ onForge \subseteq Requests /\ plans \subseteq Requests /\ tick \in TICKS
  BY DEF LendingTypeOK, TICKS
<1>1. ASSUME NEW q \in Requests, Submit(q) \/ Approve(q) \/ Deny(q)
      PROVE  LendingInv'
  <2>1. /\ lending[q] \in {"none", "pending"}
        /\ \E s \in {"pending", "approved", "denied"} : lending' = [lending EXCEPT ![q] = s]
        /\ UNCHANGED <<tick, lentRunner, onForge, plans>>
    BY <1>1 DEF Submit, Approve, Deny
  <2> QED BY <1>0, <2>1 DEF LIVE_LEASES, PERMITTED
<1>2. CASE UNCHANGED <<lending, tick, lentRunner, onForge, plans>>
  BY <1>2
<1>3. ASSUME Sweeps
      PROVE  \A q \in Requests : /\ lending[q] = "retiring" => lending'[q] = "retiring"
                                 /\ lending[q] = "activating" => lending'[q] \in {"activating", "retiring"}
                                 /\ lending[q] \in LIVE_LEASES => lending'[q] \in LIVE_LEASES
  BY <1>3 DEF Sweeps, PERMITTED, LIVE_LEASES
<1>4. CASE Revoke
  <2>1. UNCHANGED <<tick, lentRunner, onForge, plans>> /\ Sweeps
    BY <1>4, SweepMoves DEF Revoke
  <2> QED BY <1>0, <1>3, <2>1 DEF TICKS
<1>5. CASE BeginTick
  <2>1. UNCHANGED <<lentRunner, onForge, plans>> /\ Sweeps
    BY <1>5, SweepMoves DEF BeginTick
  <2> QED BY <1>0, <1>3, <1>5, <2>1, TickBegins
<1>6. ASSUME NEW q \in Requests,
             \/ ProvenAbsent(q) \/ AskedToLeave(q) \/ PutOff(q) \/ Skip(q) \/ Recheck(q)
             \/ NoCredential(q) \/ StartProvision(q) \/ Publish(q) \/ Confirm(q) \/ Respond(q)
      PROVE  LendingInv'
  <2>1. \A r \in tick'.left \cap tick'.retires : lending'[r] = "retiring"
    BY <1>6, TickWorks
  <2>2. tick'.pc \in {"checked", "publishing", "confirming", "answered"} =>
          \A r \in tick'.on : lending'[r] \in {"activating", "retiring"}
    BY <1>6, TickWorks
  <2>3. onForge' = onForge /\ plans' = plans
    BY <1>6, TickWorks
  <2>4. CASE lentRunner' = lentRunner
    <3>1. There' = There
      BY <2>3, <2>4
    <3>2. \A r \in There : lending'[r] \in LIVE_LEASES
      BY <1>0, <1>6, TickWorks DEF LIVE_LEASES, PERMITTED
    <3> QED BY <2>1, <2>2, <2>3, <2>4, <3>1, <3>2
  <2>5. CASE lentRunner' # lentRunner
    <3>1. /\ lending[q] \in PERMITTED /\ lending' = lending
          /\ lentRunner' = [lentRunner EXCEPT ![q] = "planned"] /\ lentRunner[q] = "none"
      BY <1>6, <2>5, TickWorks
    <3> QED BY <1>0, <2>1, <2>2, <2>3, <3>1 DEF LIVE_LEASES
  <2> QED BY <2>4, <2>5
<1>7. CASE TickDies
  BY <1>7 DEF TickDies, NoTick
<1>8. ASSUME NEW q \in Requests,
             Plan(q) \/ Register(q) \/ LentBreaks(q) \/ Deregister(q) \/ Leave(q)
      PROVE  LendingInv'
  <2>1. UNCHANGED <<lending, tick>>
    BY <1>8 DEF Plan, Register, LentBreaks, Deregister, Leave, RunnerChanges
  <2>2. CASE Plan(q)
    BY <1>0, <2>1, <2>2 DEF Plan
  <2>3. CASE Register(q)
    BY <1>0, <2>1, <2>3 DEF Register
  <2>4. CASE LentBreaks(q)
    BY <1>0, <2>1, <2>4 DEF LentBreaks
  <2>5. CASE Deregister(q)
    BY <1>0, <2>1, <2>5 DEF Deregister
  <2>6. CASE Leave(q)
    BY <1>0, <2>1, <2>6 DEF Leave
  <2> QED BY <1>8, <2>2, <2>3, <2>4, <2>5, <2>6
<1>9. ASSUME NEW n \in 0 .. MaxRunners, SetPolicy(n)
      PROVE  LendingInv'
  BY <1>2, <1>9 DEF SetPolicy
<1>10. ASSUME NEW q \in Requests, LeaseEnds(q) \/ CredentialEnds(q) \/ RetryComes(q)
       PROVE  LendingInv'
  BY <1>2, <1>10 DEF LeaseEnds, CredentialEnds, RetryComes
<1>11. CASE UNCHANGED lendingVars
  BY <1>2, <1>11 DEF lendingVars
<1> QED
  BY <1>1, <1>4, <1>5, <1>6, <1>7, <1>8, <1>9, <1>10, <1>11 DEF LendingNext, TickStep

\* What the owner and the peer are promised, spelled out: how a loan goes on.
LoanGoes(q) ==
  <<LoanOf(q), LoanOf(q)'>> \in
    {<<"none", "asked">>, <<"asked", "refused">>, <<"asked", "given">>,
     <<"given", "ending">>, <<"ending", "over">>}

\* The places that are taken are those of the leases that are occupied.
LEMMA TakenIsOccupied ==
  ASSUME NEW loans, NEW occupied,
         \A q \in Requests : loans[q] \in {"given", "ending"} <=> q \in occupied,
         occupied \subseteq Requests
  PROVE  Loans!Taken(loans) = Cardinality(occupied)
<1>1. {q \in Requests : loans[q] \in {"given", "ending"}} = occupied
  OBVIOUS
<1> QED BY <1>1, Zenon DEF Loans!Taken, Loans!Cardinality, Cardinality

LEMMA LoanStates ==
  ASSUME LendingTypeOK, NEW q \in Requests
  PROVE  /\ lending[q] = "none" <=> LoanOf(q) = "none"
         /\ lending[q] = "pending" <=> LoanOf(q) = "asked"
         /\ lending[q] = "denied" <=> LoanOf(q) = "refused"
         /\ lending[q] \in PERMITTED <=> LoanOf(q) = "given"
         /\ lending[q] = "retiring" <=> LoanOf(q) = "ending"
         /\ lending[q] = "expired" <=> LoanOf(q) = "over"
BY DEF LoanOf, LendingTypeOK, LEASE_STATES, LIVE_LEASES, PERMITTED

\* A step is one of the contract's when no loan is given by it, no more runners
\* are there, and those that are not any more were given or ending.
LEMMA NothingIsGiven ==
  ASSUME LendingTypeOK, LendingTypeOK',
         \A q \in Requests : LoanOf(q)' = LoanOf(q) \/ LoanGoes(q),
         \A q \in Requests : ~(LoanOf(q) = "asked" /\ LoanOf(q)' = "given"),
         \A q \in Requests : LoanOf(q) = "ending" /\ LoanOf(q)' = "over" => q \notin There',
         \A q \in There' \ There : LoanOf(q) = "given" /\ LoanOf(q)' = "given",
         \A q \in There \ There' : LoanOf(q) \in {"given", "ending"},
         peer' # peer => There' = There /\ \A q \in Requests : LoanOf(q)' = "given" => LoanOf(q) = "given"
  PROVE  Loans!LoanNext
<1>1. \A q \in Requests : /\ [r \in Requests |-> LoanOf(r)][q] = LoanOf(q)
                          /\ [r \in Requests |-> LoanOf(r)]'[q] = LoanOf(q)'
  OBVIOUS
<1>2. Loans!LoanStep
  BY <1>1 DEF Loans!LoanStep, Loans!Goes, LoanGoes, There
<1>3. Loans!RunnerStep
  BY <1>1 DEF Loans!RunnerStep, There
<1>4. peer' = peer => (IF peer.enabled THEN peer.max ELSE 0)' = (IF peer.enabled THEN peer.max ELSE 0)
  OBVIOUS
<1> QED BY <1>1, <1>2, <1>3, <1>4 DEF Loans!LoanNext, There

\* Every step of the lending dashboard is one of the contract's.
LEMMA LendingStepsAreLoanSteps ==
  ASSUME LendingTypeOK, LendingTypeOK', LendingInv, LendingInv', [LendingNext]_lendingVars
  PROVE  Loans!LoanNext \/ UNCHANGED Loans!loanVars
<1> USE DEF fates, clock, runners, limits
<1>0. /\ lending \in [Requests -> LEASE_STATES] /\ onForge \subseteq Requests
      /\ lentRunner \in [Requests -> {"none", "planned", "serving", "failed", "absent"}]
  BY DEF LendingTypeOK
<1>1. ASSUME UNCHANGED <<lending, lentRunner, onForge>>, peer' = peer \/ peer' # peer
      PROVE  Loans!LoanNext
  <2>1. There' = There /\ \A q \in Requests : LoanOf(q)' = LoanOf(q)
    BY <1>1 DEF There, LoanOf
  <2>2. \A q \in Requests : ~(LoanOf(q) = "asked" /\ LoanOf(q)' = "given")
                            /\ ~(LoanOf(q) = "ending" /\ LoanOf(q)' = "over")
    BY <2>1
  <2> QED BY <2>1, <2>2, NothingIsGiven
<1>2. ASSUME UNCHANGED <<lentRunner, onForge, peer>>, NEW q \in Requests, NEW s,
             lending' = [lending EXCEPT ![q] = s],
             \/ <<lending[q], s>> \in {<<"none", "pending">>, <<"pending", "denied">>}
             \/ lending[q] \in PERMITTED /\ s \in {"activating", "active", "retiring"}
             \/ lending[q] = "retiring" /\ s = "retiring"
             \/ lending[q] = "retiring" /\ s = "expired" /\ q \notin There
      PROVE  Loans!LoanNext
  <2>1. There' = There
    BY <1>2 DEF There
  <2>2. \A r \in Requests : r # q => LoanOf(r)' = LoanOf(r)
    BY <1>0, <1>2 DEF LoanOf
  <2>3. lending'[q] = s
    BY <1>0, <1>2
  <2>4. LoanOf(q)' = LoanOf(q) \/ LoanGoes(q)
    BY <1>2, <2>3 DEF LoanOf, LoanGoes, PERMITTED
  <2>5. ~(LoanOf(q) = "asked" /\ LoanOf(q)' = "given")
    BY <1>2, <2>3, LoanStates DEF LoanOf, PERMITTED
  <2>6. LoanOf(q) = "ending" /\ LoanOf(q)' = "over" => q \notin There'
    BY <1>2, <2>1, <2>3, LoanStates DEF LoanOf, PERMITTED
  <2>7. \A r \in Requests : ~(LoanOf(r) = "asked" /\ LoanOf(r)' = "given")
    BY <2>2, <2>5
  <2>8. \A r \in Requests : LoanOf(r) = "ending" /\ LoanOf(r)' = "over" => r \notin There'
    BY <2>2, <2>6
  <2> QED BY <1>2, <2>1, <2>2, <2>4, <2>7, <2>8, NothingIsGiven
<1>3. ASSUME Sweeps, UNCHANGED <<lentRunner, onForge>>, lending' \in [Requests -> LEASE_STATES]
      PROVE  Loans!LoanNext
  <2>1. There' = There
    BY <1>3 DEF There
  <2>2. ASSUME NEW q \in Requests
        PROVE  /\ LoanOf(q)' = LoanOf(q) \/ LoanGoes(q)
               /\ ~(LoanOf(q) = "asked" /\ LoanOf(q)' = "given")
               /\ ~(LoanOf(q) = "ending" /\ LoanOf(q)' = "over")
               /\ LoanOf(q)' = "given" => LoanOf(q) = "given"
    BY <1>3 DEF Sweeps, LoanOf, LoanGoes, PERMITTED
  <2> QED BY <2>1, <2>2, NothingIsGiven
<1>4. ASSUME NEW q \in Requests, Submit(q)
      PROVE  Loans!LoanNext
  BY <1>2, <1>4 DEF Submit
<1>5. ASSUME NEW q \in Requests, Deny(q)
      PROVE  Loans!LoanNext
  BY <1>2, <1>5 DEF Deny
<1>6. ASSUME NEW q \in Requests, Approve(q)
      PROVE  Loans!LoanNext
  <2>1. /\ lending[q] = "pending" /\ lending' = [lending EXCEPT ![q] = "approved"]
        /\ Cardinality(Occupied) < peer.max /\ peer.enabled
        /\ UNCHANGED <<lentRunner, onForge, peer>>
    BY <1>6 DEF Approve, Allowed
  <2>2. There' = There
    BY <2>1 DEF There
  <2>3. \A r \in Requests : r # q => LoanOf(r)' = LoanOf(r)
    BY <1>0, <2>1 DEF LoanOf
  <2>4. LoanOf(q) = "asked" /\ LoanOf(q)' = "given"
    BY <1>0, <2>1 DEF LoanOf, PERMITTED
  <2>5. Occupied' = Occupied \cup {q} /\ q \notin Occupied
    BY <1>0, <2>1 DEF Occupied, LIVE_LEASES, PERMITTED
  <2>6. IsFiniteSet(Occupied)
    BY LendingAssumption, FS_Subset DEF Occupied
  <2>7. Cardinality(Occupied') = Cardinality(Occupied) + 1 /\ Cardinality(Occupied) \in Nat
    BY <2>5, <2>6, FS_AddElement, FS_CardinalityType
  <2>8. Cardinality(Occupied') <= peer.max
    BY <2>1, <2>7, LendingAssumption DEF LendingTypeOK
  <2> DEFINE loans == [r \in Requests |-> LoanOf(r)]
             quota == IF peer.enabled THEN peer.max ELSE 0
  <2>9. Loans!Taken(loans) = Cardinality(Occupied)
    <3>1. \A r \in Requests : loans[r] \in {"given", "ending"} <=> r \in Occupied
      BY LoanStates DEF Occupied, LIVE_LEASES
    <3> HIDE DEF loans
    <3> QED BY <3>1, TakenIsOccupied DEF Occupied
  <2>10. Loans!Taken(loans') = Cardinality(Occupied')
    <3>1. \A r \in Requests : loans'[r] \in {"given", "ending"} <=> r \in Occupied'
      BY DEF Occupied, LoanOf, LendingTypeOK, LEASE_STATES, LIVE_LEASES, PERMITTED
    <3>2. Occupied' \subseteq Requests
      BY DEF Occupied
    <3> HIDE DEF loans
    <3> QED BY <3>1, <3>2, TakenIsOccupied
  <2>11. quota = peer.max /\ quota' = quota
    BY <2>1
  <2>12. \A r \in Requests : loans[r] = LoanOf(r) /\ loans'[r] = LoanOf(r)'
    OBVIOUS
  <2>14. Loans!LoanStep
    <3>1. \A r \in Requests : loans'[r] = loans[r] \/ Loans!Goes(r)
      BY <2>3, <2>4, <2>12 DEF Loans!Goes
    <3>2. Loans!Taken(loans') = Loans!Taken(loans) + 1 /\ Loans!Taken(loans') <= quota
      BY <2>7, <2>8, <2>9, <2>10, <2>11
    <3>3. \A r \in Requests : ~(loans[r] = "ending" /\ loans'[r] = "over")
      BY <2>3, <2>4, <2>12
    <3> HIDE DEF loans
    <3> QED BY <3>1, <3>2, <3>3 DEF Loans!LoanStep, loans
  <2>15. Loans!RunnerStep
    BY <2>2 DEF Loans!RunnerStep, There
  <2> QED BY <2>11, <2>14, <2>15 DEF Loans!LoanNext
<1>7. CASE Revoke \/ BeginTick
  BY <1>3, <1>7, SweepMoves DEF Revoke, BeginTick
<1>8. ASSUME NEW q \in Requests,
             \/ ProvenAbsent(q) \/ AskedToLeave(q) \/ PutOff(q) \/ Skip(q) \/ Recheck(q)
             \/ NoCredential(q) \/ StartProvision(q) \/ Publish(q) \/ Confirm(q) \/ Respond(q)
      PROVE  Loans!LoanNext
  <2>1. UNCHANGED <<onForge, peer>>
    BY <1>8, TickWorks
  <2>2. CASE lentRunner' = lentRunner
    <3>1. CASE lending' = lending
      BY <1>1, <2>1, <2>2, <3>1
    <3>2. CASE lending' # lending
      <4>1. \E s : /\ lending' = [lending EXCEPT ![q] = s]
                   /\ \/ lending[q] \in PERMITTED /\ s \in {"activating", "active", "retiring"}
                      \/ lending[q] = "retiring" /\ s = "retiring"
                      \/ lending[q] = "retiring" /\ s = "expired" /\ q \notin There
        BY <1>8, <3>2, TickWorks
      <4> QED BY <1>2, <2>1, <2>2, <4>1
    <3> QED BY <3>1, <3>2
  <2>3. CASE lentRunner' # lentRunner
    <3>1. /\ lending[q] \in PERMITTED /\ lending' = lending
          /\ lentRunner' = [lentRunner EXCEPT ![q] = "planned"] /\ lentRunner[q] = "none"
      BY <1>8, <2>3, TickWorks
    <3>2. There' = There \cup {q}
      BY <1>0, <2>1, <3>1 DEF There
    <3>3. \A r \in Requests : LoanOf(r)' = LoanOf(r)
      BY <3>1 DEF LoanOf
    <3>4. LoanOf(q) = "given"
      BY <3>1, LoanStates
    <3>5. \A r \in Requests : /\ ~(LoanOf(r) = "asked" /\ LoanOf(r)' = "given")
                              /\ ~(LoanOf(r) = "ending" /\ LoanOf(r)' = "over")
      BY <3>3
    <3> QED BY <2>1, <3>2, <3>3, <3>4, <3>5, NothingIsGiven
  <2> QED BY <2>2, <2>3
<1>9. ASSUME NEW q \in Requests,
             Plan(q) \/ Register(q) \/ LentBreaks(q) \/ Deregister(q) \/ Leave(q)
      PROVE  Loans!LoanNext
  <2>1. UNCHANGED <<lending, peer>>
    BY <1>9 DEF Plan, Register, LentBreaks, Deregister, Leave, RunnerChanges
  <2>2. There' \subseteq There
    BY <1>0, <1>9 DEF Plan, Register, LentBreaks, Deregister, Leave, There, LendingInv
  <2>3. \A r \in Requests : LoanOf(r)' = LoanOf(r)
    BY <2>1 DEF LoanOf
  <2>4. \A r \in Requests : /\ ~(LoanOf(r) = "asked" /\ LoanOf(r)' = "given")
                            /\ ~(LoanOf(r) = "ending" /\ LoanOf(r)' = "over")
    BY <2>3
  <2>5. \A r \in There : LoanOf(r) \in {"given", "ending"}
    BY LoanStates DEF LendingInv, LIVE_LEASES, There
  <2> QED BY <2>1, <2>2, <2>3, <2>4, <2>5, NothingIsGiven
<1>10. CASE TickDies
  BY <1>1, <1>10 DEF TickDies
<1>11. ASSUME NEW q \in Requests, LeaseEnds(q) \/ CredentialEnds(q) \/ RetryComes(q)
       PROVE  Loans!LoanNext
  BY <1>1, <1>11 DEF LeaseEnds, CredentialEnds, RetryComes
<1>12. ASSUME NEW n \in 0 .. MaxRunners, SetPolicy(n)
       PROVE  Loans!LoanNext
  BY <1>1, <1>12 DEF SetPolicy
<1>13. CASE UNCHANGED lendingVars
  BY <1>1, <1>13 DEF lendingVars
<1> QED
  BY <1>4, <1>5, <1>6, <1>7, <1>8, <1>9, <1>10, <1>11, <1>12, <1>13 DEF LendingNext, TickStep

LEMMA LoanBegins ==
  ASSUME LendingInit
  PROVE  Loans!LoanInit
<1>1. \A q \in Requests : LoanOf(q) = "none"
  BY DEF LendingInit, LoanOf, PERMITTED
<1>2. There = {}
  BY DEF LendingInit, There
<1>3. (IF peer.enabled THEN peer.max ELSE 0) = 1
  BY DEF LendingInit
<1> QED BY <1>1, <1>2, <1>3 DEF Loans!LoanInit, There

\* The leases keep what the owner is promised (LoanContract), for any number of
\* requests and limits: whatever is revoked, expires, fails or is cut off while a
\* runner is provisioned.
THEOREM LoansKept == LendingSpec => LoansAreKept
<1> DEFINE Inv == LendingTypeOK /\ LendingInv
<1>1. LendingInit => Inv
  BY LendingInitTypes
<1>2. Inv /\ [LendingNext]_lendingVars => Inv'
  BY LendingTypesKept, LendingInvKept
<1>3. LendingInit => Loans!LoanInit
  BY LoanBegins
<1>4. Inv /\ Inv' /\ [LendingNext]_lendingVars => [Loans!LoanNext]_Loans!loanVars
  BY LendingStepsAreLoanSteps
<1> QED BY <1>1, <1>2, <1>3, <1>4, PTL DEF LendingSpec, LoansAreKept, Loans!LoanSpec

-----------------------------------------------------------------------------
(* What the peer is shown.                                                 *)

SHOWN == {"queued", "delivery-unknown"} \cup LENT

\* How far each state is along the way of a lease.
LEMMA Stages ==
  /\ StageOf("queued") = 0 /\ StageOf("delivery-unknown") = 0
  /\ StageOf("pending") = 1 /\ StageOf("active") = 2 /\ StageOf("retiring") = 3
  /\ StageOf("denied") = 4 /\ StageOf("expired") = 4
  /\ LENT = {"pending", "active", "retiring", "denied", "expired"}
BY DEF StageOf, ENDED, LENT

LEMMA StagesAreNumbers ==
  /\ \A s \in SHOWN : StageOf(s) \in 0 .. 4
  /\ \A s \in LENT : StageOf(s) \in 1 .. 4 /\ (StageOf(s) = 4 <=> s \in ENDED)
BY Stages DEF SHOWN, ENDED

\* How far the lease itself is.
Reached == IF lent = NotLent THEN 0 ELSE StageOf(lent)

\* Pushes go in the order of the lease, and none is ahead of it; what is shown is
\* behind those that are newer, unless it is an end.
DeliveryInv ==
  /\ \A p \in pushes : p.seq <= receipt.seq /\ StageOf(p.state) <= Reached
  /\ \A p, r \in pushes : p.seq <= r.seq => StageOf(p.state) <= StageOf(r.state)
  /\ \A p \in pushes : p.seq > shown.seq /\ shown.state \notin ENDED
                       => StageOf(p.state) >= StageOf(shown.state)
  /\ shown.seq <= receipt.seq /\ StageOf(shown.state) <= Reached
  /\ receipt.sealed => lent # NotLent
  /\ intent # "over" /\ shown.seq = 0 => shown.state = "queued"
  /\ answer # {} \/ replies # {} => lent # NotLent
  /\ "denied" \in answer => lent = "denied"

LEMMA DeliveryInitTypes == DeliveryInit => DeliveryTypeOK /\ DeliveryInv
<1> SUFFICES ASSUME DeliveryInit PROVE DeliveryTypeOK /\ DeliveryInv
  OBVIOUS
<1>1. /\ receipt \in [seq : 0 .. MaxSequence, last : LENT \cup {NotLent},
                      sealed : BOOLEAN, waits : BOOLEAN]
      /\ receipt.seq = 0 /\ receipt.sealed = FALSE
  BY DeliveryAssumption DEF DeliveryInit
<1>2. pushing \in [state : LENT \cup {NotLent}, seq : 0 .. MaxSequence]
  BY DeliveryAssumption DEF DeliveryInit, NoPush
<1>3. shown \in [state : SHOWN, seq : 0 .. MaxSequence] /\ shown.state = "queued" /\ shown.seq = 0
  BY DeliveryAssumption DEF DeliveryInit, SHOWN
<1>4. deliveryFaults \in 0 .. MaxDeliveryFaults
  BY DeliveryAssumption DEF DeliveryInit
<1>5. Reached = 0
  BY DEF DeliveryInit, Reached
<1>6. DeliveryTypeOK
  BY <1>1, <1>2, <1>3, <1>4 DEF DeliveryInit, DeliveryTypeOK, SHOWN
<1>7. DeliveryInv
  BY <1>1, <1>3, <1>5, Stages DEF DeliveryInit, DeliveryInv
<1> QED BY <1>6, <1>7

\* What is known of the fields.
LEMMA DeliveryFields ==
  ASSUME DeliveryTypeOK
  PROVE  /\ receipt.seq \in 0 .. MaxSequence /\ receipt.last \in LENT \cup {NotLent}
         /\ receipt.sealed \in BOOLEAN /\ receipt.waits \in BOOLEAN
         /\ pushing.state \in LENT \cup {NotLent} /\ pushing.seq \in 0 .. MaxSequence
         /\ \A p \in pushes : p.state \in LENT /\ p.seq \in 1 .. MaxSequence
         /\ shown.state \in SHOWN /\ shown.seq \in 0 .. MaxSequence
         /\ Reached \in 0 .. 4
BY StagesAreNumbers DEF DeliveryTypeOK, SHOWN, Reached

RECEIPTS == [seq : 0 .. MaxSequence, last : LENT \cup {NotLent}, sealed : BOOLEAN, waits : BOOLEAN]
PUSHES == [state : LENT, seq : 1 .. MaxSequence]
SHOWN_RESULTS == [state : SHOWN, seq : 0 .. MaxSequence]

LEMMA DeliveryTypesKept ==
  ASSUME DeliveryTypeOK, DeliveryInv, [DeliveryNext]_deliveryVars
  PROVE  DeliveryTypeOK'
<1> USE DEF DeliveryTypeOK, SHOWN, RECEIPTS, Fine
<1>0. /\ deliveryFaults \in 0 .. MaxDeliveryFaults
      /\ DeliveryFault => deliveryFaults' \in 0 .. MaxDeliveryFaults
  BY DeliveryAssumption DEF DeliveryFault
<1>1. ASSUME NEW s \in {"active", "retiring"} \cup ENDED, LeaseGoes(s)
      PROVE  DeliveryTypeOK'
  BY <1>0, <1>1 DEF LeaseGoes, LENT
<1>2. CASE SendIntent
  BY <1>0, <1>2 DEF SendIntent
<1>3. CASE TakeIntent
  <2>1. receipt' \in RECEIPTS
    BY <1>3 DEF TakeIntent
  <2> QED BY <1>0, <1>3, <2>1 DEF TakeIntent, LENT
<1>4. CASE AnswerLater
  BY <1>0, <1>4 DEF AnswerLater
<1>5. CASE TakeAnswer
  <2>1. shown' \in SHOWN_RESULTS
    BY <1>5, Stages DEF TakeAnswer, SHOWN_RESULTS
  <2> QED BY <1>0, <1>5, <2>1 DEF TakeAnswer, SHOWN_RESULTS
<1>6. CASE NoAnswer
  <2>1. shown' \in SHOWN_RESULTS
    BY <1>6 DEF NoAnswer, SHOWN_RESULTS
  <2> QED BY <1>0, <1>6, <2>1 DEF NoAnswer, SHOWN_RESULTS
<1>7. CASE BeginPush
  <2>1. CASE ToPush /\ ~receipt.waits
    <3>1. receipt.seq < MaxSequence /\ lent \in LENT
      BY <1>7, <2>1 DEF BeginPush, ToPush, DeliveryInv
    <3>2. receipt' \in RECEIPTS /\ receipt'.seq \in 1 .. MaxSequence
      BY <1>7, <2>1, <3>1, DeliveryAssumption DEF BeginPush
    <3>3. pushing' = [state |-> lent, seq |-> receipt'.seq] /\ pushes' = pushes \cup {pushing'}
          /\ roused' = TRUE
      BY <1>7, <2>1 DEF BeginPush
    <3>4. pushing' \in PUSHES /\ pushing' \in [state : LENT \cup {NotLent}, seq : 0 .. MaxSequence]
      BY <3>1, <3>2, <3>3 DEF PUSHES
    <3> QED BY <1>0, <1>7, <3>2, <3>3, <3>4 DEF BeginPush, PUSHES
  <2>2. CASE ~(ToPush /\ ~receipt.waits)
    BY <1>0, <1>7, <2>2 DEF BeginPush
  <2> QED BY <2>1, <2>2
<1>8. CASE PushTaken
  <2>1. receipt' = [seq |-> receipt.seq, last |-> pushing.state,
                    sealed |-> pushing.state \notin ENDED, waits |-> FALSE]
    BY <1>8 DEF PushTaken
  <2>2. receipt' \in RECEIPTS
    BY <2>1, DeliveryFields
  <2>3. pushing' \in [state : LENT \cup {NotLent}, seq : 0 .. MaxSequence]
    BY <1>8, DeliveryAssumption DEF PushTaken, NoPush
  <2> QED BY <1>0, <1>8, <2>2, <2>3 DEF PushTaken
<1>9. ASSUME PutPushOff, Fine \/ DeliveryFault
      PROVE  DeliveryTypeOK'
  <2>1. receipt' \in RECEIPTS
    BY <1>9 DEF PutPushOff
  <2>2. pushing' \in [state : LENT \cup {NotLent}, seq : 0 .. MaxSequence]
    BY <1>9, DeliveryAssumption DEF PutPushOff, NoPush
  <2> QED BY <1>0, <1>9, <2>1, <2>2 DEF PutPushOff
<1>10. CASE PushFails \/ PushUnanswered
  BY <1>9, <1>10 DEF PushFails, PushUnanswered
<1>11. CASE PushDies
  <2>1. pushing' \in [state : LENT \cup {NotLent}, seq : 0 .. MaxSequence]
    BY <1>11, DeliveryAssumption DEF PushDies, NoPush
  <2> QED BY <1>0, <1>11, <2>1 DEF PushDies
<1>12. CASE PushRetry
  <2>1. receipt' \in RECEIPTS
    BY <1>12 DEF PushRetry
  <2> QED BY <1>0, <1>12, <2>1 DEF PushRetry
<1>13. ASSUME NEW p \in pushes, TakePush(p)
       PROVE  DeliveryTypeOK'
  <2>1. p \in SHOWN_RESULTS /\ p.seq \in 1 .. MaxSequence
    BY DEF SHOWN_RESULTS
  <2>2. shown' \in {p, shown} /\ replies' \subseteq replies \cup {p.seq}
        /\ pushes' \subseteq pushes /\ deliveryFaults' \in 0 .. MaxDeliveryFaults
    BY <1>0, <1>13 DEF TakePush
  <2>3. shown' \in SHOWN_RESULTS
    BY <2>1, <2>2 DEF SHOWN_RESULTS
  <2> QED BY <1>13, <2>1, <2>2, <2>3 DEF TakePush, SHOWN_RESULTS
<1>14. ASSUME NEW p \in pushes, LosePush(p)
       PROVE  DeliveryTypeOK'
  BY <1>0, <1>14 DEF LosePush
<1>15. CASE UNCHANGED deliveryVars
  BY <1>15 DEF deliveryVars
<1> QED
  BY <1>1, <1>2, <1>3, <1>4, <1>5, <1>6, <1>7, <1>8, <1>10, <1>11, <1>12, <1>13, <1>14, <1>15
  DEF DeliveryNext

\* What is shown never goes back, and never ahead of the lease.
ShownFollows == StageOf(shown'.state) >= StageOf(shown.state) /\ StageOf(shown'.state) <= Reached'

LEMMA DeliveryInvKept ==
  ASSUME DeliveryTypeOK, DeliveryTypeOK', DeliveryInv, [DeliveryNext]_deliveryVars
  PROVE  DeliveryInv' /\ ShownFollows
<1>0. /\ shown.state \in SHOWN /\ shown.seq \in Nat /\ receipt.seq \in Nat
      /\ StageOf(shown.state) \in Nat /\ Reached \in Nat /\ StageOf(shown.state) <= Reached
      /\ \A p \in pushes : p.state \in LENT /\ p.seq \in Nat /\ p.seq > 0 /\ StageOf(p.state) \in Nat
  BY DeliveryFields, StagesAreNumbers DEF SHOWN, DeliveryInv
<1>1. ASSUME NEW s \in {"active", "retiring"} \cup ENDED, LeaseGoes(s)
      PROVE  DeliveryInv' /\ ShownFollows
  <2>1. Reached' >= Reached /\ Reached' \in Nat /\ lent # NotLent /\ lent' # NotLent
    BY <1>1, Stages DEF LeaseGoes, NEXT_LENT, Reached, NotLent, ENDED
  <2>2. lent # "denied"
    BY <1>1 DEF LeaseGoes, NEXT_LENT
  <2>3. UNCHANGED <<receipt, pushing, pushes, replies, intent, answer, shown>>
    BY <1>1 DEF LeaseGoes
  <2> QED BY <1>0, <2>1, <2>2, <2>3 DEF DeliveryInv, ShownFollows
<1>2. ASSUME UNCHANGED <<lent, answer, shown>>, pushes' \subseteq pushes, replies' \subseteq replies,
             receipt'.seq = receipt.seq, receipt'.sealed => receipt.sealed,
             intent' = intent \/ intent = "new"
      PROVE  DeliveryInv' /\ ShownFollows
  <2>1. Reached' = Reached
    BY <1>2 DEF Reached
  <2> QED BY <1>0, <1>2, <2>1 DEF DeliveryInv, ShownFollows
<1>3. CASE SendIntent
  BY <1>2, <1>3 DEF SendIntent
<1>4. CASE TakeIntent
  <2>1. lent = NotLent /\ lent' = "pending" /\ answer' = {"pending"}
        /\ UNCHANGED <<pushing, pushes, replies, intent, shown>>
    BY <1>4 DEF TakeIntent
  <2>2. receipt'.seq = receipt.seq
    BY <1>4 DEF TakeIntent, DeliveryTypeOK
  <2>3. Reached = 0 /\ Reached' = 1 /\ lent' # NotLent
    BY <2>1, Stages DEF Reached, NotLent
  <2> QED BY <1>0, <2>1, <2>2, <2>3 DEF DeliveryInv, ShownFollows
<1>5. CASE AnswerLater
  <2>1. /\ lent = "denied" /\ answer' = {"denied"}
        /\ UNCHANGED <<lent, receipt, pushing, pushes, replies, intent, shown>>
    BY <1>5 DEF AnswerLater
  <2>2. Reached' = Reached /\ lent' # NotLent
    BY <2>1 DEF Reached, NotLent
  <2> QED BY <1>0, <2>1, <2>2 DEF DeliveryInv, ShownFollows
<1>6. CASE TakeAnswer
  <2>1. /\ intent = "sent" /\ answer' = {} /\ intent' = "over"
        /\ UNCHANGED <<lent, receipt, pushing, pushes, replies>>
    BY <1>6 DEF TakeAnswer
  <2>2. PICK s \in answer : shown' = IF BelievesAnswer THEN [shown EXCEPT !.state = s] ELSE shown
    BY <1>6 DEF TakeAnswer
  <2>3. Reached' = Reached
    BY <2>1 DEF Reached
  <2>4. CASE BelievesAnswer
    <3>1. shown'.state = s /\ shown'.seq = 0 /\ shown.seq = 0 /\ shown.state = "queued"
      BY <2>1, <2>2, <2>4 DEF BelievesAnswer, DeliveryInv, DeliveryTypeOK
    <3>2. s = "pending" \/ (s = "denied" /\ lent = "denied")
      BY DEF DeliveryInv, DeliveryTypeOK
    <3>3. StageOf(s) <= Reached /\ StageOf(s) >= 0 /\ (s \notin ENDED => StageOf(s) = 1)
      <4>1. lent \in LENT
        BY DEF DeliveryInv, DeliveryTypeOK
      <4>2. Reached = StageOf(lent) /\ StageOf(lent) \in 1 .. 4
        BY <4>1, Stages DEF Reached, NotLent
      <4> QED BY <3>2, <4>2, Stages DEF ENDED
    <3>4. \A p \in pushes : StageOf(p.state) >= 1
      BY <1>0, StagesAreNumbers
    <3> QED BY <1>0, <2>1, <2>3, <3>1, <3>3, <3>4, Stages DEF DeliveryInv, ShownFollows
  <2>5. CASE ~BelievesAnswer
    BY <1>0, <2>1, <2>2, <2>3, <2>5 DEF DeliveryInv, ShownFollows
  <2> QED BY <2>4, <2>5
<1>7. CASE NoAnswer
  <2>1. /\ intent = "sent" /\ answer' = {} /\ intent' = "over"
        /\ UNCHANGED <<lent, receipt, pushing, pushes, replies>>
    BY <1>7 DEF NoAnswer
  <2>2. Reached' = Reached
    BY <2>1 DEF Reached
  <2>3. shown'.seq = shown.seq
        /\ (shown'.state = shown.state
            \/ (shown.state = "queued" /\ shown'.state = "delivery-unknown"))
    BY <1>7, <2>1 DEF NoAnswer, BelievesAnswer, DeliveryInv, DeliveryTypeOK
  <2>4. StageOf(shown'.state) = StageOf(shown.state) /\ (shown'.state \in ENDED <=> shown.state \in ENDED)
    BY <2>3, Stages DEF ENDED
  <2> QED BY <1>0, <2>1, <2>2, <2>3, <2>4 DEF DeliveryInv, ShownFollows
<1>8. CASE BeginPush
  <2>1. CASE ToPush /\ ~receipt.waits
    <3>1. /\ receipt'.seq = receipt.seq + 1 /\ receipt'.sealed = receipt.sealed
          /\ pushing' = [state |-> lent, seq |-> receipt.seq + 1]
          /\ pushes' = pushes \cup {pushing'}
          /\ UNCHANGED <<lent, replies, intent, answer, shown>>
      BY <1>8, <2>1 DEF BeginPush, DeliveryTypeOK
    <3>2. lent # NotLent /\ Reached' = Reached
      BY <2>1, <3>1 DEF ToPush, DeliveryInv, Reached
    <3>3. pushing'.seq = receipt.seq + 1 /\ StageOf(pushing'.state) = Reached
      BY <3>1, <3>2 DEF Reached
    <3>4. \A p \in pushes : p.seq < pushing'.seq /\ StageOf(p.state) <= StageOf(pushing'.state)
      BY <1>0, <3>3 DEF DeliveryInv
    <3>5. \A p, r \in pushes' : p.seq <= r.seq => StageOf(p.state) <= StageOf(r.state)
      BY <1>0, <3>1, <3>3, <3>4 DEF DeliveryInv
    <3> QED BY <1>0, <3>1, <3>2, <3>3, <3>4, <3>5 DEF DeliveryInv, ShownFollows
  <2>2. CASE ~(ToPush /\ ~receipt.waits)
    BY <1>2, <1>8, <2>2 DEF BeginPush
  <2> QED BY <2>1, <2>2
<1>9. CASE PushTaken
  <2>1. receipt'.seq = receipt.seq /\ (receipt'.sealed => lent # NotLent)
    <3>1. receipt'.seq = receipt.seq
      BY <1>9 DEF PushTaken, DeliveryTypeOK
    <3>2. lent # NotLent
      BY <1>9 DEF PushTaken, DeliveryInv
    <3> QED BY <3>1, <3>2
  <2>2. Reached' = Reached /\ replies' = {} /\ UNCHANGED <<lent, pushes, intent, answer, shown>>
    BY <1>9 DEF PushTaken, Reached
  <2> QED BY <1>0, <2>1, <2>2 DEF DeliveryInv, ShownFollows
<1>10. CASE PushFails \/ PushUnanswered
  <2>1. receipt'.seq = receipt.seq /\ receipt'.sealed = receipt.sealed
    BY <1>10 DEF PushFails, PushUnanswered, PutPushOff, DeliveryTypeOK
  <2> QED BY <1>2, <1>10, <2>1 DEF PushFails, PushUnanswered, PutPushOff
<1>11. CASE PushDies
  BY <1>2, <1>11 DEF PushDies
<1>12. CASE PushRetry
  <2>1. receipt'.seq = receipt.seq /\ receipt'.sealed = receipt.sealed
    BY <1>12 DEF PushRetry, DeliveryTypeOK
  <2> QED BY <1>2, <1>12, <2>1 DEF PushRetry
<1>13. ASSUME NEW p \in pushes, TakePush(p)
       PROVE  DeliveryInv' /\ ShownFollows
  <2>1. /\ pushes' \subseteq pushes
        /\ UNCHANGED <<lent, receipt, pushing, intent, answer>>
    BY <1>13 DEF TakePush
  <2>2. Reached' = Reached
    BY <2>1 DEF Reached
  <2>3. lent # NotLent
    BY <1>0, StagesAreNumbers DEF DeliveryInv, Reached
  <2>4. CASE shown' = shown
    BY <1>0, <2>1, <2>2, <2>4, <2>3 DEF DeliveryInv, ShownFollows
  <2>5. CASE shown' # shown
    <3>1. shown' = p /\ p.seq > shown.seq /\ (shown.state \in ENDED => p.state = shown.state)
      BY <1>13, <2>5 DEF TakePush, IsNews
    <3>2. StageOf(p.state) >= StageOf(shown.state)
      BY <1>0, <3>1 DEF DeliveryInv
    <3>3. StageOf(p.state) <= Reached /\ p.seq <= receipt.seq
      BY DEF DeliveryInv
    <3>4. \A r \in pushes : r.seq > p.seq => StageOf(r.state) >= StageOf(p.state)
      BY <1>0 DEF DeliveryInv
    <3> QED BY <1>0, <2>1, <2>2, <2>3, <3>1, <3>2, <3>3, <3>4 DEF DeliveryInv, ShownFollows
  <2> QED BY <2>4, <2>5
<1>14. ASSUME NEW p \in pushes, LosePush(p)
       PROVE  DeliveryInv' /\ ShownFollows
  BY <1>2, <1>14 DEF LosePush
<1>15. CASE UNCHANGED deliveryVars
  BY <1>2, <1>15 DEF deliveryVars
<1> QED
  BY <1>1, <1>3, <1>4, <1>5, <1>6, <1>7, <1>8, <1>9, <1>10, <1>11, <1>12, <1>13, <1>14, <1>15
  DEF DeliveryNext

\* Lost, late, doubled or overtaken: what the peer is shown never goes back, and is
\* never ahead of the lease, for any number of pushes.
THEOREM ResultsFollow == DeliverySpec => ResultsFollowTheLease
<1> DEFINE Inv == DeliveryTypeOK /\ DeliveryInv
<1>1. DeliveryInit => Inv
  BY DeliveryInitTypes
<1>2. Inv /\ [DeliveryNext]_deliveryVars => Inv'
  BY DeliveryTypesKept, DeliveryInvKept
<1>3. Inv /\ [DeliveryNext]_deliveryVars
        => [StageOf(shown'.state) >= StageOf(shown.state)
            /\ StageOf(shown'.state) <= (IF lent' = NotLent THEN 0 ELSE StageOf(lent'))]_deliveryVars
  <2> SUFFICES ASSUME Inv, [DeliveryNext]_deliveryVars
               PROVE  ShownFollows
    BY DEF ShownFollows, Reached
  <2> QED BY DeliveryTypesKept, DeliveryInvKept
<1> QED BY <1>1, <1>2, <1>3, PTL DEF DeliverySpec, ResultsFollowTheLease
=============================================================================
