-------------------------- MODULE FederationLeases --------------------------
(***************************************************************************)
(* The runners lent to one peer, on the dashboard that lends them          *)
(* (control/federation.py: submit, decide, revoke, set_policy, tick,       *)
(* run_events; control/federation_provision.py: provision, retire,         *)
(* registration_for, _current_permission).                                 *)
(*                                                                         *)
(* The owner and the peer write to the database when they please.  A       *)
(* thread converges: a tick sweeps what is over, lists the requests there  *)
(* is work on, and works on one after the other, going to GitHub outside   *)
(* of any transaction.  It sleeps until the database changes, or the next  *)
(* deadline.  The passes of the controller build the runners, and remove   *)
(* those that are to leave.  Each request is for one runner.               *)
(***************************************************************************)
EXTENDS Naturals, FiniteSets

CONSTANTS
  Requests,        \* requests of the peer
  MaxRunners,      \* bound: the largest capacity its owner allows the peer
  MaxPolicies,     \* bound: changes of the owner's limits
  MaxLendingFaults \* bound: crashes of a tick, failures of GitHub or of a runner

ASSUME LendingAssumption ==
  /\ IsFiniteSet(Requests) /\ MaxRunners \in Nat \ {0}
  /\ MaxPolicies \in Nat /\ MaxLendingFaults \in Nat

VARIABLES
  lending,    \* the state of each request
  due,        \* requests whose lease is over
  stale,      \* requests whose registration credential has expired
  sealed,     \* requests whose credential is kept
  retryAt,    \* of each: whether its retirement is put off, and until when
  peer,       \* whether it is enabled, and how many runners it may have
  lentRunner, \* the runner of each request
  leaves,     \* runners that are meant to be absent
  onForge,    \* runners GitHub has a record of
  plans,      \* runners that are being registered
  tick,       \* the tick: the request it is at and where, those left, what was listed
  stirred,    \* the database has changed since the thread last looked
  policies, lendingFaults

lendingVars == <<lending, due, stale, sealed, retryAt, peer, lentRunner, leaves,
                 onForge, plans, tick, stirred, policies, lendingFaults>>

fates == <<lending, sealed, retryAt>>
clock == <<due, stale>>
runners == <<lentRunner, leaves, onForge, plans>>
limits == <<peer, policies>>

PERMITTED == {"approved", "activating", "active"}
LIVE_LEASES == PERMITTED \cup {"retiring"}
LEASE_STATES == {"none", "pending", "denied", "expired"} \cup LIVE_LEASES
NoTick == [pc |-> "asleep", on |-> {}, left |-> {}, retires |-> {}, with |-> {}]

LendingTypeOK ==
  /\ lending \in [Requests -> LEASE_STATES]
  /\ {due, stale, sealed, leaves, onForge, plans} \subseteq SUBSET Requests
  /\ retryAt \in [Requests -> {"none", "later", "now"}]
  /\ peer \in [enabled : BOOLEAN, max : 0 .. MaxRunners]
  /\ lentRunner \in [Requests -> {"none", "planned", "serving", "failed", "absent"}]
  /\ tick \in [pc : {"asleep", "next", "checked", "publishing", "confirming", "answered"},
              on : SUBSET Requests, left : SUBSET Requests,
              retires : SUBSET Requests, with : SUBSET Requests]
  /\ stirred \in BOOLEAN /\ policies \in 0 .. MaxPolicies
  /\ lendingFaults \in 0 .. MaxLendingFaults

LendingInit ==
  /\ lending = [q \in Requests |-> "none"] /\ due = {} /\ stale = {} /\ sealed = {}
  /\ retryAt = [q \in Requests |-> "none"]
  /\ peer = [enabled |-> TRUE, max |-> 1]
  /\ lentRunner = [q \in Requests |-> "none"] /\ leaves = {} /\ onForge = {} /\ plans = {}
  /\ tick = NoTick /\ stirred = TRUE
  /\ policies = 0 /\ lendingFaults = 0

LendingFault == lendingFaults < MaxLendingFaults /\ lendingFaults' = lendingFaults + 1
Free == UNCHANGED lendingFaults

\* "Retiring reservations remain occupied."
Occupied == {q \in Requests : lending[q] \in LIVE_LEASES}

\* What the owner allows now; each request is for one runner.
Allowed == peer.enabled /\ peer.max > 0

-----------------------------------------------------------------------------
(* The peer, the owner, and time.                                          *)

Submit(q) ==
  /\ lending[q] = "none" /\ Allowed
  /\ lending' = [lending EXCEPT ![q] = "pending"] /\ sealed' = sealed \cup {q}
  /\ stirred' = TRUE
  /\ UNCHANGED <<retryAt, clock, runners, limits, tick>> /\ Free

Approve(q) ==
  /\ lending[q] = "pending" /\ Allowed /\ q \notin stale
  /\ Cardinality(Occupied) < peer.max
  /\ lending' = [lending EXCEPT ![q] = "approved"]
  /\ stirred' = TRUE
  /\ UNCHANGED <<sealed, retryAt, clock, runners, limits, tick>> /\ Free

Deny(q) ==
  /\ lending[q] = "pending"
  /\ lending' = [lending EXCEPT ![q] = "denied"] /\ sealed' = sealed \ {q}
  /\ stirred' = TRUE
  /\ UNCHANGED <<retryAt, clock, runners, limits, tick>> /\ Free

\* Fewer runners, another profile or group, quiet hours: 0 stands for all that
\* allows none of these requests.
SetPolicy(n) ==
  /\ peer.enabled /\ n # peer.max
  /\ policies < MaxPolicies /\ policies' = policies + 1
  /\ peer' = [peer EXCEPT !.max = n] /\ stirred' = TRUE
  /\ UNCHANGED <<fates, clock, runners, tick>> /\ Free

Revoke ==
  /\ policies < MaxPolicies /\ policies' = policies + 1
  /\ peer.enabled /\ peer' = [peer EXCEPT !.enabled = FALSE]
  /\ lending' = [q \in Requests |->
       CASE lending[q] = "pending" -> "denied" [] lending[q] \in PERMITTED -> "retiring"
         [] OTHER -> lending[q]]
  /\ sealed' = {q \in sealed : lending'[q] = lending[q]}
  /\ stirred' = TRUE
  /\ UNCHANGED <<retryAt, clock, runners, tick>> /\ Free

LeaseEnds(q) ==
  /\ lending[q] \in PERMITTED /\ q \notin due /\ due' = due \cup {q}
  /\ UNCHANGED <<fates, stale, runners, limits, tick, stirred>> /\ Free

CredentialEnds(q) ==
  /\ lending[q] # "none" /\ q \notin stale /\ stale' = stale \cup {q}
  /\ UNCHANGED <<fates, due, runners, limits, tick, stirred>> /\ Free

RetryComes(q) ==
  /\ retryAt[q] = "later" /\ retryAt' = [retryAt EXCEPT ![q] = "now"]
  /\ UNCHANGED <<lending, sealed, clock, runners, limits, tick, stirred>> /\ Free

-----------------------------------------------------------------------------
(* The tick.                                                               *)

\* Mutant: what was put off is no deadline.
LeasesOnly == \E q \in Requests : (lending[q] \in PERMITTED /\ q \in due) \/ q \in sealed \cap stale

Deadline ==
  \E q \in Requests :
    \/ lending[q] \in PERMITTED /\ q \in due
    \/ q \in sealed \cap stale
    \/ lending[q] = "retiring" /\ retryAt[q] = "now"

\* What the sweep makes of each request, first by the clock ...
Overdue(q) ==
  CASE lending[q] = "pending" /\ q \in stale -> "denied"
    [] lending[q] \in PERMITTED /\ q \in due -> "retiring"
    [] OTHER -> lending[q]

\* ... then by what the owner allows now, of all the requests of the peer.
Swept(q) ==
  IF Overdue(q) \in PERMITTED
     /\ (~Allowed \/ Cardinality({p \in Requests : Overdue(p) \in LIVE_LEASES}) > peer.max)
  THEN "retiring" ELSE Overdue(q)

BeginTick ==
  /\ tick = NoTick /\ (stirred \/ Deadline)
  /\ lending' = [q \in Requests |-> Swept(q)]
  /\ sealed' = {q \in sealed \ stale : Swept(q) = Overdue(q)}
  /\ stirred' = (lending' # lending \/ sealed' # sealed)
  /\ LET work == {q \in Requests : lending'[q] \in {"approved", "activating"}
                                   \/ (lending'[q] = "retiring" /\ retryAt[q] # "later")}
     IN tick' = IF work = {} THEN NoTick
                ELSE [pc |-> "next", on |-> {}, left |-> work, with |-> sealed' \cap work,
                      retires |-> {q \in work : lending'[q] = "retiring"}]
  /\ UNCHANGED <<retryAt, clock, runners, limits>> /\ Free

TickAt(pc, q) == tick.pc = pc /\ tick.on = {q}
TickTo(pc, q) == tick' = [tick EXCEPT !.pc = pc, !.on = {q}]
Done(q) == tick' = IF tick.left = {q} THEN NoTick
                   ELSE [tick EXCEPT !.pc = "next", !.on = {}, !.left = @ \ {q}]

EndLease(q, state) ==
  /\ lending' = [lending EXCEPT ![q] = state]
  /\ sealed' = sealed \ {q} /\ stirred' = TRUE

\* A tick, or its process, dies; a new one looks at everything again.
TickDies ==
  /\ tick # NoTick /\ LendingFault
  /\ tick' = NoTick /\ stirred' = TRUE
  /\ UNCHANGED <<fates, clock, runners, limits>>

Retires(q) == tick.pc = "next" /\ q \in tick.left \cap tick.retires

\* Every runner made for the request is gone, recorded with it or not.
NoneLeft(q) == lentRunner[q] \in {"none", "absent"}

\* retire: what is gone is gone from GitHub as well, which says so ...
ProvenAbsent(q) ==
  /\ Retires(q) /\ NoneLeft(q) /\ (lentRunner[q] = "absent" => q \notin onForge)
  /\ EndLease(q, "expired") /\ retryAt' = [retryAt EXCEPT ![q] = "none"]
  /\ Done(q)
  /\ UNCHANGED <<clock, runners, limits>> /\ Free

\* ... what is not is told to leave, and waited for ...
AskedToLeave(q) ==
  /\ Retires(q) /\ ~NoneLeft(q)
  /\ leaves' = leaves \cup {q} /\ retryAt' = [retryAt EXCEPT ![q] = "none"]
  /\ stirred' = TRUE /\ Done(q)
  /\ UNCHANGED <<lending, sealed, clock, lentRunner, onForge, plans, limits>> /\ Free

\* ... and what GitHub does not know, still knows, or was just written by
\* somebody else, is put off.
PutOff(q) ==
  /\ Retires(q)
  /\ IF lentRunner[q] = "absent" /\ q \in onForge THEN Free ELSE LendingFault
  /\ retryAt' = [retryAt EXCEPT ![q] = "later"] /\ stirred' = TRUE /\ Done(q)
  /\ UNCHANGED <<lending, sealed, clock, runners, limits>>

Works(q) == tick.pc = "next" /\ q \in tick.left \ tick.retires

\* A request is looked at again before it is worked on.
Skip(q) ==
  /\ Works(q) /\ lending[q] \notin {"approved", "activating"}
  /\ Done(q)
  /\ UNCHANGED <<fates, clock, runners, limits, stirred>> /\ Free

WithinLimits == Allowed /\ Cardinality(Occupied) <= peer.max

Recheck(q) ==
  /\ Works(q) /\ lending[q] \in {"approved", "activating"}
  /\ IF WithinLimits
     THEN /\ lending' = [lending EXCEPT ![q] = "activating"]
          /\ stirred' = (stirred \/ lending[q] = "approved")
          /\ TickTo("checked", q) /\ UNCHANGED sealed
     ELSE EndLease(q, "retiring") /\ Done(q)
  /\ UNCHANGED <<retryAt, clock, runners, limits>> /\ Free

\* The credential that was listed is gone, a check does not hold, GitHub does
\* not answer: what there may be of the request is retired.
Failed(q) ==
  /\ EndLease(q, "retiring") /\ Done(q)
  /\ UNCHANGED <<retryAt, clock, runners, limits>>

NoCredential(q) == TickAt("checked", q) /\ q \notin tick.with /\ Failed(q) /\ Free

\* Nothing to do until the runner has registered.
Pend(q) ==
  /\ Done(q)
  /\ UNCHANGED <<fates, clock, runners, limits, stirred>> /\ Free

StillPermitted(q) == peer.enabled /\ lending[q] \in PERMITTED
Gone(q) == lentRunner[q] \in {"failed", "absent"}

StartProvision(q) ==
  /\ TickAt("checked", q) /\ q \in tick.with
  /\ \/ /\ StillPermitted(q) /\ lentRunner[q] \in {"none", "serving"}
        /\ TickTo("publishing", q)
        /\ UNCHANGED <<fates, clock, runners, limits, stirred>> /\ Free
     \/ StillPermitted(q) /\ lentRunner[q] = "planned" /\ Pend(q)
     \/ (~StillPermitted(q) \/ Gone(q)) /\ Failed(q) /\ Free
     \/ LendingFault /\ Failed(q)

\* "A revocation while checking GitHub must still fence publication."
MayPublish(q) == StillPermitted(q) /\ WithinLimits

\* The runner is made in one transaction with the check, or found made.
Publish(q) ==
  /\ TickAt("publishing", q)
  /\ \/ /\ MayPublish(q) /\ lentRunner[q] = "none"
        /\ lentRunner' = [lentRunner EXCEPT ![q] = "planned"] /\ stirred' = TRUE
        /\ Done(q)
        /\ UNCHANGED <<fates, clock, leaves, onForge, plans, limits>> /\ Free
     \/ /\ MayPublish(q) /\ lentRunner[q] = "serving"
        /\ TickTo("confirming", q)
        /\ UNCHANGED <<fates, clock, runners, limits, stirred>> /\ Free
     \/ (~MayPublish(q) \/ q \in due \cup stale \/ Gone(q)) /\ Failed(q) /\ Free

\* _current_permission
Current(q) == StillPermitted(q) /\ q \notin due /\ WithinLimits

Confirm(q) ==
  /\ TickAt("confirming", q)
  /\ \/ /\ Current(q) /\ TickTo("answered", q)
        /\ UNCHANGED <<fates, clock, runners, limits, stirred>> /\ Free
     \/ ~Current(q) /\ Failed(q) /\ Free
     \/ LendingFault /\ Failed(q)

\* Mutant: what was provisioned is lent.
AlwaysActive(q) == "active"

\* "Revocation during provisioning remains retiring, ... never revived."
AfterProvision(q) ==
  IF lending[q] = "activating" /\ q \notin due THEN "active" ELSE "retiring"

Respond(q) ==
  /\ TickAt("answered", q)
  /\ EndLease(q, AfterProvision(q)) /\ Done(q)
  /\ UNCHANGED <<retryAt, clock, runners, limits>> /\ Free

TickStep ==
  \/ BeginTick
  \/ \E q \in Requests :
       \/ ProvenAbsent(q) \/ AskedToLeave(q) \/ PutOff(q) \/ Skip(q) \/ Recheck(q)
       \/ NoCredential(q) \/ StartProvision(q) \/ Publish(q) \/ Confirm(q) \/ Respond(q)

-----------------------------------------------------------------------------
(* The passes and GitHub, as far as the lent runners go.                   *)

RunnerChanges(q) ==
  stirred' = TRUE /\ UNCHANGED <<fates, clock, limits, tick>>

\* registration_for: a registration token is handed out while the lease is.
Plan(q) ==
  /\ lentRunner[q] = "planned" /\ q \notin leaves \cup plans
  /\ Current(q) /\ lending[q] # "approved" /\ q \notin stale
  /\ plans' = plans \cup {q}
  /\ UNCHANGED <<fates, clock, limits, tick, stirred, lentRunner, leaves, onForge>> /\ Free

\* It is used later: the lease may have been revoked since.
Register(q) ==
  /\ q \in plans /\ plans' = plans \ {q}
  /\ onForge' = onForge \cup {q} /\ lentRunner' = [lentRunner EXCEPT ![q] = "serving"]
  /\ UNCHANGED leaves /\ RunnerChanges(q) /\ Free

\* It is not registered for want of permission, or breaks.
LentBreaks(q) ==
  /\ \/ lentRunner[q] = "planned" /\ q \notin leaves \cup plans /\ (~Current(q) \/ q \in stale) /\ Free
     \/ lentRunner[q] \in {"planned", "serving"} /\ LendingFault
  /\ lentRunner' = [lentRunner EXCEPT ![q] = "failed"] /\ plans' = plans \ {q}
  /\ UNCHANGED <<leaves, onForge>> /\ RunnerChanges(q)

\* What is to leave is removed, mostly from GitHub first.
Deregister(q) ==
  /\ q \in onForge /\ q \notin plans
  /\ q \in leaves
  /\ onForge' = onForge \ {q}
  /\ UNCHANGED <<lentRunner, leaves, plans>> /\ RunnerChanges(q) /\ Free

Leave(q) ==
  /\ q \in leaves \ plans /\ lentRunner[q] \notin {"none", "absent"}
  /\ IF q \in onForge THEN LendingFault ELSE Free
  /\ lentRunner' = [lentRunner EXCEPT ![q] = "absent"]
  /\ UNCHANGED <<leaves, onForge, plans>> /\ RunnerChanges(q)

LendingNext ==
  \/ \E q \in Requests :
       \/ Submit(q) \/ Approve(q) \/ Deny(q)
       \/ LeaseEnds(q) \/ CredentialEnds(q) \/ RetryComes(q)
       \/ Plan(q) \/ Register(q) \/ LentBreaks(q) \/ Deregister(q) \/ Leave(q)
  \/ \E n \in 0 .. MaxRunners : SetPolicy(n)
  \/ Revoke \/ TickStep \/ TickDies

\* The thread converges, time passes, and the passes finish what they began.
LendingFairness ==
  /\ WF_lendingVars(TickStep)
  /\ \A q \in Requests :
       /\ WF_lendingVars(RetryComes(q)) /\ WF_lendingVars(Register(q))
       /\ WF_lendingVars(Deregister(q)) /\ WF_lendingVars(Leave(q))

LendingSpec == LendingInit /\ [][LendingNext]_lendingVars /\ LendingFairness

-----------------------------------------------------------------------------

LoanOf(q) ==
  CASE lending[q] = "pending" -> "asked" [] lending[q] = "denied" -> "refused"
    [] lending[q] \in PERMITTED -> "given" [] lending[q] = "retiring" -> "ending"
    [] lending[q] = "expired" -> "over" [] OTHER -> "none"

Loans == INSTANCE LoanContract WITH
  loan <- [q \in Requests |-> LoanOf(q)],
  there <- {q \in Requests : lentRunner[q] \notin {"none", "absent"} \/ q \in onForge},
  quota <- IF peer.enabled THEN peer.max ELSE 0

\* Whatever is revoked, expires, fails or is cut off while a runner is being
\* provisioned: no more is given than the owner allows with what is still
\* there, no runner is made for a lease that has ended, none is given up while
\* its runner is there, and none is revived.
LoansAreKept == Loans!LoanSpec

\* A lease that is to end does, however often GitHub fails and whatever of the
\* provisioning was cut off: the thread that converges does not oversleep.
LeasesEnd == \A q \in Requests : lending[q] = "retiring" ~> lending[q] = "expired"
=============================================================================
