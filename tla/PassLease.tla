----------------------------- MODULE PassLease -----------------------------
(***************************************************************************)
(* Who may run a pass (control/reconciler.py: _acquire, _release, _renew,  *)
(* _keep_lease, _lock_file, pass_once; control/main.py: pass_once, run).   *)
(*                                                                         *)
(* Every controller process begins a pass again and again.  A pass holds a *)
(* lock of the operating system, which its process loses by dying, and a   *)
(* lease in the database, which runs out unless a thread of the process    *)
(* renews it.  It is a sequence of pieces of work: the sweep, the fleets,  *)
(* the runners; maintenance and the loss of the lease are looked at        *)
(* between them.                                                           *)
(***************************************************************************)
EXTENDS Naturals, FiniteSets

CONSTANTS
  Controllers,    \* processes that share one database
  LeaseTicks,     \* how long a lease lasts
  Pieces,         \* bound: pieces of work of a pass
  MaxLeaseFaults  \* bound: crashes, pauses, renewals that fail, switches

VARIABLES
  pass,        \* of each process: where its pass is, pieces done
  suspended,   \* processes that are not scheduled
  lost,        \* processes whose renewal has failed during this pass
  osLock,      \* the process that holds the lock, or none
  lease,       \* the row: who holds it, how long it has left
  maintenance, \* whether the platform is held
  leaseFaults

leaseVars == <<pass, suspended, lost, osLock, lease, maintenance, leaseFaults>>

\* The holder of a lease is named anew at every start of a process: what a
\* dead one has left belongs to nobody.
NOBODY == "nobody"
GONE == "gone"

ASSUME LeaseAssumption ==
  /\ LeaseTicks \in Nat \ {0} /\ Pieces \in Nat \ {0} /\ MaxLeaseFaults \in Nat
  /\ NOBODY \notin Controllers /\ GONE \notin Controllers

NoLease == [holder |-> NOBODY, left |-> 0]

\* "asked": maintenance was off when it looked; "locked": it has the lock;
\* "working": it has both; "piece": it is at a piece of work; "over": its
\* thread has stopped; "done": it went through the whole pass.
PLACES_OF_A_PASS == {"idle", "asked", "locked", "working", "piece", "over", "done"}
Resting == [at |-> "idle", did |-> 0]

LeaseTypeOK ==
  /\ pass \in [Controllers -> [at : PLACES_OF_A_PASS, did : 0 .. Pieces]]
  /\ suspended \subseteq Controllers /\ lost \subseteq Controllers
  /\ osLock \in Controllers \cup {NOBODY}
  /\ lease \in [holder : Controllers \cup {NOBODY, GONE}, left : 0 .. LeaseTicks]
  /\ maintenance \in BOOLEAN
  /\ leaseFaults \in 0 .. MaxLeaseFaults

LeaseInit ==
  /\ pass = [p \in Controllers |-> Resting]
  /\ suspended = {} /\ lost = {} /\ osLock = NOBODY /\ lease = NoLease
  /\ maintenance = FALSE /\ leaseFaults = 0

LeaseFault == leaseFaults < MaxLeaseFaults /\ leaseFaults' = leaseFaults + 1

PassAt(p, place) == p \notin suspended /\ pass[p].at = place
PassTo(p, place) == pass' = [pass EXCEPT ![p].at = place]

-----------------------------------------------------------------------------
(* A pass.                                                                 *)

BeginPass(p) ==
  /\ PassAt(p, "idle") /\ ~maintenance
  /\ PassTo(p, "asked")
  /\ UNCHANGED <<suspended, lost, osLock, lease, maintenance, leaseFaults>>

\* Mutant: the lease is thought to be enough.
NoLockNeeded(p) == TRUE

LockIsFree(p) == osLock = NOBODY

TakeLock(p) ==
  /\ PassAt(p, "asked")
  /\ IF LockIsFree(p) THEN PassTo(p, "locked") /\ osLock' = p
                      ELSE PassTo(p, "idle") /\ UNCHANGED osLock
  /\ UNCHANGED <<suspended, lost, lease, maintenance, leaseFaults>>

\* Mutant: a lease is respected until it is given back.
NeverExpires(p) == lease.holder \in {NOBODY, p}

MayTake(p) == lease.holder \in {NOBODY, p} \/ lease.left = 0

Unlock(p) == osLock' = IF osLock = p THEN NOBODY ELSE osLock

Acquire(p) ==
  /\ PassAt(p, "locked")
  /\ IF MayTake(p)
     THEN /\ lease' = [holder |-> p, left |-> LeaseTicks]
          /\ pass' = [pass EXCEPT ![p] = [at |-> "working", did |-> 0]]
          /\ lost' = lost \ {p} /\ UNCHANGED osLock
     ELSE PassTo(p, "idle") /\ Unlock(p) /\ UNCHANGED <<lease, lost>>
  /\ UNCHANGED <<suspended, maintenance, leaseFaults>>

\* The first piece, the sweep, is not looked at; each of the others is.
First(p) == pass[p].did = 0

GoesOn(p) == First(p) \/ (p \notin lost /\ ~maintenance)

BeginPiece(p) ==
  /\ PassAt(p, "working") /\ pass[p].did < Pieces /\ GoesOn(p)
  /\ PassTo(p, "piece")
  /\ UNCHANGED <<suspended, lost, osLock, lease, maintenance, leaseFaults>>

DoPiece(p) ==
  /\ PassAt(p, "piece")
  /\ pass' = [pass EXCEPT ![p] = [at |-> "working", did |-> @.did + 1]]
  /\ UNCHANGED <<suspended, lost, osLock, lease, maintenance, leaseFaults>>

EndPass(p) ==
  /\ PassAt(p, "working") /\ (pass[p].did = Pieces \/ ~GoesOn(p))
  /\ PassTo(p, "over")
  /\ UNCHANGED <<suspended, lost, osLock, lease, maintenance, leaseFaults>>

\* The lease is given back if it is still this process's ...
Release(p) ==
  /\ PassAt(p, "over")
  /\ PassTo(p, "done")
  /\ lease' = IF lease.holder = p THEN NoLease ELSE lease
  /\ UNCHANGED <<suspended, lost, osLock, maintenance, leaseFaults>>

\* ... and the lock after it.
CloseLock(p) ==
  /\ PassAt(p, "done")
  /\ pass' = [pass EXCEPT ![p] = Resting] /\ Unlock(p)
  /\ UNCHANGED <<suspended, lost, lease, maintenance, leaseFaults>>

PassStep(p) ==
  \/ BeginPass(p) \/ TakeLock(p) \/ Acquire(p) \/ BeginPiece(p) \/ DoPiece(p)
  \/ EndPass(p) \/ Release(p) \/ CloseLock(p)

-----------------------------------------------------------------------------
(* The thread that renews, time, and what goes wrong.                      *)

\* Renewed while it names this process, and given up at the first failure.
Renew(p) ==
  /\ p \notin suspended /\ pass[p].at \in {"working", "piece"} /\ p \notin lost
  /\ IF lease.holder = p
     THEN lease.left < LeaseTicks /\ lease' = [lease EXCEPT !.left = LeaseTicks]
          /\ UNCHANGED lost
     ELSE lost' = lost \cup {p} /\ UNCHANGED lease
  /\ UNCHANGED <<pass, suspended, osLock, maintenance, leaseFaults>>

FailToRenew(p) ==
  /\ pass[p].at \in {"working", "piece"} /\ p \notin suspended \cup lost /\ LeaseFault
  /\ lost' = lost \cup {p}
  /\ UNCHANGED <<pass, suspended, osLock, lease, maintenance>>

LeaseTick ==
  /\ lease.left > 0
  /\ lease' = [lease EXCEPT !.left = @ - 1]
  /\ UNCHANGED <<pass, suspended, lost, osLock, maintenance, leaseFaults>>

\* A process that dies loses the lock, and leaves its lease.
CrashPass(p) ==
  /\ pass[p] # Resting /\ LeaseFault
  /\ pass' = [pass EXCEPT ![p] = Resting] /\ Unlock(p)
  /\ lease' = [lease EXCEPT !.holder = IF @ = p THEN GONE ELSE @]
  /\ suspended' = suspended \ {p}
  /\ UNCHANGED <<lost, maintenance>>

\* A process is not scheduled for as long as it pleases.
Suspend(p) ==
  /\ p \notin suspended /\ pass[p] # Resting /\ LeaseFault
  /\ suspended' = suspended \cup {p}
  /\ UNCHANGED <<pass, lost, osLock, lease, maintenance>>

Resumes(p) ==
  /\ p \in suspended /\ suspended' = suspended \ {p}
  /\ UNCHANGED <<pass, lost, osLock, lease, maintenance, leaseFaults>>

SetMaintenance ==
  /\ IF maintenance THEN UNCHANGED leaseFaults ELSE LeaseFault
  /\ maintenance' = ~maintenance
  /\ UNCHANGED <<pass, suspended, lost, osLock, lease>>

LeaseNext ==
  \/ \E p \in Controllers :
       PassStep(p) \/ Renew(p) \/ FailToRenew(p) \/ CrashPass(p) \/ Suspend(p) \/ Resumes(p)
  \/ LeaseTick \/ SetMaintenance

\* Processes run, unless they are suspended; those that are, are in the end
\* scheduled again; time goes on.
LeaseFairness ==
  /\ WF_leaseVars(LeaseTick)
  /\ \A p \in Controllers : WF_leaseVars(PassStep(p)) /\ WF_leaseVars(Resumes(p))

LeaseSpec == LeaseInit /\ [][LeaseNext]_leaseVars /\ LeaseFairness

-----------------------------------------------------------------------------

\* "OS lock fences live processes even when a paused lease expires"
\* (_lock_file): a process that was suspended until its lease ran out, and goes
\* on before its thread has seen it, is never at work beside another one.
OnePass == Cardinality({p \in Controllers : pass[p].at \in {"working", "piece"}}) <= 1

\* "a pass that crashed must not stop every later one" (_acquire), nor one
\* that lost its lease or was suspended: whoever has taken the lease, a whole
\* pass is gone through in the end, unless maintenance is asked for.
PassesGoOn ==
  lease.holder # NOBODY ~> (maintenance \/ \E p \in Controllers : pass[p].did = Pieces)
=============================================================================
