---------------------------- MODULE RollingTurns ----------------------------
(***************************************************************************)
(* The turns the runners of one fleet take at being rebuilt and at having  *)
(* their caches cleared (control/reconciler.py: _recreate_turn,            *)
(* _cache_turn, _halt_recreates; control/operations.py: attempt, defer).   *)
(*                                                                         *)
(* Both take a runner out of service, and a request for the whole fleet    *)
(* opens one operation per runner at once.  A pass comes to each runner in *)
(* turn with the row it listed at its beginning, looks at the siblings as  *)
(* they are now, and holds the operation or starts it.  What a runner that *)
(* is out does on its way is RunnerLifecycle's: here it is out, and comes  *)
(* back, or fails.                                                         *)
(***************************************************************************)
EXTENDS Naturals, FiniteSets, FiniteSetsExt

CONSTANTS
  Fleet,          \* the runners of the fleet
  MaxTurnRequests,\* bound: requests
  MaxTurnFaults   \* bound: failures, crashes of the pass, edits of a row

ASSUME TurnsAssumption == MaxTurnRequests \in Nat /\ MaxTurnFaults \in Nat

VARIABLES
  at,       \* where each runner is
  wants,    \* whether it is meant to be running
  ops,      \* its open operation: verb, state, what it got done, when asked
  turn,     \* the pass: where it is, the runners left, and those it listed with
            \* an operation that is still theirs, and where it saw them
  intact,   \* runners whose row is still what the pass listed
  asked,    \* requests so far
  turnFaults

turnVars == <<at, wants, ops, turn, intact, asked, turnFaults>>

\* "out": on its way, out of service; "stuck": left removing, with an error.
PLACES == {"serving", "out", "stuck", "failed", "stopped"}
NoTurnOp == [verb |-> "none", state |-> "none", done |-> FALSE, rank |-> 0]
NoTurn == [pc |-> "over", on |-> {}, left |-> {}, with |-> {}, saw |-> [r \in Fleet |-> "serving"]]

TurnsTypeOK ==
  /\ at \in [Fleet -> PLACES] /\ wants \in [Fleet -> {"running", "stopped"}]
  /\ ops \in [Fleet -> [verb : {"none", "recreate", "clear"},
                        state : {"none", "pending", "running"},
                        done : BOOLEAN, rank : 0 .. MaxTurnRequests]]
  /\ turn \in [pc : {"over", "next", "taken", "attempted"}, on : SUBSET Fleet,
               left : SUBSET Fleet, with : SUBSET Fleet, saw : [Fleet -> PLACES]]
  /\ intact \subseteq Fleet
  /\ asked \in 0 .. MaxTurnRequests /\ turnFaults \in 0 .. MaxTurnFaults

TurnsInit ==
  /\ at = [r \in Fleet |-> "serving"] /\ wants = [r \in Fleet |-> "running"]
  /\ ops = [r \in Fleet |-> NoTurnOp]
  /\ turn = NoTurn /\ intact = {}
  /\ asked = 0 /\ turnFaults = 0

TurnFault == turnFaults < MaxTurnFaults /\ turnFaults' = turnFaults + 1

Rebuilds(r) == ops[r].verb = "recreate"
Clears(r) == ops[r].verb = "clear"
Pending(r) == ops[r].state = "pending"
Under(r) == ops[r].state = "running"

-----------------------------------------------------------------------------
(* Requests.                                                               *)

\* A rebuild is asked of a runner that serves or is stuck; a clear of one that
\* serves, or that was taken out on purpose.
Ask(r, verb) ==
  /\ asked < MaxTurnRequests
  /\ ops[r] = NoTurnOp
  /\ at[r] \in (IF verb = "recreate" THEN {"serving", "stuck"} ELSE {"serving", "stopped"})
  /\ asked' = asked + 1
  /\ ops' = [ops EXCEPT ![r] = [verb |-> verb, state |-> "pending",
                                done |-> FALSE, rank |-> asked']]
  /\ intact' = intact \ {r}
  /\ UNCHANGED <<at, wants, turn, turnFaults>>

\* An operator takes a runner out of service, or puts it back.
TakeDown(r) ==
  /\ asked < MaxTurnRequests /\ asked' = asked + 1
  /\ ops[r] = NoTurnOp /\ at[r] = "serving"
  /\ at' = [at EXCEPT ![r] = "stopped"] /\ wants' = [wants EXCEPT ![r] = "stopped"]
  /\ intact' = intact \ {r}
  /\ UNCHANGED <<ops, turn, turnFaults>>

PutBack(r) ==
  /\ ops[r] = NoTurnOp /\ at[r] \in {"stopped", "failed"}
  /\ at' = [at EXCEPT ![r] = "serving"] /\ wants' = [wants EXCEPT ![r] = "running"]
  /\ intact' = intact \ {r}
  /\ UNCHANGED <<ops, turn, asked, turnFaults>>

\* The row is edited, or an observation of it recorded, by somebody else.
Edit(r) ==
  /\ r \in intact /\ TurnFault
  /\ intact' = intact \ {r}
  /\ UNCHANGED <<at, wants, ops, turn, asked>>

-----------------------------------------------------------------------------
(* The pass.                                                               *)

BeginTurns ==
  /\ turn = NoTurn
  /\ turn' = [pc |-> "next", on |-> {}, left |-> Fleet, saw |-> at,
              with |-> {r \in Fleet : ops[r] # NoTurnOp}]
  /\ intact' = Fleet
  /\ UNCHANGED <<at, wants, ops, asked, turnFaults>>

\* The pass goes on to the next runner, having closed the operations of some.
NextRunner(r, closed) ==
  turn' = IF turn.left = {r} THEN NoTurn
          ELSE [turn EXCEPT !.pc = "next", !.on = {}, !.left = @ \ {r}, !.with = @ \ closed]

\* The pass stops, or its process dies; another will begin.
TurnsStop ==
  /\ turn # NoTurn /\ TurnFault
  /\ turn' = NoTurn
  /\ UNCHANGED <<at, wants, ops, intact, asked>>

TurnAt(pc, r) == turn.pc = pc /\ turn.on = {r}

Siblings(r) == Fleet \ {r}
Older(r, s) == ops[r].rank < ops[s].rank

\* A sibling out of service holds a rebuild, unless it waits for its own.
Unavailable(r) ==
  \E s \in Siblings(r) : at[s] # "serving" /\ ~(Rebuilds(s) /\ Pending(s))

\* Mutant: only the rebuilds that wait are compared.
OldestOfPending(r) ==
  \A s \in Siblings(r) : Rebuilds(s) /\ Pending(s) => Older(r, s)

\* Mutant: whichever was asked first, one waits for the other.
NobodyElse(r) == \A s \in Siblings(r) : ~Rebuilds(s)

\* One rebuild at a time, the oldest request first.
FirstToRebuild(r) ==
  \A s \in Siblings(r) : Rebuilds(s) => Pending(s) /\ Older(r, s)

RebuildsNow(r) == Pending(r) => ~Unavailable(r) /\ FirstToRebuild(r)

\* One clear at a time; a sibling that is meant to serve and does not holds it.
\* One taken out on purpose does not, nor is a runner held that is out itself.
ClearsNow(r) ==
  Pending(r) /\ turn.saw[r] = "serving" =>
    \A s \in Siblings(r) :
      /\ at[s] = "serving" \/ wants[s] # "running"
      /\ Clears(s) => Pending(s) /\ Older(r, s)

MayStart(r) == (Rebuilds(r) => RebuildsNow(r)) /\ (Clears(r) => ClearsNow(r))

\* The pass comes to a runner it listed with an operation, which may have to
\* wait for its turn.
ComeTo(r) ==
  /\ turn.pc = "next" /\ r \in turn.left \cap turn.with
  /\ MayStart(r)
  /\ turn' = [turn EXCEPT !.pc = "taken", !.on = {r}]
  /\ UNCHANGED <<at, wants, ops, intact, asked, turnFaults>>

HoldBack(r) ==
  /\ turn.pc = "next" /\ r \in turn.left
  /\ r \in turn.with => ~MayStart(r)
  /\ NextRunner(r, {})
  /\ UNCHANGED <<at, wants, ops, intact, asked, turnFaults>>

\* A rebuild that failed fails those that wait for their turn.
ClosedWith(r) ==
  {r} \cup {s \in Fleet : Rebuilds(r) /\ Rebuilds(s) /\ Pending(s)}

CloseTurns(closed) ==
  /\ ops' = [s \in Fleet |-> IF s \in closed THEN NoTurnOp ELSE ops[s]]
  /\ intact' = intact \ closed

\* No worker could build the replacement now.
RefuseRebuild(r) ==
  /\ TurnAt("taken", r) /\ Rebuilds(r) /\ Pending(r) /\ TurnFault
  /\ CloseTurns(ClosedWith(r)) /\ NextRunner(r, ClosedWith(r))
  /\ UNCHANGED <<at, wants, asked>>

IsOver(r) == turn.saw[r] = "serving" /\ ops[r].done

\* What has come to its end is closed before anything is decided.
CloseTurn(r) ==
  /\ TurnAt("taken", r) /\ IsOver(r)
  /\ CloseTurns({r}) /\ NextRunner(r, {r})
  /\ UNCHANGED <<at, wants, asked, turnFaults>>

\* A runner that is not idle, and is not to be drained for it, keeps its cache.
SkipClear(r) ==
  /\ TurnAt("taken", r) /\ Clears(r) /\ turn.saw[r] = "serving"
  /\ CloseTurns({r}) /\ NextRunner(r, {r})
  /\ UNCHANGED <<at, wants, asked, turnFaults>>

\* The attempt is recorded on the operation, then the row is moved, against
\* the version that was listed.
Attempt(r) ==
  /\ TurnAt("taken", r) /\ ~IsOver(r)
  /\ ops' = [ops EXCEPT ![r].state = "running"]
  /\ turn' = [turn EXCEPT !.pc = "attempted", !.on = {r}]
  /\ UNCHANGED <<at, wants, intact, asked, turnFaults>>

TakeOut(r) ==
  /\ TurnAt("attempted", r) /\ turn.saw[r] \in {"serving", "stuck"}
  /\ at' = IF r \in intact THEN [at EXCEPT ![r] = "out"] ELSE at
  /\ NextRunner(r, {})
  /\ UNCHANGED <<wants, ops, intact, asked, turnFaults>>

OnTheWay(r) == TurnAt("attempted", r) /\ turn.saw[r] \in {"out", "stopped"}

\* A step on the way ...
GoOn(r) ==
  /\ OnTheWay(r)
  /\ NextRunner(r, {})
  /\ UNCHANGED <<at, wants, ops, intact, asked, turnFaults>>

\* ... of which the last one puts the rebuilt runner back ...
Rebuilt(r) ==
  /\ OnTheWay(r) /\ Rebuilds(r) /\ at[r] = "out"
  /\ at' = [at EXCEPT ![r] = "serving"] /\ ops' = [ops EXCEPT ![r].done = TRUE]
  /\ NextRunner(r, {}) /\ intact' = intact \ {r}
  /\ UNCHANGED <<wants, asked, turnFaults>>

\* ... or clears the cache of one that is still out.
Cleared(r) ==
  /\ OnTheWay(r) /\ Clears(r)
  /\ CloseTurns({r}) /\ NextRunner(r, {r})
  /\ UNCHANGED <<at, wants, asked, turnFaults>>

\* A step on the way fails.
FailTurn(r) ==
  /\ OnTheWay(r) /\ at[r] = "out" /\ TurnFault
  /\ \E place \in {"failed", IF Rebuilds(r) THEN "stuck" ELSE "out"} :
       at' = [at EXCEPT ![r] = place]
  /\ CloseTurns(ClosedWith(r)) /\ NextRunner(r, ClosedWith(r))
  /\ UNCHANGED <<wants, asked>>

\* A runner nothing is asked of comes back if it is out, and may be found
\* broken if it serves.
Unasked(r) == turn.pc = "next" /\ r \in turn.left \cap intact /\ ops[r] = NoTurnOp

ComeBack(r) ==
  /\ Unasked(r) /\ at[r] = "out"
  /\ at' = [at EXCEPT ![r] = "serving"]
  /\ NextRunner(r, {}) /\ intact' = intact \ {r}
  /\ UNCHANGED <<wants, ops, asked, turnFaults>>

Breaks(r) ==
  /\ Unasked(r) /\ at[r] = "serving" /\ TurnFault
  /\ at' = [at EXCEPT ![r] = "failed"]
  /\ NextRunner(r, {}) /\ intact' = intact \ {r}
  /\ UNCHANGED <<wants, ops, asked>>

-----------------------------------------------------------------------------

TurnStep(r) ==
  \/ ComeTo(r) \/ HoldBack(r) \/ RefuseRebuild(r) \/ CloseTurn(r) \/ SkipClear(r)
  \/ Attempt(r) \/ TakeOut(r) \/ GoOn(r) \/ Rebuilt(r) \/ Cleared(r) \/ FailTurn(r)
  \/ ComeBack(r) \/ Breaks(r)

TurnsNext ==
  \/ \E r \in Fleet :
       \/ \E verb \in {"recreate", "clear"} : Ask(r, verb)
       \/ TakeDown(r) \/ PutBack(r) \/ Edit(r) \/ TurnStep(r)
  \/ BeginTurns \/ TurnsStop

\* Passes begin again and again and come to their end; a runner on its way
\* that can be finished at every pass is in the end.
TurnsFairness ==
  /\ WF_turnVars(BeginTurns) /\ WF_turnVars(\E r \in Fleet : TurnStep(r))
  /\ \A r \in Fleet : /\ SF_turnVars(Rebuilt(r)) /\ SF_turnVars(Cleared(r))
                      /\ SF_turnVars(ComeBack(r))

TurnsSpec == TurnsInit /\ [][TurnsNext]_turnVars /\ TurnsFairness

-----------------------------------------------------------------------------

\* "Only one replacement per fleet" (_recreate_turn) and "One cache clear per
\* fleet at a time" (_cache_turn): whatever was asked of a fleet, edited,
\* stopped or cut off, no two runners meant to serve are being rebuilt, nor
\* are two being cleared.
OneAtATime ==
  \A verb \in {"recreate", "clear"} :
    Cardinality({r \in Fleet : ops[r].verb = verb /\ Under(r) /\ wants[r] = "running"}) <= 1

\* Where no runner of the fleet stays stopped or broken, every rebuild and
\* every clear comes to its end: the waits are not for each other.
TurnsComeRound ==
  <>[](\A r \in Fleet : at[r] \in {"serving", "out"})
    => <>[](\A r \in Fleet : ops[r] = NoTurnOp)
=============================================================================
