--------------------------- MODULE FleetCapacity ---------------------------
(***************************************************************************)
(* How many runners a fleet has: the requests that change its capacity     *)
(* (control/service.py: create, scale_up, scale_down, retire, adopt, over  *)
(* store/fleets.py: set_capacity) and the passes that converge on it       *)
(* (control/reconciler.py: _converge_capacity), one fleet, any number of   *)
(* clients of the service and one pass at a time.                          *)
(*                                                                         *)
(* A runner is seen from far: on paper, being built, serving, leaving.     *)
(* RunnerLifecycle has what each of those is made of.                      *)
(*                                                                         *)
(*   capacity    fleets.desired_capacity                                   *)
(*   rows        runner_specs: where each runner is, and whether its       *)
(*               desired state is other than `absent` (stays)              *)
(*   operations  by idempotency key: an open set_capacity, an open         *)
(*               set_desired, closed, or none                              *)
(*   calls       the request each client is making, and what it has read   *)
(*   pass        the pass of the reconciler, and what it has read          *)
(*   intents     what each key asks for, and what that adds to the fleet   *)
(*               (history)                                                 *)
(*   answered    the keys whose request was answered with an operation     *)
(*               (history)                                                 *)
(***************************************************************************)
EXTENDS Integers, FiniteSets

CONSTANTS
  Runners,      \* every runner the fleet may ever have
  Clients,      \* threads of the service
  Keys,         \* idempotency keys: each bounds one request and its repeats
  Verbs,        \* the requests made, of those below
  Capacity,     \* the capacity the fleet starts with, every runner planned
  MaxCapacity,  \* fleets.max_capacity
  Revives,      \* whether an operator takes a removal back
  Crashes       \* whether a pass, or a request, may be cut off

ASSUME FleetAssumption ==
  /\ IsFiniteSet(Runners)
  /\ Capacity \in Nat /\ MaxCapacity \in Nat /\ Capacity <= MaxCapacity
  /\ Verbs \subseteq {"add", "drop", "retire", "adopt"}
  /\ Revives \in BOOLEAN /\ Crashes \in BOOLEAN
  /\ Keys \cap (Runners \X (1..MaxCapacity)) = {}

VARIABLES capacity, rows, operations, calls, pass, intents, answered
vars == <<capacity, rows, operations, calls, pass, intents, answered>>

-----------------------------------------------------------------------------
(* Runners.                                                                *)

PLACES == {"unborn", "planned", "building", "idle", "busy", "leaving",
           "failed", "absent"}
Unborn == [at |-> "unborn", stays |-> FALSE]
Planned == [at |-> "planned", stays |-> TRUE]
Gone == [at |-> "absent", stays |-> FALSE]

Present == {r \in Runners : rows[r].at \notin {"unborn", "absent"}}
Keepers == {r \in Present : rows[r].stays}
Serving == {r \in Runners : rows[r].at \in {"idle", "busy", "leaving"}}

\* VICTIM_ORDER: which runner is cheapest to lose. A runner that leaves may
\* be drained, before the idle ones, or draining, after those being built.
Costs(place) ==
  CASE place = "planned" -> {1} [] place = "failed" -> {2}
    [] place = "leaving" -> {3, 6} [] place = "idle" -> {4}
    [] place = "building" -> {5} [] OTHER -> {7}

\* What `excess` victims may be. Among equals created_at decides, which is
\* left open here.
Cheapest(excess) ==
  {victims \in SUBSET Keepers :
     /\ Cardinality(victims) = excess
     /\ \A v \in victims, k \in Keepers \ victims :
          \E i \in Costs(rows[v].at), j \in Costs(rows[k].at) : i <= j}

\* Where one step of a pass may take a runner that it does not hold: the way
\* it should go, and what else may be found or happen on the way.
Forward(row) ==
  CASE row.at = "planned" -> IF row.stays THEN {"building"} ELSE {"absent"}
    [] row.at = "building" -> {"idle"}
    [] row.at \in {"idle", "busy"} -> IF row.stays THEN {} ELSE {"leaving"}
    [] row.at = "leaving" ->
         IF row.stays THEN {"idle", "building"} ELSE {"absent"}
    [] row.at = "failed" -> IF row.stays THEN {} ELSE {"leaving"}
    [] OTHER -> {}
Sideways(row) ==
  CASE row.at = "planned" -> IF row.stays THEN {"failed"} ELSE {}
    [] row.at = "building" -> {"failed"}
    [] row.at = "idle" -> IF row.stays THEN {"busy"} ELSE {}
    [] row.at = "busy" -> IF row.stays THEN {"idle"} ELSE {}
    [] OTHER -> {}

-----------------------------------------------------------------------------
(* Requests.                                                               *)

RetireKey(r, n) == <<r, n>>
OpKeys == Keys \cup (Runners \X (1..MaxCapacity))
NoRunner == "none"
NoKey == <<>>
NoCall == [verb |-> "none", key |-> NoKey, opkey |-> NoKey,
           runner |-> NoRunner, at |-> "idle", target |-> 0, was |-> FALSE,
           fresh |-> FALSE]
NoIntent == [verb |-> "none", runner |-> NoRunner, adds |-> 0]

Idle == \A c \in Clients : calls[c].at = "idle"
NoPass == [at |-> "off", capacity |-> 0, missing |-> 0, victims |-> {},
           todo |-> {}, fresh |-> {}, joined |-> 0, left |-> 0]

\* What a request does to a pass under way.
During(p) == IF pass.at = "off" THEN pass ELSE p

\* Every writer of a row bumps spec_version: whoever read it before is late.
Outdated(r) ==
  [c \in Clients |-> IF calls[c].runner = r
                     THEN [calls[c] EXCEPT !.fresh = FALSE] ELSE calls[c]]

Goes(c, call) == calls' = [calls EXCEPT ![c] = call]
Answers(c) == Goes(c, NoCall) /\ answered' = answered \cup {calls[c].key}
Refuses(c) == Goes(c, NoCall) /\ UNCHANGED answered

\* A request, or its repeat with the key of the first.
Begin(c, k, verb, r) ==
  /\ calls[c].at = "idle"
  /\ verb \in Verbs
  /\ IF verb = "retire" THEN r \in Present ELSE r = NoRunner
  /\ \/ intents[k] = NoIntent
     \/ intents[k].verb = verb /\ intents[k].runner = r /\ verb # "adopt"
  /\ intents' = IF k \in answered THEN intents ELSE [intents EXCEPT ![k] =
       [verb |-> verb, runner |-> r,
        adds |-> CASE verb \in {"add", "adopt"} -> 1
                   [] verb = "drop" -> -1
                   [] OTHER -> IF rows[r].stays THEN -1
                               ELSE IF operations[k] = "done"
                               THEN intents[k].adds ELSE 0]]
  /\ Goes(c, [NoCall EXCEPT !.verb = verb, !.key = k, !.opkey = k,
                !.runner = r, !.at = "look",
                !.was = verb = "retire" /\ rows[r].stays])
  /\ UNCHANGED <<capacity, rows, operations, pass, answered>>

\* _scale: a repeat first; then the target, from the capacity read now.
Scale(c) ==
  /\ calls[c].at = "look" /\ calls[c].verb \in {"add", "drop"}
  /\ LET target == capacity + (IF calls[c].verb = "add" THEN 1 ELSE -1) IN
     IF operations[calls[c].key] # "none"
     THEN Answers(c)
     ELSE IF target < 0 \/ target > MaxCapacity
     THEN Refuses(c)
     ELSE /\ Goes(c, [calls[c] EXCEPT !.at = "open", !.target = target])
          /\ UNCHANGED answered
  /\ UNCHANGED <<capacity, rows, operations, pass, intents>>

\* Mutant: whether the key was seen is asked earlier only.
OpenUnasked(c) ==
  /\ calls[c].at = "open"
  /\ operations' = [operations EXCEPT ![calls[c].opkey] = "capacity"]
  /\ Goes(c, [calls[c] EXCEPT !.at = "write"])
  /\ UNCHANGED <<capacity, rows, pass, intents, answered>>

\* OperationStore.open inside set_capacity. A key seen before means that
\* nothing more is done.
OpenCapacity(c) ==
  /\ calls[c].at = "open"
  /\ IF operations[calls[c].opkey] # "none"
     THEN Answers(c) /\ UNCHANGED operations
     ELSE /\ operations' = [operations EXCEPT ![calls[c].opkey] = "capacity"]
          /\ Goes(c, [calls[c] EXCEPT !.at = "write"])
          /\ UNCHANGED answered
  /\ UNCHANGED <<capacity, rows, pass, intents>>

\* The second statement of set_capacity.
WriteCapacity(c) ==
  /\ calls[c].at = "write"
  /\ capacity' = calls[c].target
  /\ Answers(c)
  /\ UNCHANGED <<rows, operations, pass, intents>>

\* retire -> set_desired: the row is read and the operation opened; a key
\* seen before leaves the row alone, and retire goes on.
OpenDesired(c) ==
  /\ calls[c].at = "look" /\ calls[c].verb = "retire"
  /\ IF operations[calls[c].key] # "none"
     THEN Goes(c, [calls[c] EXCEPT !.at = "fleet"]) /\ UNCHANGED operations
     ELSE /\ operations' = [operations EXCEPT ![calls[c].key] = "desired"]
          /\ Goes(c, [calls[c] EXCEPT !.at = "mark", !.fresh = TRUE])
  /\ UNCHANGED <<capacity, rows, pass, intents, answered>>

\* The update of set_desired, by spec_version; overtaken, it raises.
MarkAbsent(c) ==
  LET r == calls[c].runner IN
  /\ calls[c].at = "mark" /\ calls[c].fresh
  /\ rows' = [rows EXCEPT ![r].stays = FALSE]
  /\ operations' = [operations EXCEPT ![calls[c].key] = "done"]
  /\ pass' = During([pass EXCEPT !.fresh = @ \ {r},
                        !.left = IF rows[r].stays THEN @ + 1 ELSE @])
  /\ calls' = [Outdated(r) EXCEPT ![c] = [calls[c] EXCEPT !.at = "fleet"]]
  /\ UNCHANGED <<capacity, intents, answered>>
Overtaken(c) ==
  /\ calls[c].at = "mark" /\ ~calls[c].fresh
  /\ Refuses(c)
  /\ UNCHANGED <<capacity, rows, operations, pass, intents>>

\* Mutant: a runner that was leaving already is counted again.
LowerAgain(c) ==
  LET r == calls[c].runner IN
  /\ calls[c].at = "fleet"
  /\ IF capacity > 0
     THEN /\ Goes(c, [calls[c] EXCEPT !.at = "open", !.target = capacity - 1,
                                     !.opkey = RetireKey(r, capacity)])
          /\ UNCHANGED answered
     ELSE Answers(c)
  /\ UNCHANGED <<capacity, rows, operations, pass, intents>>

\* retire: one runner fewer is wanted, when the row read first was to stay.
LowerCapacity(c) ==
  LET r == calls[c].runner IN
  /\ calls[c].at = "fleet"
  /\ IF calls[c].was /\ capacity > 0
     THEN /\ Goes(c, [calls[c] EXCEPT !.at = "open", !.target = capacity - 1,
                                     !.opkey = RetireKey(r, capacity)])
          /\ UNCHANGED <<intents, answered>>
     ELSE /\ Answers(c)
          /\ intents' = IF calls[c].was /\ calls[c].key \notin answered
                        THEN [intents EXCEPT ![calls[c].key].adds = 0]
                        ELSE intents
  /\ UNCHANGED <<capacity, rows, operations, pass>>

\* adopt: the fleet is read, then the row and the capacity are written in one
\* transaction.
AdoptLook(c) ==
  /\ calls[c].at = "look" /\ calls[c].verb = "adopt"
  /\ IF capacity + 1 > MaxCapacity
     THEN Refuses(c)
     ELSE /\ Goes(c, [calls[c] EXCEPT !.at = "adopt", !.target = capacity + 1])
          /\ UNCHANGED answered
  /\ UNCHANGED <<capacity, rows, operations, pass, intents>>
Adopt(c, r) ==
  /\ calls[c].at = "adopt" /\ rows[r].at = "unborn"
  /\ rows' = [rows EXCEPT ![r] = Planned]
  /\ capacity' = calls[c].target
  /\ pass' = During([pass EXCEPT !.joined = @ + 1])
  /\ Answers(c)
  /\ UNCHANGED <<operations, intents>>

\* An operator takes a removal back: start, cancel_drain, restart, repair and
\* recreate all make the desired state `running` (service.act).
Revive(r) ==
  /\ Revives
  /\ rows[r].at \in {"idle", "busy", "leaving", "failed"} /\ ~rows[r].stays
  /\ rows' = [rows EXCEPT ![r].stays = TRUE]
  /\ pass' = [pass EXCEPT !.fresh = @ \ {r}]
  /\ calls' = Outdated(r)
  /\ UNCHANGED <<capacity, operations, intents, answered>>

\* The process of the service dies, or the request is cut off.
RequestDies(c) ==
  /\ Crashes /\ calls[c].at # "idle"
  /\ Refuses(c)
  /\ UNCHANGED <<capacity, rows, operations, pass, intents>>

Request(c) ==
  \/ Scale(c) \/ OpenCapacity(c) \/ WriteCapacity(c)
  \/ OpenDesired(c) \/ MarkAbsent(c) \/ Overtaken(c) \/ LowerCapacity(c)
  \/ AdoptLook(c) \/ \E r \in Runners : Adopt(c, r)

-----------------------------------------------------------------------------
(* A pass.                                                                 *)

PassOnly == UNCHANGED <<capacity, calls, intents, answered>>

\* pass_once: fleets.list(), read once for every fleet of the pass.
BeginPass ==
  /\ pass.at = "off"
  /\ pass' = [NoPass EXCEPT !.at = "fleet", !.capacity = capacity]
  /\ UNCHANGED <<rows, operations>> /\ PassOnly

\* Mutant: runners on their way out are not counted when adding.
MissingOfKeepers == pass.capacity - Cardinality(Keepers)
\* Mutant: runners on their way out are counted when removing.
ExcessOfPresent == Cardinality(Present) - pass.capacity
\* Mutant: the last surplus runner is let stay.
ExcessButOne == Cardinality(Keepers) - pass.capacity - 1

\* _converge_capacity, what it decides from the rows it reads now. Everything
\* present counts when adding, only runners meant to stay when removing.
Missing == pass.capacity - Cardinality(Present)
Excess == Cardinality(Keepers) - pass.capacity
Converge ==
  /\ pass.at = "fleet"
  /\ \/ /\ Missing > 0
        /\ pass' = [pass EXCEPT !.at = "plan", !.missing = Missing]
     \/ /\ Missing <= 0 /\ Excess > 0
        /\ \E victims \in Cheapest(Excess) :
             pass' = [pass EXCEPT !.at = "mark", !.victims = victims,
                                  !.fresh = victims]
     \/ /\ Missing <= 0 /\ Excess <= 0
        /\ pass' = [pass EXCEPT !.at = IF Keepers \subseteq Serving
                                       THEN "close" ELSE "specs"]
  /\ UNCHANGED <<rows, operations>> /\ PassOnly

\* service.plan writes its rows one by one.
PlanOne(r) ==
  /\ pass.at = "plan" /\ rows[r].at = "unborn"
  /\ rows' = [rows EXCEPT ![r] = Planned]
  /\ pass' = [pass EXCEPT !.missing = @ - 1,
                          !.at = IF pass.missing = 1 THEN "specs" ELSE @]
  /\ UNCHANGED operations /\ PassOnly

\* service.plan refuses before its first row: nothing can build the runner.
PlanRefused ==
  /\ pass.at = "plan"
  /\ pass' = [pass EXCEPT !.missing = 0, !.at = "specs"]
  /\ UNCHANGED <<rows, operations>> /\ PassOnly

\* One victim is marked, if its row is as it was read; if not, StaleSpec ends
\* the turn of this fleet.
Mark(v) ==
  /\ pass.at = "mark" /\ v \in pass.victims
  /\ IF v \in pass.fresh
     THEN /\ rows' = [rows EXCEPT ![v].stays = FALSE]
          /\ pass' = [pass EXCEPT !.victims = @ \ {v}, !.fresh = @ \ {v},
                        !.at = IF pass.victims = {v} THEN "specs" ELSE @]
          /\ calls' = Outdated(v)
     ELSE /\ pass' = [pass EXCEPT !.victims = {}, !.at = "specs"]
          /\ UNCHANGED <<rows, calls>>
  /\ UNCHANGED <<capacity, operations, intents, answered>>

\* _close_capacity_operations: every open set_capacity of the fleet.
CloseOperations ==
  /\ pass.at = "close"
  /\ operations' = [k \in OpKeys |-> IF operations[k] = "capacity"
                                     THEN "done" ELSE operations[k]]
  /\ pass' = [pass EXCEPT !.at = "specs"]
  /\ UNCHANGED rows /\ PassOnly

\* specs.list(): the rows the pass steps, one step each.
ListSpecs ==
  /\ pass.at = "specs"
  /\ pass' = [pass EXCEPT !.at = "step", !.todo = Present, !.fresh = Present]
  /\ UNCHANGED <<rows, operations>> /\ PassOnly

\* A step that takes the runner somewhere. A row that changed since it was
\* listed is held, as is a step that fails or has to wait.
Steps(r, places) ==
  /\ pass.at = "step" /\ r \in pass.todo /\ r \in pass.fresh
  /\ \E to \in places :
       rows' = [rows EXCEPT ![r] = IF to = "absent" THEN Gone
                                   ELSE [@ EXCEPT !.at = to]]
  /\ pass' = [pass EXCEPT !.todo = @ \ {r}, !.fresh = @ \ {r}]
  /\ calls' = Outdated(r)
  /\ UNCHANGED <<capacity, operations, intents, answered>>
Advance(r) == Steps(r, Forward(rows[r]))
Drift(r) == Steps(r, Sideways(rows[r]))
Held(r) ==
  /\ pass.at = "step" /\ r \in pass.todo
  /\ pass' = [pass EXCEPT !.todo = @ \ {r}]
  /\ UNCHANGED <<rows, operations>> /\ PassOnly

EndPass ==
  /\ pass.at = "step" /\ pass.todo = {}
  /\ pass' = NoPass
  /\ UNCHANGED <<rows, operations>> /\ PassOnly

\* The process dies or loses its lease, or maintenance begins.
PassDies ==
  /\ Crashes /\ pass.at # "off"
  /\ pass' = NoPass
  /\ UNCHANGED <<rows, operations>> /\ PassOnly

Pass ==
  \/ BeginPass \/ Converge \/ CloseOperations \/ ListSpecs \/ EndPass
  \/ PlanRefused
  \/ \E r \in Runners : PlanOne(r) \/ Mark(r) \/ Advance(r) \/ Drift(r)
                        \/ Held(r)

-----------------------------------------------------------------------------

Init ==
  /\ capacity = Capacity
  /\ \E born \in SUBSET Runners :
       /\ Cardinality(born) = Capacity
       /\ rows = [r \in Runners |-> IF r \in born THEN Planned ELSE Unborn]
  /\ operations = [k \in OpKeys |-> "none"]
  /\ calls = [c \in Clients |-> NoCall]
  /\ pass = NoPass
  /\ intents = [k \in Keys |-> NoIntent]
  /\ answered = {}

Next ==
  \/ Pass \/ PassDies
  \/ \E r \in Runners : Revive(r)
  \/ \E c \in Clients :
       \/ Request(c) \/ RequestDies(c)
       \/ \E k \in Keys, verb \in Verbs, r \in Runners \cup {NoRunner} :
            Begin(c, k, verb, r)

Spec == Init /\ [][Next]_vars

\* The pass loop and the threads of the service keep running; a step that can
\* be taken at pass after pass is taken in the end, and so is a plan.
FairSpec ==
  /\ Spec
  /\ WF_vars(Pass)
  /\ \A c \in Clients : WF_vars(Request(c))
  /\ \A r \in Runners : SF_vars(Advance(r))
  /\ SF_vars(\E r \in Runners : PlanOne(r))

-----------------------------------------------------------------------------
(* Properties.                                                             *)

ROWS == [at : PLACES, stays : BOOLEAN]
CALLS ==
  [verb : Verbs \cup {"none"}, key : Keys \cup {NoKey},
   opkey : OpKeys \cup {NoKey}, runner : Runners \cup {NoRunner},
   at : {"idle", "look", "open", "write", "mark", "fleet", "adopt"},
   target : 0..MaxCapacity, was : BOOLEAN, fresh : BOOLEAN]
PASSES ==
  [at : {"off", "fleet", "plan", "mark", "close", "specs", "step"},
   capacity : 0..MaxCapacity, missing : 0..MaxCapacity,
   victims : SUBSET Runners, todo : SUBSET Runners, fresh : SUBSET Runners,
   joined : Nat, left : Nat]
INTENTS == [verb : Verbs \cup {"none"}, runner : Runners \cup {NoRunner},
            adds : {-1, 0, 1}]
\* Every variable keeps its shape, and what is counted stays within the
\* fleet's maximum.
TypeOK ==
  /\ capacity \in 0..MaxCapacity
  /\ rows \in [Runners -> ROWS]
  /\ operations \in [OpKeys -> {"none", "desired", "capacity", "done"}]
  /\ calls \in [Clients -> CALLS]
  /\ pass \in PASSES
  /\ intents \in [Keys -> INTENTS]
  /\ answered \subseteq Keys

\* The no-overshoot rule: a pass never plans more runners than the capacity
\* it read, runners on their way out counted, whatever is retired or scaled
\* while it writes its rows; runners adopted meanwhile come on top, as the
\* capacity that keeps them does (reconciler.py: _converge_capacity).
PlansOnlyTheGap ==
  [][pass.at = "plan" /\ pass'.missing < pass.missing /\ rows' # rows
     => Cardinality(Present') <= pass.capacity + pass.joined]_vars

\* A scale-down leaves as many runners as the capacity it read: it takes
\* fewer only by the ones a request retired meanwhile, and never marks one
\* more at every pass while its victims drain (reconciler.py:
\* _converge_capacity, "Only runners still meant to stay count").
MarksOnlyTheExcess ==
  [][pass.at = "mark" /\ rows' # rows /\ pass'.victims # pass.victims
     => Cardinality(Keepers') + pass.left >= pass.capacity]_vars

\* Both: a pass neither plans nor marks beyond the gap it found, whatever the
\* requests do while it writes (reconciler.py: _converge_capacity).
MeetsTheCapacity == PlansOnlyTheGap /\ MarksOnlyTheExcess

\* Between requests the capacity is what the answered requests add up to,
\* each counted once however often it was sent, as long as none gave up
\* halfway (service.py: create, retire and _scale; fleets.py: set_capacity).
Adds(keys) ==
  Cardinality({k \in keys : intents[k].adds = 1})
    - Cardinality({k \in keys : intents[k].adds = -1})
CapacityIsAsked ==
  Idle /\ (\A k \in Keys : operations[k] # "desired")
    => capacity = Capacity + Adds(answered)

\* One key is never applied by two calls at once, however a request and its
\* repeats overlap (operations.py: open; the uniqueness is the database's).
AppliedOnce ==
  \A c, d \in Clients :
    /\ calls[c].at \in {"write", "mark"} /\ calls[c].at = calls[d].at
    /\ IF calls[c].at = "write" THEN calls[c].opkey = calls[d].opkey
                                ELSE calls[c].key = calls[d].key
    => c = d

\* A capacity operation is closed when the fleet has the runners the capacity
\* in force asks for (reconciler.py: _close_capacity_operations).
ClosedWhenServing ==
  [][pass.at = "close" /\ operations' # operations
     => Cardinality(Keepers) = capacity]_vars

\* A removal that was answered as accepted has marked its runner, unless an
\* operator took it back (service.py: retire).
AnsweredIsMarked ==
  ~Revives => \A k \in answered : intents[k].verb = "retire"
                => ~rows[intents[k].runner].stays

\* A pass takes a runner only while the fleet has more than the capacity in
\* force (specs.py: adopt, read with _converge_capacity).
MarksInExcess ==
  [][pass.at = "mark" /\ rows' # rows /\ pass'.victims # pass.victims
     => Cardinality(Keepers) > capacity]_vars

\* Once nothing is asked of it any more, the fleet ends up with as many
\* runners as its capacity says, all meant to stay, and stays so, whatever
\* was retired, adopted and withdrawn on the way (reconciler.py:
\* _converge_capacity).  A plan needs a runner that never was: the code mints
\* its ids, the model has a bounded supply.
Converges ==
  <>[](\/ Present = Keepers /\ Cardinality(Present) = capacity
       \/ {r \in Runners : rows[r].at = "unborn"} = {})
=============================================================================
