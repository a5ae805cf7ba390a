------------------------------ MODULE Placements ------------------------------
(***************************************************************************)
(* Where the runners of a fleet are placed, what is reserved for them on a *)
(* worker and what their units are built with (placement.py, cpusets.py,   *)
(* and the limits of service.py, provision.py and reconciler.py).  A pass  *)
(* works on one runner at a time; requests change limits in between, and a *)
(* process that dies leaves its step undone.  The platform is one that     *)
(* pins: a limit of so many cores is a window of so many cores.            *)
(***************************************************************************)
EXTENDS Naturals, FiniteSets

CONSTANTS
  Placed,        \* the runners
  Machines,      \* the workers
  Large,         \* those with LargeCores, the rest have SmallCores
  LargeCores, SmallCores,
  MemoryBudget,  \* memory_bytes of each
  MaxMemory,     \* bound: the highest limit anyone asks for
  NoMachine,
  MaxLimitChanges, MaxPlacingFaults  \* bounds

ASSUME PlacementAssumption ==
  /\ Placed # {} /\ IsFiniteSet(Placed)
  /\ Large \subseteq Machines /\ NoMachine \notin Machines
  /\ LargeCores \in Nat \ {0} /\ SmallCores \in 1 .. LargeCores
  /\ MemoryBudget \in Nat /\ MaxMemory \in Nat \ {0}
  /\ MaxLimitChanges \in Nat /\ MaxPlacingFaults \in Nat

VARIABLES
  rows,       \* runner_specs
  units,      \* what is built, on the workers
  defaults,   \* the limits of the fleet
  placing,    \* the pass: the runner it works on, where it is, what it has in hand
  unchecked,  \* a limit was changed after the check of the unit it is for
  changes, placingFaults

placementVars == <<rows, units, defaults, placing, unchecked, changes, placingFaults>>

Cores(m) == IF m \in Large THEN LargeCores ELSE SmallCores
Slots(m) == Cores(m)   \* max_runners: what its operator declares; here, one to a core
Memories == 1 .. MaxMemory
Widths == 1 .. LargeCores
NotAsked == 0

NoUnitYet == [machine |-> NoMachine, window |-> {}, memory |-> NotAsked]
NotPlacing == [at |-> "rest", runner |-> CHOOSE r \in Placed : TRUE, unit |-> NoUnitYet]

PlacementTypeOK ==
  /\ rows \in [Placed -> [at : {"planned", "provisioning", "built", "removing", "absent"},
                          wanted : BOOLEAN,
                          rebuild : {"no", "pending", "running"}, \* its recreate
                          machine : Machines \cup {NoMachine},
                          window : SUBSET (0 .. LargeCores - 1),
                          memory : {NotAsked} \cup Memories,
                          cores : {NotAsked} \cup Widths, \* cpu_override
                          own : {NotAsked} \cup Memories, \* memory_override
                          measured : {NotAsked} \cup Memories]]
  /\ units \in [Placed -> [machine : Machines \cup {NoMachine},
                           window : SUBSET (0 .. LargeCores - 1),
                           memory : {NotAsked} \cup Memories]]
  /\ defaults \in [cores : Widths, memory : Memories]
  /\ placing.at \in {"rest", "place", "record", "look", "create", "remove", "replace", "erase"}
  /\ placing.runner \in Placed
  /\ unchecked \in BOOLEAN
  /\ changes \in 0 .. MaxLimitChanges /\ placingFaults \in 0 .. MaxPlacingFaults

PlannedRow == [at |-> "planned", wanted |-> TRUE, rebuild |-> "no",
               machine |-> NoMachine, window |-> {}, memory |-> NotAsked,
               cores |-> NotAsked, own |-> NotAsked, measured |-> NotAsked]

\* A deleted row is not listed: what it still has does not matter.
DeletedRow == [PlannedRow EXCEPT !.at = "absent", !.wanted = FALSE]

PlacementInit ==
  /\ rows = [r \in Placed |-> PlannedRow]
  /\ units = [r \in Placed |-> NoUnitYet]
  /\ defaults \in [cores : {LargeCores}, memory : Memories]
  /\ placing = NotPlacing /\ unchecked = FALSE /\ changes = 0 /\ placingFaults = 0

-----------------------------------------------------------------------------
(* What a runner gets: its own limit, else that of its fleet.              *)

\* _pinned_width
Width(r) == IF rows[r].cores # NotAsked THEN rows[r].cores ELSE defaults.cores

\* effective_spec, the memory
Memory(r) ==
  CASE rows[r].own # NotAsked -> rows[r].own
    [] rows[r].own = NotAsked /\ rows[r].memory # NotAsked -> rows[r].memory
    [] OTHER -> defaults.memory

\* Mutant: what is measured of a unit is not reserved.
AsAsked(r) == Memory(r)

\* reserved_spec
Reserved(r) == IF rows[r].measured > Memory(r) THEN rows[r].measured ELSE Memory(r)

\* cpusets.allocate: of the windows of a width on a machine, one that overlaps
\* the others least: the lowest peak, the lowest total, the lowest start.
WindowAt(start, width, m) == {(start + i) % Cores(m) : i \in 0 .. width - 1}

On(m, r) == {other \in Placed \ {r} : rows[other].machine = m /\ rows[other].at # "absent"}

Cover(core, m, r) == Cardinality({other \in On(m, r) : core \in rows[other].window})

Peak(cores, m, r) ==
  CHOOSE n \in 0 .. Cardinality(Placed) :
    /\ \E core \in cores : Cover(core, m, r) = n
    /\ \A core \in cores : Cover(core, m, r) <= n
Total(cores, m, r) ==
  Cardinality({use \in cores \X On(m, r) : use[1] \in rows[use[2]].window})

Better(a, b, m, r) ==
  \/ Peak(a, m, r) < Peak(b, m, r)
  \/ Peak(a, m, r) = Peak(b, m, r) /\ Total(a, m, r) < Total(b, m, r)

Allocated(width, m, r) ==
  LET window(start) == WindowAt(start, width, m)
      best == CHOOSE start \in 0 .. Cores(m) - 1 :
                \A other \in 0 .. Cores(m) - 1 :
                  /\ ~Better(window(other), window(start), m, r)
                  /\ Better(window(start), window(other), m, r) \/ start <= other
  IN  window(best)

\* effective_spec, the window: one that has the width a runner asked for of its
\* own is kept, and so is any if it asked for none; one is cut where there is none.
Keeps(r) ==
  /\ rows[r].window # {}
  /\ rows[r].cores \in {NotAsked, Cardinality(rows[r].window)}

\* replacement_spec: only a window of the width it would get is kept.
StillRight(r) == Cardinality(rows[r].window) = Width(r)

-----------------------------------------------------------------------------
(* placement.choose                                                        *)

\* What the others reserve on a machine, unit of memory by unit.
ReservedOn(m, r) == {piece \in On(m, r) \X Memories : piece[2] <= Reserved(piece[1])}

\* A machine that is large enough and has room.
Fits(r, memory, m) ==
  /\ Width(r) <= Cores(m)
  /\ Cardinality(On(m, r)) < Slots(m)
  /\ Cardinality(ReservedOn(m, r)) + memory <= MemoryBudget

\* Of those, one with the fewest runners.
Chooses(r, m) ==
  /\ Fits(r, Memory(r), m)
  /\ \A other \in Machines :
       Fits(r, Memory(r), other) => Cardinality(On(m, r)) <= Cardinality(On(other, r))

\* resolved_memory, for a replacement
Replaced(r) == IF rows[r].own # NotAsked THEN rows[r].own ELSE defaults.memory

\* validate_replacement: it stays where it is.
MayReplace(r) == Fits(r, Replaced(r), rows[r].machine)

-----------------------------------------------------------------------------
(* A pass, a runner at a time.                                             *)

Working(place) == placing.at = place
OnRow(r, row) == rows' = [rows EXCEPT ![r] = row]
PlacingAt(place) == placing' = [placing EXCEPT !.at = place]
TakeUp(r, place) == placing' = [at |-> place, runner |-> r, unit |-> NoUnitYet]
LeaveRunner(r) == placing' = NotPlacing
Mine == placing.runner

\* _do_provision: the limits are recorded; no machine, no window.
Resolve(r) ==
  /\ Working("rest") /\ rows[r].at \in {"planned", "provisioning"} /\ rows[r].wanted
  /\ OnRow(r, [rows[r] EXCEPT !.memory = Memory(r),
                              !.window = IF Keeps(r) THEN @ ELSE {}])
  /\ TakeUp(r, IF rows[r].machine = NoMachine THEN "place" ELSE "look")
  /\ UNCHANGED <<units, defaults, unchecked, changes, placingFaults>>

\* One with nowhere to go waits.
Place ==
  LET r == Mine
  IN  /\ Working("place")
      /\ \/ /\ ~\E m \in Machines : Fits(r, Memory(r), m)
            /\ LeaveRunner(r) /\ UNCHANGED rows
         \/ /\ \E m \in Machines :
                 /\ Chooses(r, m)
                 /\ OnRow(r, [rows[r] EXCEPT !.at = "provisioning", !.machine = m])
            /\ PlacingAt("look")
      /\ UNCHANGED <<units, defaults, unchecked, changes, placingFaults>>

\* Mutant: the window is handed to the worker and not recorded.
InHandOnly(r, window) == rows[r]

WindowRecorded(r, window) == [rows[r] EXCEPT !.window = window]

\* _step_create_unit: a unit by that name is this runner's; else its window is
\* cut on the machine it is placed on, and recorded before it is built.
LookForUnit ==
  LET r == Mine
      window == IF Keeps(r) THEN rows[r].window ELSE Allocated(Width(r), rows[r].machine, r)
  IN  /\ Working("look")
      /\ IF units[r] # NoUnitYet
         THEN OnRow(r, [rows[r] EXCEPT !.at = "built"]) /\ LeaveRunner(r)
         ELSE IF ~Keeps(r) /\ Width(r) > Cores(rows[r].machine)
         THEN LeaveRunner(r) /\ UNCHANGED rows
         ELSE /\ OnRow(r, WindowRecorded(r, window))
              /\ placing' = [placing EXCEPT !.at = "create",
                               !.unit = [machine |-> rows[r].machine, window |-> window,
                                         memory |-> Memory(r)]]
      /\ UNCHANGED <<units, defaults, unchecked, changes, placingFaults>>

Create ==
  /\ Working("create")
  /\ units' = [units EXCEPT ![Mine] = placing.unit] /\ PlacingAt("record")
  /\ UNCHANGED <<rows, defaults, unchecked, changes, placingFaults>>

RecordBuilt ==
  /\ Working("record")
  /\ OnRow(Mine, [rows[Mine] EXCEPT !.at = "built"]) /\ LeaveRunner(Mine)
  /\ UNCHANGED <<units, defaults, unchecked, changes, placingFaults>>

\* Mutant: a rebuild that was accepted is not checked again.
AsAccepted(r) == TRUE

CheckedAgain(r) == MayReplace(r)

\* _recreate_turn: one at a time, with the others of the fleet up or waiting too.
HasItsTurn(r) ==
  \A other \in Placed \ {r} :
    /\ rows[other].at \in {"built", "absent"} \/ rows[other].rebuild = "pending"
    /\ rows[other].rebuild # "running"

\* A rebuild that fails, and those that wait for it are stopped.
Halts(r) ==
  rows' = [other \in Placed |->
             IF other = r \/ rows[other].rebuild = "pending"
             THEN [rows[other] EXCEPT !.rebuild = "no"] ELSE rows[other]]

\* One that begins is checked.
BeginRebuild(r) ==
  /\ Working("rest") /\ rows[r].wanted
  /\ rows[r].rebuild = "pending" /\ HasItsTurn(r)
  /\ IF CheckedAgain(r)
     THEN OnRow(r, [rows[r] EXCEPT !.rebuild = "running"])
     ELSE Halts(r)
  /\ UNCHANGED <<units, defaults, placing, unchecked, changes, placingFaults>>

\* _step: it is checked before it is deregistered, and again before its unit is
\* taken down, as often as it is taken up.
Dismantle(r) ==
  /\ Working("rest") /\ rows[r].wanted /\ rows[r].rebuild = "running"
  /\ \/ ~CheckedAgain(r) /\ Halts(r) /\ UNCHANGED placing
     \/ /\ CheckedAgain(r) /\ rows[r].at = "built"
        /\ OnRow(r, [rows[r] EXCEPT !.at = "removing"]) /\ UNCHANGED placing
     \/ /\ CheckedAgain(r) /\ rows[r].at = "removing"
        /\ TakeUp(r, "remove") /\ UNCHANGED rows
  /\ UNCHANGED <<units, defaults, unchecked, changes, placingFaults>>

RemoveUnit ==
  /\ Working("remove")
  /\ units' = [units EXCEPT ![Mine] = NoUnitYet] /\ PlacingAt("replace")
  /\ UNCHANGED <<rows, defaults, unchecked, changes, placingFaults>>

\* replacement_spec; a width that no longer fits is an error of the rebuild.
Replace ==
  LET r == Mine
  IN  /\ Working("replace")
      /\ IF ~StillRight(r) /\ Width(r) > Cores(rows[r].machine)
         THEN Halts(r)
         ELSE OnRow(r, [rows[r] EXCEPT
                !.at = "provisioning", !.rebuild = "no", !.memory = Replaced(r),
                !.window = IF StillRight(r) THEN @
                           ELSE Allocated(Width(r), rows[r].machine, r)])
      /\ LeaveRunner(r)
      /\ UNCHANGED <<units, defaults, unchecked, changes, placingFaults>>

\* One that is to be absent is taken down, then said to be.
BeginRemoval(r) ==
  /\ Working("rest") /\ ~rows[r].wanted /\ rows[r].at # "absent"
  /\ IF rows[r].at = "planned"
     THEN OnRow(r, DeletedRow) /\ UNCHANGED placing
     ELSE OnRow(r, [rows[r] EXCEPT !.at = "removing"]) /\ TakeUp(r, "erase")
  /\ UNCHANGED <<units, defaults, unchecked, changes, placingFaults>>

EraseUnit ==
  /\ Working("erase")
  /\ IF units[Mine] # NoUnitYet
     THEN units' = [units EXCEPT ![Mine] = NoUnitYet] /\ UNCHANGED <<rows, placing>>
     ELSE OnRow(Mine, DeletedRow) /\ LeaveRunner(Mine) /\ UNCHANGED units
  /\ UNCHANGED <<defaults, unchecked, changes, placingFaults>>

PassStops ==
  /\ ~Working("rest") /\ placingFaults < MaxPlacingFaults
  /\ placingFaults' = placingFaults + 1 /\ placing' = NotPlacing
  /\ UNCHANGED <<rows, units, defaults, unchecked, changes>>

-----------------------------------------------------------------------------
(* Requests, and the heartbeats of the workers.                            *)

Change == changes < MaxLimitChanges /\ changes' = changes + 1

WorksOn(r) == ~Working("rest") /\ Mine = r

\* set_limits: the override, whatever the runner is at; the rebuild it asks for
\* is a Recreate, or waits for one.  One set while its unit is built or replaced
\* is built without a check of its own; and one set on a unit that was not
\* measured since it was built may leave less reserved than the unit has.
SetLimits(r) ==
  /\ Change /\ rows[r].wanted
  /\ \/ \E cores \in ({NotAsked} \cup Widths) \ {rows[r].cores} :
          /\ rows[r].machine = NoMachine \/ cores <= Cores(rows[r].machine)
          /\ OnRow(r, [rows[r] EXCEPT !.cores = cores]) /\ UNCHANGED unchecked
     \/ \E memory \in ({NotAsked} \cup Memories) \ {rows[r].own} :
          /\ memory <= MemoryBudget
          /\ OnRow(r, [rows[r] EXCEPT !.own = memory])
          /\ unchecked' = (unchecked \/ rows[r].at = "provisioning" \/ WorksOn(r)
                                     \/ rows[r].measured < units[r].memory)
  /\ UNCHANGED <<units, defaults, placing, placingFaults>>

Recreate(r) ==
  /\ rows[r].wanted /\ rows[r].at \in {"built", "removing"} /\ rows[r].rebuild = "no"
  /\ ~WorksOn(r) /\ MayReplace(r)
  /\ OnRow(r, [rows[r] EXCEPT !.rebuild = "pending"])
  /\ UNCHANGED <<units, defaults, placing, unchecked, changes, placingFaults>>

\* set_defaults: a rebuild takes them up after its last check as well.
SetDefaults ==
  /\ Change
  /\ \/ \E cores \in Widths \ {defaults.cores} :
          defaults' = [defaults EXCEPT !.cores = cores] /\ UNCHANGED unchecked
     \/ \E memory \in Memories \ {defaults.memory} :
          /\ defaults' = [defaults EXCEPT !.memory = memory]
          /\ unchecked' = (unchecked \/ Working("remove") \/ Working("replace"))
  /\ UNCHANGED <<rows, units, placing, placingFaults>>

RetirePlaced(r) ==
  /\ rows[r].wanted /\ OnRow(r, [rows[r] EXCEPT !.wanted = FALSE])
  /\ UNCHANGED <<units, defaults, placing, unchecked, changes, placingFaults>>

Measure(r) ==
  /\ units[r] # NoUnitYet /\ rows[r].measured # units[r].memory
  /\ OnRow(r, [rows[r] EXCEPT !.measured = units[r].memory])
  /\ UNCHANGED <<units, defaults, placing, unchecked, changes, placingFaults>>

PlacementNext ==
  \/ Place \/ LookForUnit \/ Create \/ RecordBuilt \/ RemoveUnit \/ Replace \/ EraseUnit
  \/ PassStops \/ SetDefaults
  \/ \E r \in Placed :
       \/ Resolve(r) \/ BeginRebuild(r) \/ Dismantle(r) \/ BeginRemoval(r)
       \/ SetLimits(r) \/ Recreate(r) \/ RetirePlaced(r) \/ Measure(r)

PlacementSpec == PlacementInit /\ [][PlacementNext]_placementVars

-----------------------------------------------------------------------------

Built(m) == {r \in Placed : units[r].machine = m}
UsedOn(m) == {piece \in Built(m) \X Memories : piece[2] <= units[piece[1]].memory}

\* "A worker is never overcommitted" (docs, the design of the platform): with
\* runners placed, rebuilt with other limits and taken down, whatever is
\* accepted meanwhile and wherever a pass is cut off, what its units may use is
\* what it has; unless a memory limit was changed between the check of a unit and
\* the building or the measuring of it (README, "Other disagreements").
NeverOvercommitted ==
  \A m \in Machines :
    /\ Cardinality(Built(m)) <= Slots(m)
    /\ ~unchecked => Cardinality(UsedOn(m)) <= MemoryBudget

\* A unit is built on the machine its row names, with the window its row has
\* by then, of cores that machine has: never one cut from another's numbering
\* (service.py, the findings of 2026-09-23), nor one the others cannot see.
BuiltAsRecorded ==
  [][\A r \in Placed :
       units[r] = NoUnitYet /\ units'[r] # NoUnitYet =>
         /\ units'[r].machine = rows[r].machine
         /\ units'[r].window = rows[r].window
         /\ units'[r].window # {} /\ units'[r].window \subseteq 0 .. Cores(rows[r].machine) - 1
    ]_placementVars
=============================================================================
