----------------------------- MODULE AgentCalls -----------------------------
(***************************************************************************)
(* How the controller gets work done on a worker: a call of one of the     *)
(* asynchronous verbs (agent_client.py, retry.py) and the agent that       *)
(* carries it out (agent/server.py, agent/verbs.py).                       *)
(*                                                                         *)
(* A call is known by its Idempotency-Key, which is made for it and used   *)
(* by every request it sends: the first one starts the work and is         *)
(* answered with a handle, those that follow wait for the work to end.     *)
(* The agent remembers an operation per key, in memory, and forgets them   *)
(* all when it restarts.  The call is made on a thread of its own, which   *)
(* its caller stops waiting for when the outer deadline passes; the thread *)
(* then carries on with nobody to tell.                                    *)
(*                                                                         *)
(* Reads are left out: they change nothing on either side.  So are the     *)
(* agent's events, since no caller gives its call an operation id and an   *)
(* event without one is refused on arrival.                                *)
(***************************************************************************)
EXTENDS Naturals, FiniteSets

CONSTANTS
  Calls,          \* the calls, each with its key
  DestructiveCalls, \* those of a verb only a healthy worker is asked for
  MaxOperations,  \* how many operations the agent remembers
  MaxCallFaults   \* bound: restarts, lost requests, lost answers, policy changes

VARIABLES
  thread,   \* where the thread of a call is
  told,     \* what the caller of a call was told
  request,  \* the request a call waits for: what the agent has of it
  strays,   \* calls with a request on its way that nobody waits for
  overdue,  \* calls whose own deadline has passed
  memory,   \* the keys the agent remembers
  elders,   \* of each key it remembers, those it has remembered for longer
  carried,  \* of each key, the state of its operation
  works,    \* of each key, how many threads of the agent do its work
  worker,   \* whether the worker is healthy, and what it is permitted
  started,  \* history: the calls whose work was ever started
  ended,    \* history: how the work of each call has ended, each time it did
  callFaults

callVars == <<thread, told, request, strays, overdue, memory, elders, carried,
              works, worker, started, ended, callFaults>>
agentVars == <<memory, elders, carried, works, started, ended>>

ASSUME CallsAssumption == MaxOperations \in Nat /\ MaxCallFaults \in Nat

OUTCOMES == {"result", "failed", "refused", "unreachable", "timeout"}

CallsTypeOK ==
  /\ thread \in [Calls -> {"idle", "new", "waits", "over"}]
  /\ told \in [Calls -> {"nothing"} \cup OUTCOMES]
  /\ request \in [Calls -> {"none", "sent", "held", "succeeded", "failed"}]
  /\ strays \subseteq Calls /\ overdue \subseteq Calls
  /\ memory \subseteq Calls /\ elders \in [Calls -> SUBSET Calls]
  /\ carried \in [Calls -> {"none", "running", "succeeded", "failed"}]
  /\ works \in [Calls -> Nat]
  /\ worker \in [healthy : BOOLEAN, permitted : BOOLEAN, serves : BOOLEAN]
  /\ started \subseteq Calls
  /\ ended \in [Calls -> SUBSET {"succeeded", "failed"}]
  /\ callFaults \in 0 .. MaxCallFaults

CallsInit ==
  /\ thread = [c \in Calls |-> "idle"] /\ told = [c \in Calls |-> "nothing"]
  /\ request = [c \in Calls |-> "none"]
  /\ strays = {} /\ overdue = {}
  /\ memory = {} /\ elders = [c \in Calls |-> {}]
  /\ carried = [c \in Calls |-> "none"]
  /\ works = [c \in Calls |-> 0]
  /\ worker = [healthy |-> TRUE, permitted |-> TRUE, serves |-> TRUE]
  /\ started = {} /\ ended = [c \in Calls |-> {}]
  /\ callFaults = 0

CallFault == callFaults < MaxCallFaults /\ callFaults' = callFaults + 1

-----------------------------------------------------------------------------
(* The caller.                                                             *)

\* The thread of the call ends.  Its caller hears how, if it still waits.
Ends(c, outcome) ==
  /\ thread' = [thread EXCEPT ![c] = "over"]
  /\ told' = [told EXCEPT ![c] = IF @ = "nothing" THEN outcome ELSE @]

\* A caller hands the call to a thread of its own and waits for it.
MakeCall(c) ==
  /\ thread[c] = "idle"
  /\ thread' = [thread EXCEPT ![c] = "new"]
  /\ UNCHANGED <<told, request, strays, overdue, agentVars, worker, callFaults>>

\* The caller stops waiting, whatever the thread does.
Release(c) ==
  /\ thread[c] # "idle" /\ told[c] = "nothing"
  /\ told' = [told EXCEPT ![c] = "timeout"]
  /\ UNCHANGED <<thread, request, strays, overdue, agentVars, worker, callFaults>>

\* What is checked before a connection is opened, by every request of a call.
Permitted(c) == worker.permitted /\ (c \in DestructiveCalls => worker.healthy)

\* A call that has no answer yet, or one that says the work is still running,
\* asks; a call past its deadline does not ask again.
MayAsk(c) ==
  /\ request[c] = "none"
  /\ thread[c] = "new" \/ (thread[c] = "waits" /\ c \notin overdue)

Ask(c) ==
  /\ MayAsk(c) /\ Permitted(c)
  /\ request' = [request EXCEPT ![c] = "sent"]
  /\ UNCHANGED <<thread, told, strays, overdue, agentVars, worker, callFaults>>

AskRefused(c) ==
  /\ MayAsk(c) /\ ~Permitted(c)
  /\ Ends(c, "refused")
  /\ UNCHANGED <<request, strays, overdue, agentVars, worker, callFaults>>

\* Mutant: an agent that no longer answers is taken to have finished the work.
UnansweredIsDone(c, outcome) ==
  Ends(c, IF thread[c] = "new" THEN outcome ELSE "result")

\* An answer that never comes ends the first request of a call.  One that
\* follows is made again: asking is not the work.
Unanswered(c, outcome) ==
  IF thread[c] = "new" THEN Ends(c, outcome) ELSE UNCHANGED <<thread, told>>

Unreachable(c) ==
  /\ MayAsk(c) /\ Permitted(c)
  /\ CallFault
  /\ Unanswered(c, "unreachable")
  /\ UNCHANGED <<request, strays, overdue, agentVars, worker>>

\* The socket's own timeout.  The request may still reach the agent.
SocketTimeout(c) ==
  /\ request[c] # "none"
  /\ CallFault
  /\ request' = [request EXCEPT ![c] = "none"]
  /\ strays' = IF request[c] = "sent" THEN strays \cup {c} ELSE strays
  /\ Unanswered(c, "timeout")
  /\ UNCHANGED <<overdue, agentVars, worker>>

\* The connection breaks while the answer is awaited.
Broken(c) ==
  /\ request[c] # "none"
  /\ CallFault
  /\ request' = [request EXCEPT ![c] = "none"]
  /\ Ends(c, "refused")
  /\ \/ strays' = strays
     \/ request[c] = "sent" /\ strays' = strays \cup {c}
  /\ UNCHANGED <<overdue, agentVars, worker>>

Answered(c) ==
  /\ request[c] \in {"held", "succeeded", "failed"}
  /\ request' = [request EXCEPT ![c] = "none"]
  /\ CASE request[c] = "succeeded" -> Ends(c, "result")
       [] request[c] = "failed"    -> Ends(c, "failed")
       [] OTHER -> thread' = [thread EXCEPT ![c] = "waits"] /\ told' = told
  /\ UNCHANGED <<strays, overdue, agentVars, worker, callFaults>>

DeadlinePasses(c) ==
  /\ thread[c] = "waits" /\ c \notin overdue
  /\ overdue' = overdue \cup {c}
  /\ UNCHANGED <<thread, told, request, strays, agentVars, worker, callFaults>>

GiveUp(c) ==
  /\ thread[c] = "waits" /\ request[c] = "none" /\ c \in overdue
  /\ Ends(c, "timeout")
  /\ UNCHANGED <<request, strays, overdue, agentVars, worker, callFaults>>

-----------------------------------------------------------------------------
(* The agent.                                                              *)

\* How many more than may be are remembered, with one more to remember.
Over(keys) == Cardinality(keys) - MaxOperations

\* Mutant: the oldest operations go, running or not.
ForgottenRunning(keys, older, states) ==
  {k \in keys : Cardinality(older[k]) < Over(keys)}

\* The oldest finished operations go, until no more are remembered than may
\* be or all that are left are running.
Forgotten(keys, older, states) ==
  LET Ended == {k \in keys : states[k] # "running"}
  IN  {k \in Ended : Cardinality(older[k] \cap Ended) < Over(keys)}

\* A request with a key the agent remembers is answered from memory; any
\* other starts the work.
Carry(c) ==
  IF c \in memory
  THEN UNCHANGED agentVars
  ELSE LET keys == memory \cup {c}
           older == [elders EXCEPT ![c] = memory]
           states == [carried EXCEPT ![c] = "running"]
           gone == Forgotten(keys, older, states)
       IN  /\ memory' = keys \ gone
           /\ elders' = [k \in Calls |-> IF k \in gone THEN {} ELSE older[k] \ gone]
           /\ carried' = [k \in Calls |->
                            IF k \in gone THEN "none" ELSE states[k]]
           /\ works' = [works EXCEPT ![c] = @ + 1]
           /\ started' = started \cup {c}
           /\ ended' = ended

\* A request arrives and is let through.  It is answered at once, or held
\* until the work ends.
Arrive(c) ==
  /\ request[c] = "sent" /\ worker.serves
  /\ Carry(c)
  /\ request' = [request EXCEPT ![c] = IF carried'[c] = "running" THEN "held"
                                       ELSE carried'[c]]
  /\ UNCHANGED <<thread, told, strays, overdue, worker, callFaults>>

\* The agent does not serve the verb, or does not speak the protocol; the
\* worker is then degraded.
ArriveRefused(c) ==
  /\ request[c] = "sent" /\ ~worker.serves
  /\ request' = [request EXCEPT ![c] = "none"]
  /\ Ends(c, "refused")
  /\ \/ worker' = worker
     \/ worker' = [worker EXCEPT !.healthy = FALSE]
  /\ UNCHANGED <<strays, overdue, agentVars, callFaults>>

ArriveStray(c) ==
  /\ c \in strays
  /\ strays' = strays \ {c}
  /\ IF worker.serves THEN Carry(c) ELSE UNCHANGED agentVars
  /\ UNCHANGED <<thread, told, request, overdue, worker, callFaults>>

\* The work ends, and every request held for it is let go with the outcome.
CarryOut(c, outcome) ==
  /\ works[c] > 0
  /\ works' = [works EXCEPT ![c] = @ - 1]
  /\ carried' = [carried EXCEPT ![c] = outcome]
  /\ request' = [request EXCEPT ![c] = IF @ = "held" THEN outcome ELSE @]
  /\ ended' = [ended EXCEPT ![c] = @ \cup {outcome}]
  /\ UNCHANGED <<thread, told, strays, overdue, memory, elders, worker, started, callFaults>>

\* What the agent knew, and the work it was doing, is lost; so is every
\* connection to it.
AgentRestarts ==
  /\ CallFault
  /\ memory' = {} /\ elders' = [c \in Calls |-> {}]
  /\ carried' = [c \in Calls |-> "none"]
  /\ works' = [c \in Calls |-> 0]
  /\ LET cut == {c \in Calls : request[c] # "none"}
     IN  /\ thread' = [c \in Calls |-> IF c \in cut THEN "over" ELSE thread[c]]
         /\ told' = [c \in Calls |->
                       IF c \in cut /\ told[c] = "nothing" THEN "refused"
                       ELSE told[c]]
  /\ request' = [c \in Calls |-> "none"]
  /\ strays' = {}
  /\ UNCHANGED <<overdue, worker, started, ended>>

\* The worker's health, or a policy of either side, changes.
WorkerChanges ==
  /\ CallFault
  /\ \E field \in {"healthy", "permitted", "serves"} :
       worker' = [worker EXCEPT ![field] = ~@]
  /\ UNCHANGED <<thread, told, request, strays, overdue, agentVars>>

-----------------------------------------------------------------------------

CallStep(c) ==
  \/ Ask(c) \/ AskRefused(c) \/ Unreachable(c)
  \/ SocketTimeout(c) \/ Broken(c) \/ Answered(c)
  \/ DeadlinePasses(c) \/ GiveUp(c)

AgentStep(c) ==
  \/ Arrive(c) \/ ArriveRefused(c) \/ ArriveStray(c)
  \/ \E outcome \in {"succeeded", "failed"} : CarryOut(c, outcome)

CallsNext ==
  \/ \E c \in Calls : MakeCall(c) \/ Release(c) \/ CallStep(c) \/ AgentStep(c)
  \/ AgentRestarts
  \/ WorkerChanges

CallsSpec == CallsInit /\ [][CallsNext]_callVars

-----------------------------------------------------------------------------

\* "The work is never started twice" (protocol.py), while the agent lives: a
\* key has one thread at work at most, and is remembered for as long as it has,
\* so that a repeat of the request finds it.
OneWorkPerKey ==
  \A c \in Calls : /\ works[c] <= 1
                   /\ works[c] = 1 <=> carried[c] = "running"
                   /\ carried[c] # "none" <=> c \in memory

\* "A lost event costs the controller time and never the outcome" (server.py):
\* whatever was lost, repeated, forgotten or restarted on the way, a caller told
\* of a result, or of a failure, has a work that ended so.
ReportsTruth ==
  \A c \in Calls : /\ told[c] = "result" => "succeeded" \in ended[c]
                   /\ told[c] = "failed" => "failed" \in ended[c]

\* Both: a repeat of a request finds the work of the first, and whoever is told
\* of it is told how it ended (protocol.py, server.py, agent_client.py).
CallsHold == OneWorkPerKey /\ ReportsTruth

\* "The call was not made, or was not let through, and this is why"
\* (agent_client.py, AgentRefused).
RefusedWasNotMade ==
  \A c \in Calls : told[c] = "refused" => c \notin started
=============================================================================
