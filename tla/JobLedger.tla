------------------------------ MODULE JobLedger ------------------------------
(***************************************************************************)
(* What the controller learns of the jobs of one runner, and from whom     *)
(* (control/job_events.py, dashboard/webhook_jobs.py,                      *)
(* control/forge_health.py, Inventory.invalidate_cache).                   *)
(*                                                                         *)
(* Three sources report on the runner.  Its worker posts the events of its *)
(* outbox, one after another, until each is taken.  The forge sends a      *)
(* signed event, on its own, in any order, perhaps twice.  And the forge   *)
(* is read every so often, which takes a while.  An event goes into the    *)
(* ledger; the runner's record keeps the event to display, the last signed *)
(* one, and what the forge was last known to say of the runner.            *)
(*                                                                         *)
(* Events are numbered in the order they happened: an odd one starts a     *)
(* job, the even one after it finishes that job.  Their times and ids rank *)
(* them in that order.                                                     *)
(***************************************************************************)
EXTENDS Naturals, Sequences, FiniteSets, FiniteSetsExt

CONSTANTS
  Hosts,         \* workers
  Home,          \* the one whose agent has the outbox
  MaxEvents,     \* bound: how many events happen
  LaterBy,       \* whose time of one event is later, the worker's or the forge's
  SameNames,     \* whether a job has one name for its worker and the forge
  MaxClears,     \* bound: cache clears
  LastSecond,    \* bound: the clock, by which words of the forge are dated
  MaxLedgerFaults \* bound: posts without an answer, repeats, moves

ASSUME LedgerAssumption ==
  /\ Home \in Hosts /\ MaxEvents \in Nat /\ LaterBy \in {"worker", "forge"}
  /\ MaxClears \in Nat /\ LastSecond \in Nat /\ MaxLedgerFaults \in Nat

VARIABLES
  happened,  \* the number of the last event that happened
  pending,   \* the worker's events recorded and not known to be delivered
  kept,      \* history: the worker's events recorded
  posting,   \* whether the worker waits for the answer to a post
  posts,     \* the worker's events on their way
  sent,      \* history: the signed events sent
  lookups,   \* signed events whose runner was looked up, with its worker
  record,    \* the runner's record
  ledger,    \* the events in the ledger
  entries,   \* how many entries the ledger has
  reading,   \* a read of the forge under way
  second,    \* the clock
  clear,     \* a cache clear that has read the record and not written it
  clears,
  evidence,  \* history: the last event that what the forge was known to say reflects
  overwrote, \* history: whether a clear overwrote an event
  ledgerFaults

ledgerVars == <<happened, pending, kept, posting, posts, sent, lookups, record,
                ledger, entries, reading, second, clear, clears, evidence, overwrote,
                ledgerFaults>>

Numbers == 1 .. MaxEvents
Started(e) == e % 2 = 1
JobOf(e) == (e + 1) \div 2
NoEvent == [by |-> "nobody", n |-> 0]
JobEvents == [by : {"worker", "forge"}, n : Numbers] \cup {NoEvent}

\* What the forge says while event n is the last one.
Says(n) == IF n # 0 /\ Started(n) THEN "busy" ELSE "idle"

NotRead == [pc |-> "none", marker |-> 0, before |-> 0, n |-> 0, word |-> "unknown"]
NoClear == [pc |-> "none", shown |-> NoEvent, signed |-> 0]

LedgerTypeOK ==
  /\ happened \in 0 .. MaxEvents
  /\ pending \in Seq(Numbers) /\ kept \subseteq Numbers
  /\ posting \in BOOLEAN /\ (posting => pending # <<>>) /\ posts \subseteq Numbers
  /\ sent \subseteq Numbers
  /\ lookups \subseteq [n : Numbers, host : Hosts]
  /\ record \in [host : Hosts, shown : JobEvents, signed : 0 .. MaxEvents,
                 word : {"unknown", "busy", "idle"}, heard : 0 .. LastSecond]
  /\ ledger \subseteq JobEvents /\ entries \in Nat
  /\ reading \in [pc : {"none", "asks", "answered"}, marker : 0 .. MaxEvents,
                  before : 0 .. LastSecond, n : 0 .. MaxEvents, word : {"unknown", "busy", "idle"}]
  /\ second \in 0 .. LastSecond
  /\ clear \in [pc : {"none", "read"}, shown : JobEvents, signed : 0 .. MaxEvents]
  /\ clears \in 0 .. MaxClears
  /\ evidence \in 0 .. MaxEvents /\ overwrote \in BOOLEAN
  /\ ledgerFaults \in 0 .. MaxLedgerFaults

LedgerInit ==
  /\ happened = 0 /\ pending = <<>> /\ kept = {}
  /\ posting = FALSE /\ posts = {} /\ sent = {} /\ lookups = {}
  /\ record = [host |-> Home, shown |-> NoEvent, signed |-> 0,
               word |-> "unknown", heard |-> 0]
  /\ ledger = {} /\ entries = 0
  /\ reading = NotRead /\ second = 0
  /\ clear = NoClear /\ clears = 0
  /\ evidence = 0 /\ overwrote = FALSE
  /\ ledgerFaults = 0

LedgerFault == ledgerFaults < MaxLedgerFaults /\ ledgerFaults' = ledgerFaults + 1

workerSide == <<pending, kept, posting, posts>>
forgeSide == <<sent, lookups>>
readSide == <<reading, second>>
clearSide == <<clear, clears>>
books == <<record, ledger, entries, evidence, overwrote>>

-----------------------------------------------------------------------------
(* The rules.                                                              *)

\* a ranks at least as high as b.
RanksAtLeast(a, b) == a.n > b.n \/ (a.n = b.n /\ a.by \in {b.by, LaterBy})

\* Whether two events are known to be of one job.
SameExecution(a, b) ==
  /\ JobOf(a.n) = JobOf(b.n)
  /\ a.by = b.by \/ SameNames \/ (~Started(a.n) /\ ~Started(b.n))

\* Mutant: the later event is displayed, whoever it is from.
DisplayLater(new, old) == old = NoEvent \/ RanksAtLeast(new, old)

\* Whether an event is displayed in place of the one that is.
DisplayNewer(new, old) ==
  LET finished == SameExecution(new, old) /\ ~Started(old.n) IN
  CASE old = NoEvent -> TRUE
    [] old.by = "forge" /\ new.by = "worker" -> ~finished /\ RanksAtLeast(new, old)
    [] old.by = "worker" /\ new.by = "forge" ->
         ~(~SameExecution(new, old) /\ Started(old.n) /\ ~RanksAtLeast(new, old))
    [] old.by = new.by -> ~(finished /\ Started(new.n)) /\ RanksAtLeast(new, old)

\* Mutant: the last signed event to arrive is the last signed event.
ApplyInOrderOfArrival(event) ==
  IF event \in ledger
  THEN UNCHANGED books
  ELSE LET shown == IF DisplayNewer(event, record.shown) THEN event ELSE record.shown
       IN  /\ ledger' = ledger \cup {event} /\ entries' = entries + 1
           /\ record' = IF event.by = "forge"
                        THEN [record EXCEPT !.shown = shown, !.signed = event.n,
                                            !.word = Says(event.n), !.heard = second]
                        ELSE [record EXCEPT !.shown = shown]
           /\ evidence' = IF event.by = "forge" THEN event.n ELSE evidence
           /\ overwrote' = overwrote

\* An event of the ledger's own transaction.  A repeat changes nothing.
Apply(event) ==
  IF event \in ledger
  THEN UNCHANGED books
  ELSE LET shown == IF DisplayNewer(event, record.shown) THEN event ELSE record.shown
           ranks == event.by = "forge" /\ event.n >= record.signed
       IN  /\ ledger' = ledger \cup {event} /\ entries' = entries + 1
           /\ record' = IF ranks
                        THEN [record EXCEPT !.shown = shown, !.signed = event.n,
                                            !.word = Says(event.n), !.heard = second]
                        ELSE [record EXCEPT !.shown = shown]
           /\ evidence' = IF ranks THEN event.n ELSE evidence
           /\ overwrote' = overwrote

-----------------------------------------------------------------------------
(* The runner's worker.                                                    *)

Happens ==
  /\ happened < MaxEvents
  /\ happened' = happened + 1
  /\ UNCHANGED <<workerSide, forgeSide, readSide, clearSide, books, ledgerFaults>>

\* The agent records an event in its outbox, in whatever order it finds them.
KeepEvent(n) ==
  /\ n <= happened /\ n \notin kept
  /\ kept' = kept \cup {n} /\ pending' = Append(pending, n)
  /\ UNCHANGED <<happened, posting, posts, forgeSide, readSide, clearSide, books, ledgerFaults>>

\* The oldest event of the outbox is posted.
PostHead ==
  /\ ~posting /\ pending # <<>>
  /\ posting' = TRUE /\ posts' = posts \cup {Head(pending)}
  /\ UNCHANGED <<happened, pending, kept, forgeSide, readSide, clearSide, books, ledgerFaults>>

\* Mutant: a post nobody answers is waited for for ever.
PostWaitsForEver ==
  /\ posting /\ LedgerFault
  /\ posts' = posts \ {Head(pending)}
  /\ UNCHANGED <<happened, pending, kept, posting, forgeSide, readSide, clearSide, books>>

\* No answer comes.  The post may still arrive.
PostUnanswered ==
  /\ posting /\ LedgerFault
  /\ posting' = FALSE
  /\ posts' = posts \/ posts' = posts \ {Head(pending)}
  /\ UNCHANGED <<happened, pending, kept, forgeSide, readSide, clearSide, books>>

Owned(host) == record.host = host

\* A post arrives.  One that is refused is made again, before any other.
TakePost(n) ==
  LET waited == posting /\ Head(pending) = n IN
  /\ n \in posts
  /\ posts' = posts \ {n}
  /\ IF Owned(Home) THEN Apply([by |-> "worker", n |-> n]) ELSE UNCHANGED books
  /\ posting' = (posting /\ ~waited)
  /\ pending' = IF waited /\ Owned(Home) THEN Tail(pending) ELSE pending
  /\ UNCHANGED <<happened, kept, forgeSide, readSide, clearSide, ledgerFaults>>

-----------------------------------------------------------------------------
(* The forge.                                                              *)

\* A signed event arrives and the runner it names is looked up.  A second
\* delivery of it has its identity.
Webhook(n) ==
  /\ n <= happened
  /\ IF n \in sent THEN LedgerFault ELSE UNCHANGED ledgerFaults
  /\ sent' = sent \cup {n}
  /\ lookups' = lookups \cup {[n |-> n, host |-> record.host]}
  /\ UNCHANGED <<happened, workerSide, readSide, clearSide, books>>

TakeWebhook(l) ==
  /\ lookups' = lookups \ {l}
  /\ IF Owned(l.host) THEN Apply([by |-> "forge", n |-> l.n]) ELSE UNCHANGED books
  /\ UNCHANGED <<happened, workerSide, sent, readSide, clearSide, ledgerFaults>>

\* The routine read: what is on record is read first, then the forge.
BeginReading ==
  /\ reading.pc = "none"
  /\ reading' = [NotRead EXCEPT !.pc = "asks", !.marker = record.signed,
                                !.before = second]
  /\ UNCHANGED <<happened, workerSide, forgeSide, second, clearSide, books, ledgerFaults>>

ForgeAnswers ==
  /\ reading.pc = "asks"
  /\ \E word \in {Says(happened), "unknown"} :
       reading' = [reading EXCEPT !.pc = "answered", !.n = happened, !.word = word]
  /\ UNCHANGED <<happened, workerSide, forgeSide, second, clearSide, books, ledgerFaults>>

\* Mutant: a reply is fenced by its date alone.
FencedByDate == record.heard > reading.before

\* A reply is recorded unless another signed event is on record since, or a
\* word of a later second.  No word is not an answer: it keeps the old date.
Fenced == record.signed # reading.marker \/ record.heard > reading.before

RecordReading ==
  /\ reading.pc = "answered"
  /\ reading' = NotRead
  /\ IF Fenced
     THEN UNCHANGED <<record, evidence>>
     ELSE IF reading.word = "unknown"
     THEN record' = [record EXCEPT !.word = "unknown"] /\ evidence' = evidence
     ELSE /\ record' = [record EXCEPT !.word = reading.word, !.heard = reading.before]
          /\ evidence' = reading.n
  /\ UNCHANGED <<happened, workerSide, forgeSide, second, clearSide, ledger,
                 entries, overwrote, ledgerFaults>>

NextSecond ==
  /\ second < LastSecond
  /\ second' = second + 1
  /\ UNCHANGED <<happened, workerSide, forgeSide, reading, clearSide, books, ledgerFaults>>

-----------------------------------------------------------------------------
(* The controller.                                                         *)

\* The runner is rebuilt, on any worker.
MoveRunner ==
  /\ LedgerFault
  /\ \E host \in Hosts \ {record.host} : record' = [record EXCEPT !.host = host]
  /\ UNCHANGED <<happened, workerSide, forgeSide, readSide, clearSide, ledger,
                 entries, evidence, overwrote>>

\* A finished cache clear discards the last measured size, which is kept in
\* one field with the events: read, and then written.
ClearReads ==
  /\ clear.pc = "none" /\ clears < MaxClears
  /\ clears' = clears + 1
  /\ clear' = [pc |-> "read", shown |-> record.shown, signed |-> record.signed]
  /\ UNCHANGED <<happened, workerSide, forgeSide, readSide, books, ledgerFaults>>

ClearWrites ==
  /\ clear.pc = "read"
  /\ clear' = NoClear
  /\ record' = [record EXCEPT !.shown = clear.shown, !.signed = clear.signed]
  /\ overwrote' = (overwrote \/ record' # record)
  /\ UNCHANGED <<happened, workerSide, forgeSide, readSide, clears, ledger,
                 entries, evidence, ledgerFaults>>

-----------------------------------------------------------------------------

Posting == PostHead \/ \E n \in posts : TakePost(n)

LedgerNext ==
  \/ Happens
  \/ \E n \in Numbers : KeepEvent(n) \/ Webhook(n)
  \/ Posting \/ PostUnanswered
  \/ \E l \in lookups : TakeWebhook(l)
  \/ BeginReading \/ ForgeAnswers \/ RecordReading \/ NextSecond
  \/ MoveRunner \/ ClearReads \/ ClearWrites

\* The agent goes on posting, and the controller on taking what arrives.
LedgerFairness == WF_ledgerVars(PostHead) /\ \A n \in Numbers : WF_ledgerVars(TakePost(n))

LedgerSpec == LedgerInit /\ [][LedgerNext]_ledgerVars /\ LedgerFairness

-----------------------------------------------------------------------------

Signed == {n \in Numbers : [by |-> "forge", n |-> n] \in ledger}

\* Whatever the order in which signed events arrive, and however often, each is
\* in the ledger once, and the last one on record is the last that happened of
\* those that arrived.  "A reply begun before a signed event ... cannot overwrite
\* that newer evidence" (forge_health.py): what the forge is known to say
\* reflects every signed event on record, also when events and replies overtake
\* each other.  A cache clear that overwrote one is the exception.
AuthorityHolds ==
  /\ entries = Cardinality(ledger)
  /\ ~overwrote => /\ record.signed = Max(Signed \cup {0})
                   /\ evidence >= Max(Signed \cup {0})

\* "Only a signed forge event can replace ... a signed result"
\* (native-job-events.md): a signed result on display is followed by an event
\* of a later job, never by an earlier event or a worker's word on that job.
SignedResultStands ==
  [][ LET old == record.shown
          new == record'.shown
      IN  old.by = "forge" /\ ~Started(old.n) /\ new # old /\ ~overwrote'
            => JobOf(new.n) > JobOf(old.n) ]_ledgerVars

\* "Private durable outbox" (native-job-events.md): an event the worker has
\* recorded reaches the ledger, unless its runner is another worker's now.
EventArrives ==
  \A n \in Numbers :
    n \in kept ~> ([by |-> "worker", n |-> n] \in ledger \/ ~Owned(Home))

\* What forge_health.py says of replies, with cache clears.
ReplyNeverOverwrites == evidence >= Max(Signed \cup {0})

\* "An out-of-order start cannot resurrect a finished job" (the test of that
\* name): no job is displayed as running that the ledger has as finished.
NotResurrected ==
  Started(record.shown.n) =>
    \A event \in ledger : event.n # record.shown.n + 1
=============================================================================
