----------------------------- MODULE EventProofs -----------------------------
(***************************************************************************)
(* Proofs about the job events of a runner: what the controller learns of  *)
(* its jobs (JobLedger), that no event of theirs is lost on the way there  *)
(* (JobSources), what becomes of a log where there are none (LogHistory),  *)
(* and the rows of jobs that two reporters tell of (RunHistory).           *)
(***************************************************************************)
EXTENDS JobLedger, JobSources, LogHistory, RunHistory, FiniteSetTheorems, WellFoundedInduction,
        TLAPS

\* The largest number of a set is the one that bounds it.
LEMMA MaxIs ==
  ASSUME NEW S \in SUBSET Nat, NEW m \in S, \A n \in S : n <= m
  PROVE  Max(S) = m
<1>1. \A y \in S : m >= y
  OBVIOUS
<1>2. \A x \in S : (\A y \in S : x >= y) => x = m
  OBVIOUS
<1> QED BY <1>1, <1>2 DEF Max

-----------------------------------------------------------------------------
(* The ledger.                                                             *)

WORDS == {"unknown", "busy", "idle"}

\* What is read of a record, field by field.
LEMMA RecordFields ==
  ASSUME LedgerTypeOK
  PROVE  /\ record.host \in Hosts /\ record.shown \in JobEvents
         /\ record.signed \in 0 .. MaxEvents /\ record.word \in WORDS
         /\ record.heard \in 0 .. LastSecond
BY DEF LedgerTypeOK, WORDS

LEMMA EventFields ==
  ASSUME NEW e \in JobEvents
  PROVE  /\ e.by \in {"worker", "forge", "nobody"} /\ e.n \in 0 .. MaxEvents
         /\ e # NoEvent => e.by # "nobody" /\ e.n \in Numbers
BY LedgerAssumption DEF JobEvents, NoEvent, Numbers

\* What an event does to the books.
LEMMA ApplyEffect ==
  ASSUME LedgerTypeOK,
         NEW by \in {"worker", "forge"}, NEW n \in Numbers, Apply([by |-> by, n |-> n])
  PROVE  LET event == [by |-> by, n |-> n] IN
         /\ record' \in [host : Hosts, shown : JobEvents, signed : 0 .. MaxEvents,
                         word : WORDS, heard : 0 .. LastSecond]
         /\ ledger' = ledger \cup {event}
         /\ entries' = IF event \in ledger THEN entries ELSE entries + 1
         /\ overwrote' = overwrote /\ evidence' \in 0 .. MaxEvents
         /\ event \in ledger => UNCHANGED books
         /\ event \notin ledger /\ by = "forge" /\ n >= record.signed =>
              record'.signed = n /\ evidence' = n
         /\ ~(event \notin ledger /\ by = "forge" /\ n >= record.signed) =>
              record'.signed = record.signed /\ evidence' = evidence
         /\ record'.shown # record.shown =>
              event \notin ledger /\ DisplayNewer(event, record.shown) /\ record'.shown = event
<1> DEFINE event == [by |-> by, n |-> n]
           shown == IF DisplayNewer(event, record.shown) THEN event ELSE record.shown
           ranks == event.by = "forge" /\ event.n >= record.signed
<1>0. event.by = by /\ event.n = n /\ event \in JobEvents /\ n \in 0 .. MaxEvents
  BY LedgerAssumption DEF JobEvents, Numbers
<1>t. /\ record.host \in Hosts /\ record.shown \in JobEvents
      /\ record.signed \in 0 .. MaxEvents /\ record.word \in WORDS
      /\ record.heard \in 0 .. LastSecond
      /\ second \in 0 .. LastSecond /\ evidence \in 0 .. MaxEvents
      /\ record \in [host : Hosts, shown : JobEvents, signed : 0 .. MaxEvents,
                     word : WORDS, heard : 0 .. LastSecond]
  BY RecordFields DEF LedgerTypeOK, WORDS
<1>1. CASE event \in ledger
  BY <1>0, <1>1, <1>t DEF Apply, books
<1>2. CASE event \notin ledger
  <2>s. shown \in JobEvents
    BY <1>0, <1>t
  <2>1. /\ ledger' = ledger \cup {event} /\ entries' = entries + 1
        /\ record' = IF ranks
                     THEN [record EXCEPT !.shown = shown, !.signed = event.n,
                                         !.word = Says(event.n), !.heard = second]
                     ELSE [record EXCEPT !.shown = shown]
        /\ evidence' = IF ranks THEN event.n ELSE evidence
        /\ overwrote' = overwrote
    BY <1>2 DEF Apply
  <2>2. record'.shown = shown
    <3> HIDE DEF shown, ranks, event
    <3> QED BY <1>t, <2>1
  <2>3. ~(record'.shown # record.shown) \/ (DisplayNewer(event, record.shown) /\ record'.shown = event)
    BY <2>2
  <2>4. Says(event.n) \in WORDS
    BY DEF Says, WORDS
  <2>5. CASE ranks
    <3>1. record' = [record EXCEPT !.shown = shown, !.signed = event.n,
                                   !.word = Says(event.n), !.heard = second]
      BY <2>1, <2>5
    <3>2. /\ record' \in [host : Hosts, shown : JobEvents, signed : 0 .. MaxEvents,
                         word : WORDS, heard : 0 .. LastSecond]
          /\ record'.signed = event.n
      <4> HIDE DEF shown, ranks, event
      <4> QED BY <3>1, <1>t, <1>0, <2>s, <2>4
    <3> HIDE DEF shown
    <3> QED BY <1>0, <1>2, <2>1, <2>3, <2>5, <3>2
  <2>6. CASE ~ranks
    <3>1. record' = [record EXCEPT !.shown = shown]
      BY <2>1, <2>6
    <3>2. /\ record' \in [host : Hosts, shown : JobEvents, signed : 0 .. MaxEvents,
                         word : WORDS, heard : 0 .. LastSecond]
          /\ record'.signed = record.signed
      <4> HIDE DEF shown, ranks, event
      <4> QED BY <3>1, <1>t, <2>s
    <3> HIDE DEF shown
    <3> QED BY <1>0, <1>t, <1>2, <2>1, <2>3, <2>6, <3>2
  <2> QED BY <2>5, <2>6
<1> QED BY <1>1, <1>2

LEMMA LedgerInitTypes == LedgerInit => LedgerTypeOK
<1> SUFFICES ASSUME LedgerInit PROVE LedgerTypeOK
  OBVIOUS
<1>1. record \in [host : Hosts, shown : JobEvents, signed : 0 .. MaxEvents,
                  word : WORDS, heard : 0 .. LastSecond]
  BY LedgerAssumption DEF LedgerInit, JobEvents, WORDS
<1>2. reading \in [pc : {"none", "asks", "answered"}, marker : 0 .. MaxEvents,
                   before : 0 .. LastSecond, n : 0 .. MaxEvents, word : WORDS]
  BY LedgerAssumption DEF LedgerInit, NotRead, WORDS
<1>3. clear \in [pc : {"none", "read"}, shown : JobEvents, signed : 0 .. MaxEvents]
  BY LedgerAssumption DEF LedgerInit, NoClear, JobEvents
<1>4. pending \in Seq(Numbers)
  BY DEF LedgerInit
<1>5. /\ happened \in 0 .. MaxEvents /\ second \in 0 .. LastSecond
      /\ clears \in 0 .. MaxClears /\ evidence \in 0 .. MaxEvents
      /\ ledgerFaults \in 0 .. MaxLedgerFaults
  BY LedgerAssumption DEF LedgerInit
<1>6. /\ kept \subseteq Numbers /\ posting \in BOOLEAN /\ (posting => pending # <<>>)
      /\ posts \subseteq Numbers /\ sent \subseteq Numbers
      /\ lookups \subseteq [n : Numbers, host : Hosts]
      /\ ledger \subseteq JobEvents /\ entries \in Nat /\ overwrote \in BOOLEAN
  BY DEF LedgerInit
<1> QED BY <1>1, <1>2, <1>3, <1>4, <1>5, <1>6 DEF LedgerTypeOK, WORDS

LEMMA LedgerTypesKept ==
  ASSUME LedgerTypeOK, [LedgerNext]_ledgerVars
  PROVE  LedgerTypeOK'
<1> USE DEF LedgerTypeOK
<1>0. ASSUME LedgerFault
      PROVE  ledgerFaults' \in 0 .. MaxLedgerFaults
  BY <1>0, LedgerAssumption DEF LedgerFault
<1>1. CASE Happens
  BY <1>1, LedgerAssumption DEF Happens, workerSide, forgeSide, readSide, clearSide, books
<1>2. ASSUME NEW n \in Numbers, KeepEvent(n)
      PROVE  LedgerTypeOK'
  <2>1. pending' \in Seq(Numbers) /\ pending' # <<>>
    BY <1>2 DEF KeepEvent
  <2> QED BY <1>2, <2>1 DEF KeepEvent, forgeSide, readSide, clearSide, books
<1>3. ASSUME NEW n \in Numbers, Webhook(n)
      PROVE  LedgerTypeOK'
  <2>1. [n |-> n, host |-> record.host] \in [n : Numbers, host : Hosts]
    BY RecordFields
  <2>2. ledgerFaults' \in 0 .. MaxLedgerFaults
    BY <1>0, <1>3 DEF Webhook
  <2> QED BY <1>3, <2>1, <2>2 DEF Webhook, workerSide, readSide, clearSide, books
<1>4. CASE PostHead
  BY <1>4 DEF PostHead, forgeSide, readSide, clearSide, books
<1>5. ASSUME NEW n \in posts, TakePost(n)
      PROVE  LedgerTypeOK'
  <2>1. n \in Numbers
    OBVIOUS
  <2>2. /\ record' \in [host : Hosts, shown : JobEvents, signed : 0 .. MaxEvents,
                        word : WORDS, heard : 0 .. LastSecond]
        /\ ledger' \subseteq JobEvents /\ entries' \in Nat
        /\ overwrote' \in BOOLEAN /\ evidence' \in 0 .. MaxEvents
    <3>1. CASE Owned(Home)
      <4>1. Apply([by |-> "worker", n |-> n])
        BY <1>5, <3>1 DEF TakePost
      <4>2. [by |-> "worker", n |-> n] \in JobEvents
        BY <2>1 DEF JobEvents
      <4> QED BY <2>1, <4>1, <4>2, ApplyEffect
    <3>2. CASE ~Owned(Home)
      BY <1>5, <3>2 DEF TakePost, books, WORDS
    <3> QED BY <3>1, <3>2
  <2>3. pending' \in Seq(Numbers) /\ posting' \in BOOLEAN /\ (posting' => pending' # <<>>)
    <3>1. CASE posting /\ Head(pending) = n
      <4>1. posting' = FALSE
        BY <1>5, <3>1, Zenon DEF TakePost
      <4>2. pending' = pending \/ pending' = Tail(pending)
        BY <1>5, Zenon DEF TakePost
      <4>3. pending # <<>> => Tail(pending) \in Seq(Numbers)
        OBVIOUS
      <4> QED BY <3>1, <4>1, <4>2, <4>3
    <3>2. CASE ~(posting /\ Head(pending) = n)
      BY <1>5, <3>2 DEF TakePost
    <3> QED BY <3>1, <3>2
  <2> QED BY <1>5, <2>2, <2>3 DEF TakePost, forgeSide, readSide, clearSide, WORDS
<1>6. CASE PostUnanswered
  BY <1>0, <1>6 DEF PostUnanswered, forgeSide, readSide, clearSide, books
<1>7. ASSUME NEW l \in lookups, TakeWebhook(l)
      PROVE  LedgerTypeOK'
  <2>1. l.n \in Numbers
    OBVIOUS
  <2>2. /\ record' \in [host : Hosts, shown : JobEvents, signed : 0 .. MaxEvents,
                        word : WORDS, heard : 0 .. LastSecond]
        /\ ledger' \subseteq JobEvents /\ entries' \in Nat
        /\ overwrote' \in BOOLEAN /\ evidence' \in 0 .. MaxEvents
    <3>1. CASE Owned(l.host)
      <4>1. Apply([by |-> "forge", n |-> l.n])
        BY <1>7, <3>1 DEF TakeWebhook
      <4>2. [by |-> "forge", n |-> l.n] \in JobEvents
        BY <2>1 DEF JobEvents
      <4> QED BY <2>1, <4>1, <4>2, ApplyEffect
    <3>2. CASE ~Owned(l.host)
      BY <1>7, <3>2 DEF TakeWebhook, books, WORDS
    <3> QED BY <3>1, <3>2
  <2> QED BY <1>7, <2>2 DEF TakeWebhook, workerSide, readSide, clearSide, WORDS
<1>8. CASE BeginReading
  <2>1. reading' \in [pc : {"none", "asks", "answered"}, marker : 0 .. MaxEvents,
                      before : 0 .. LastSecond, n : 0 .. MaxEvents, word : WORDS]
    <3>1. reading' = [pc |-> "asks", marker |-> record.signed, before |-> second,
                      n |-> 0, word |-> "unknown"]
      BY <1>8 DEF BeginReading, NotRead
    <3> QED BY <3>1, RecordFields, LedgerAssumption DEF WORDS
  <2> QED BY <1>8, <2>1 DEF BeginReading, workerSide, forgeSide, clearSide, books, WORDS
<1>9. CASE ForgeAnswers
  <2>1. \A n : Says(n) \in WORDS
    BY DEF Says, WORDS
  <2>2. reading' \in [pc : {"none", "asks", "answered"}, marker : 0 .. MaxEvents,
                      before : 0 .. LastSecond, n : 0 .. MaxEvents, word : WORDS]
    BY <1>9, <2>1 DEF ForgeAnswers, WORDS
  <2> QED BY <1>9, <2>2 DEF ForgeAnswers, workerSide, forgeSide, clearSide, books, WORDS
<1>10. CASE RecordReading
  <2>1. reading' \in [pc : {"none", "asks", "answered"}, marker : 0 .. MaxEvents,
                      before : 0 .. LastSecond, n : 0 .. MaxEvents, word : WORDS]
    BY <1>10, LedgerAssumption DEF RecordReading, NotRead, WORDS
  <2>2. record' \in [host : Hosts, shown : JobEvents, signed : 0 .. MaxEvents,
                     word : WORDS, heard : 0 .. LastSecond]
    BY <1>10 DEF RecordReading, WORDS
  <2>3. evidence' \in 0 .. MaxEvents
    BY <1>10 DEF RecordReading
  <2> QED BY <1>10, <2>1, <2>2, <2>3 DEF RecordReading, workerSide, forgeSide, clearSide, WORDS
<1>11. CASE NextSecond
  BY <1>11, LedgerAssumption DEF NextSecond, workerSide, forgeSide, clearSide, books
<1>12. CASE MoveRunner
  <2>1. record' \in [host : Hosts, shown : JobEvents, signed : 0 .. MaxEvents,
                     word : WORDS, heard : 0 .. LastSecond]
    BY <1>12 DEF MoveRunner, WORDS
  <2> QED BY <1>0, <1>12, <2>1 DEF MoveRunner, workerSide, forgeSide, readSide, clearSide, WORDS
<1>13. CASE ClearReads
  <2>1. clear' \in [pc : {"none", "read"}, shown : JobEvents, signed : 0 .. MaxEvents]
    BY <1>13, RecordFields DEF ClearReads
  <2> QED BY <1>13, <2>1, LedgerAssumption DEF ClearReads, workerSide, forgeSide, readSide, books
<1>14. CASE ClearWrites
  <2>1. record' \in [host : Hosts, shown : JobEvents, signed : 0 .. MaxEvents,
                     word : WORDS, heard : 0 .. LastSecond]
    BY <1>14 DEF ClearWrites, WORDS
  <2>2. clear' \in [pc : {"none", "read"}, shown : JobEvents, signed : 0 .. MaxEvents]
    BY <1>14, LedgerAssumption DEF ClearWrites, NoClear, JobEvents
  <2>3. overwrote' \in BOOLEAN
    BY <1>14 DEF ClearWrites
  <2> QED BY <1>14, <2>1, <2>2, <2>3 DEF ClearWrites, workerSide, forgeSide, readSide, WORDS
<1>15. CASE UNCHANGED ledgerVars
  BY <1>15 DEF ledgerVars
<1> QED
  BY <1>1, <1>2, <1>3, <1>4, <1>5, <1>6, <1>7, <1>8, <1>9, <1>10, <1>11, <1>12, <1>13,
     <1>14, <1>15 DEF LedgerNext, Posting

-----------------------------------------------------------------------------

\* An entry is one of the ledger; nothing is on record, or on its way there, that
\* has not happened.
EntriesCount == IsFiniteSet(ledger) /\ entries = Cardinality(ledger)

NothingAhead ==
  /\ record.signed <= happened /\ clear.signed <= happened
  /\ reading.marker <= happened
  /\ \A l \in lookups : l.n <= happened

\* An answer of the forge is no older than the signed event that was on record
\* when it was asked.
AnswerFollows == reading.pc = "answered" => reading.n >= reading.marker

\* Of the signed events in the ledger the last is on record, and is reflected in
\* what the forge is known to say.
LastOnRecord ==
  ~overwrote =>
    /\ record.signed \in Signed \cup {0}
    /\ \A n \in Signed : n <= record.signed
    /\ evidence >= record.signed

LedgerInv ==
  LedgerTypeOK /\ EntriesCount /\ NothingAhead /\ AnswerFollows /\ LastOnRecord

LEMMA LedgerInitInv == LedgerInit => LedgerInv
<1> SUFFICES ASSUME LedgerInit PROVE LedgerInv
  OBVIOUS
<1>1. LedgerTypeOK
  BY LedgerInitTypes
<1>2. EntriesCount
  BY FS_EmptySet DEF LedgerInit, EntriesCount
<1>3. NothingAhead
  BY DEF LedgerInit, NothingAhead, NoClear, NotRead
<1>4. AnswerFollows
  BY DEF LedgerInit, AnswerFollows, NotRead
<1>5. LastOnRecord
  BY DEF LedgerInit, LastOnRecord, Signed
<1> QED BY <1>1, <1>2, <1>3, <1>4, <1>5 DEF LedgerInv

\* An event that arrives keeps the books in order: its number is its rank.
LEMMA ApplyKeepsBooks ==
  ASSUME LedgerInv,
         NEW by \in {"worker", "forge"}, NEW n \in Numbers, Apply([by |-> by, n |-> n]),
         by = "forge" => n <= happened, happened' = happened
  PROVE  EntriesCount' /\ LastOnRecord' /\ record'.signed <= happened'
<1> DEFINE event == [by |-> by, n |-> n]
<1>t. LedgerTypeOK /\ event \in JobEvents /\ n \in 0 .. MaxEvents /\ n \in Nat
  BY LedgerAssumption DEF LedgerInv, JobEvents, Numbers
<1>a. /\ ledger' = ledger \cup {event}
      /\ entries' = IF event \in ledger THEN entries ELSE entries + 1
      /\ overwrote' = overwrote
      /\ event \in ledger => UNCHANGED books
      /\ event \notin ledger /\ by = "forge" /\ n >= record.signed =>
           record'.signed = n /\ evidence' = n
      /\ ~(event \notin ledger /\ by = "forge" /\ n >= record.signed) =>
           record'.signed = record.signed /\ evidence' = evidence
  BY <1>t, ApplyEffect
<1>1. EntriesCount'
  <2>1. IsFiniteSet(ledger) /\ entries = Cardinality(ledger)
    BY DEF LedgerInv, EntriesCount
  <2> HIDE DEF event
  <2>2. IsFiniteSet(ledger') /\ Cardinality(ledger') = IF event \in ledger THEN Cardinality(ledger)
                                                       ELSE Cardinality(ledger) + 1
    BY <1>a, <2>1, FS_AddElement
  <2> QED BY <1>a, <2>1, <2>2 DEF EntriesCount
<1>r. record.signed \in 0 .. MaxEvents /\ evidence \in 0 .. MaxEvents
  BY <1>t, RecordFields DEF LedgerTypeOK
<1>s. /\ \A m \in Signed' : m \in Signed \/ (by = "forge" /\ m = n)
      /\ Signed \subseteq Signed'
      /\ by = "forge" => n \in Signed'
  BY <1>a DEF Signed
<1>n. Signed \subseteq Nat
  BY LedgerAssumption DEF Signed, Numbers
<1>2. LastOnRecord'
  <2> SUFFICES ASSUME ~overwrote
               PROVE  /\ record'.signed \in Signed' \cup {0}
                      /\ \A m \in Signed' : m <= record'.signed
                      /\ evidence' >= record'.signed
    BY <1>a DEF LastOnRecord
  <2>1. /\ record.signed \in Signed \cup {0}
        /\ \A m \in Signed : m <= record.signed
        /\ evidence >= record.signed
    BY DEF LedgerInv, LastOnRecord
  <2>2. CASE event \notin ledger /\ by = "forge" /\ n >= record.signed
    <3>1. record'.signed = n /\ evidence' = n
      BY <1>a, <2>2
    <3> QED BY <1>n, <1>r, <1>s, <1>t, <2>1, <2>2, <3>1
  <2>3. CASE ~(event \notin ledger /\ by = "forge" /\ n >= record.signed)
    <3>1. record'.signed = record.signed /\ evidence' = evidence
      BY <1>a, <2>3
    <3>2. by = "forge" => n \in Signed \/ n <= record.signed
      BY <1>r, <1>t, <2>3 DEF Signed
    <3> QED BY <1>n, <1>r, <1>s, <1>t, <2>1, <3>1, <3>2
  <2> QED BY <2>2, <2>3
<1>3. record'.signed <= happened'
  <2>1. record.signed <= happened
    BY DEF LedgerInv, NothingAhead
  <2> QED BY <1>a, <2>1
<1> QED BY <1>1, <1>2, <1>3

LEMMA LedgerInvKept ==
  ASSUME LedgerInv, [LedgerNext]_ledgerVars
  PROVE  LedgerInv'
<1>0. LedgerTypeOK /\ LedgerTypeOK'
  BY LedgerTypesKept DEF LedgerInv
<1>t. /\ record.signed \in 0 .. MaxEvents /\ happened \in 0 .. MaxEvents
      /\ clear.signed \in 0 .. MaxEvents /\ reading.marker \in 0 .. MaxEvents
      /\ reading.n \in 0 .. MaxEvents /\ evidence \in 0 .. MaxEvents
      /\ \A l \in lookups : l.n \in 0 .. MaxEvents
  <2>1. record.signed \in 0 .. MaxEvents /\ happened \in 0 .. MaxEvents /\ evidence \in 0 .. MaxEvents
    BY <1>0, RecordFields DEF LedgerTypeOK
  <2>2. clear.signed \in 0 .. MaxEvents
    BY <1>0 DEF LedgerTypeOK
  <2>3. reading.marker \in 0 .. MaxEvents /\ reading.n \in 0 .. MaxEvents
    BY <1>0 DEF LedgerTypeOK
  <2>4. \A l \in lookups : l.n \in 0 .. MaxEvents
    <3>1. lookups \subseteq [n : Numbers, host : Hosts]
      BY <1>0 DEF LedgerTypeOK
    <3> QED BY <3>1, LedgerAssumption DEF Numbers
  <2> QED BY <2>1, <2>2, <2>3, <2>4
<1> SUFFICES EntriesCount' /\ NothingAhead' /\ AnswerFollows' /\ LastOnRecord'
  BY <1>0 DEF LedgerInv
<1> USE DEF LedgerInv
\* What leaves the books alone keeps them in order.
<1>b. ASSUME UNCHANGED books
      PROVE  EntriesCount' /\ LastOnRecord' /\ record'.signed = record.signed
  BY <1>b DEF books, EntriesCount, LastOnRecord, Signed
<1>1. CASE Happens
  <2>1. UNCHANGED <<forgeSide, readSide, clearSide, books>> /\ happened' = happened + 1
    BY <1>1 DEF Happens
  <2>2. NothingAhead'
    BY <1>t, <2>1, <1>b DEF NothingAhead, forgeSide, readSide, clearSide, books
  <2> QED BY <1>b, <2>1, <2>2 DEF AnswerFollows, readSide
<1>2. ASSUME NEW n \in Numbers, KeepEvent(n)
      PROVE  EntriesCount' /\ NothingAhead' /\ AnswerFollows' /\ LastOnRecord'
  BY <1>b, <1>2 DEF KeepEvent, NothingAhead, AnswerFollows, forgeSide, readSide, clearSide, books
<1>3. ASSUME NEW n \in Numbers, Webhook(n)
      PROVE  EntriesCount' /\ NothingAhead' /\ AnswerFollows' /\ LastOnRecord'
  BY <1>b, <1>3 DEF Webhook, NothingAhead, AnswerFollows, readSide, clearSide, books
<1>4. CASE PostHead
  BY <1>b, <1>4 DEF PostHead, NothingAhead, AnswerFollows, forgeSide, readSide, clearSide, books
<1>5. ASSUME NEW n \in posts, TakePost(n)
      PROVE  EntriesCount' /\ NothingAhead' /\ AnswerFollows' /\ LastOnRecord'
  <2>1. /\ UNCHANGED <<happened, forgeSide, readSide, clearSide>>
        /\ IF Owned(Home) THEN Apply([by |-> "worker", n |-> n]) ELSE UNCHANGED books
    BY <1>5 DEF TakePost
  <2>2. EntriesCount' /\ LastOnRecord' /\ record'.signed <= happened'
    <3>1. CASE Owned(Home)
      <4>1. n \in Numbers
        BY <1>0 DEF LedgerTypeOK
      <4> QED BY <2>1, <3>1, <4>1, ApplyKeepsBooks
    <3>2. CASE ~Owned(Home)
      BY <1>b, <2>1, <3>2 DEF NothingAhead
    <3> QED BY <3>1, <3>2
  <2> QED BY <2>1, <2>2 DEF NothingAhead, AnswerFollows, forgeSide, readSide, clearSide
<1>6. CASE PostUnanswered
  BY <1>b, <1>6 DEF PostUnanswered, NothingAhead, AnswerFollows, forgeSide, readSide, clearSide,
      books
<1>7. ASSUME NEW l \in lookups, TakeWebhook(l)
      PROVE  EntriesCount' /\ NothingAhead' /\ AnswerFollows' /\ LastOnRecord'
  <2>1. /\ UNCHANGED <<happened, readSide, clearSide>>
        /\ lookups' \subseteq lookups
        /\ IF Owned(l.host) THEN Apply([by |-> "forge", n |-> l.n]) ELSE UNCHANGED books
    BY <1>7 DEF TakeWebhook
  <2>2. EntriesCount' /\ LastOnRecord' /\ record'.signed <= happened'
    <3>1. CASE Owned(l.host)
      <4>1. l.n \in Numbers /\ l.n <= happened
        BY <1>0 DEF LedgerTypeOK, NothingAhead
      <4> QED BY <2>1, <3>1, <4>1, ApplyKeepsBooks
    <3>2. CASE ~Owned(l.host)
      BY <1>b, <2>1, <3>2 DEF NothingAhead
    <3> QED BY <3>1, <3>2
  <2> QED BY <2>1, <2>2 DEF NothingAhead, AnswerFollows, readSide, clearSide
<1>8. CASE BeginReading
  <2>1. reading' = [pc |-> "asks", marker |-> record.signed, before |-> second,
                    n |-> 0, word |-> "unknown"]
    BY <1>8 DEF BeginReading, NotRead
  <2>2. UNCHANGED <<happened, forgeSide, clearSide, books>>
    BY <1>8 DEF BeginReading
  <2>3. NothingAhead'
    BY <2>1, <2>2 DEF NothingAhead, forgeSide, clearSide, books
  <2>4. AnswerFollows'
    BY <2>1 DEF AnswerFollows
  <2> QED BY <1>b, <2>2, <2>3, <2>4
<1>9. CASE ForgeAnswers
  <2>1. UNCHANGED <<happened, forgeSide, clearSide, books>>
    BY <1>9 DEF ForgeAnswers
  <2>2. reading'.marker = reading.marker /\ reading'.n = happened
    BY <1>0, <1>9 DEF ForgeAnswers, LedgerTypeOK
  <2>3. NothingAhead'
    BY <2>1, <2>2 DEF NothingAhead, forgeSide, clearSide, books
  <2>4. AnswerFollows'
    BY <2>2, <1>t DEF AnswerFollows, NothingAhead
  <2> QED BY <1>b, <2>1, <2>3, <2>4
<1>10. CASE RecordReading
  <2>1. /\ reading' = [pc |-> "none", marker |-> 0, before |-> 0, n |-> 0, word |-> "unknown"]
        /\ UNCHANGED <<happened, forgeSide, clearSide, ledger, entries, overwrote>>
    BY <1>10 DEF RecordReading, NotRead
  <2>2. /\ record'.signed = record.signed
        /\ evidence' = evidence \/ (~Fenced /\ evidence' = reading.n)
    BY <1>0, <1>10 DEF RecordReading, LedgerTypeOK
  <2>3. ~Fenced => reading.n >= record.signed
    BY <1>10 DEF RecordReading, Fenced, AnswerFollows
  <2>4. LastOnRecord'
    BY <1>t, <2>1, <2>2, <2>3 DEF LastOnRecord, Signed
  <2>5. NothingAhead' /\ AnswerFollows'
    BY <1>t, <2>1, <2>2 DEF NothingAhead, AnswerFollows, forgeSide, clearSide
  <2> QED BY <2>1, <2>4, <2>5 DEF EntriesCount
<1>11. CASE NextSecond
  BY <1>b, <1>11 DEF NextSecond, NothingAhead, AnswerFollows, forgeSide, clearSide, books
<1>12. CASE MoveRunner
  <2>1. /\ record'.signed = record.signed
        /\ UNCHANGED <<happened, forgeSide, readSide, clearSide, ledger, entries, evidence, overwrote>>
    BY <1>0, <1>12 DEF MoveRunner, LedgerTypeOK
  <2> QED
    BY <2>1 DEF EntriesCount, NothingAhead, AnswerFollows, LastOnRecord, Signed, forgeSide,
                readSide, clearSide
<1>13. CASE ClearReads
  <2>1. /\ clear'.signed = record.signed
        /\ UNCHANGED <<happened, forgeSide, readSide, books>>
    BY <1>13 DEF ClearReads
  <2>2. NothingAhead' /\ AnswerFollows'
    BY <2>1 DEF NothingAhead, AnswerFollows, forgeSide, readSide, books
  <2> QED BY <1>b, <2>1, <2>2
<1>14. CASE ClearWrites
  <2>1. /\ record' = [record EXCEPT !.shown = clear.shown, !.signed = clear.signed]
        /\ clear' = [pc |-> "none", shown |-> NoEvent, signed |-> 0]
        /\ UNCHANGED <<happened, forgeSide, readSide, ledger, entries, evidence>>
    BY <1>14 DEF ClearWrites, NoClear
  <2>2. ~overwrote' => ~overwrote /\ record' = record
    BY <1>14, Zenon DEF ClearWrites
  <2>3. record'.signed = clear.signed
    BY <1>0, <2>1 DEF LedgerTypeOK
  <2>4. LastOnRecord'
    BY <2>1, <2>2 DEF LastOnRecord, Signed
  <2>5. NothingAhead' /\ AnswerFollows'
    BY <1>t, <2>1, <2>3 DEF NothingAhead, AnswerFollows, forgeSide, readSide
  <2> QED BY <2>1, <2>4, <2>5 DEF EntriesCount
<1>15. CASE UNCHANGED ledgerVars
  BY <1>b, <1>15 DEF ledgerVars, books, NothingAhead, AnswerFollows
<1> QED
  BY <1>1, <1>2, <1>3, <1>4, <1>5, <1>6, <1>7, <1>8, <1>9, <1>10, <1>11, <1>12, <1>13,
     <1>14, <1>15 DEF LedgerNext, Posting

\* Whatever the order in which signed events, posts and readings of the forge arrive, and
\* however often (job_events.py, forge_health.py): the last signed event that arrived is the one
\* on record, and what the forge is known to say reflects it, unless a cache clear wrote back
\* an earlier record.
THEOREM LastWordCounts == LedgerSpec => []AuthorityHolds
<1>1. LedgerInit => LedgerInv
  BY LedgerInitInv
<1>2. LedgerInv /\ [LedgerNext]_ledgerVars => LedgerInv'
  BY LedgerInvKept
<1>3. LedgerInv => AuthorityHolds
  <2> SUFFICES ASSUME LedgerInv PROVE AuthorityHolds
    OBVIOUS
  <2>1. entries = Cardinality(ledger)
    BY DEF LedgerInv, EntriesCount
  <2>2. ASSUME ~overwrote
        PROVE  /\ record.signed = Max(Signed \cup {0})
               /\ evidence >= Max(Signed \cup {0})
    <3>1. Signed \cup {0} \in SUBSET Nat
      BY LedgerAssumption DEF Signed, Numbers
    <3>2. record.signed \in Signed \cup {0} /\ \A n \in Signed \cup {0} : n <= record.signed
      BY <2>2, RecordFields DEF LedgerInv, LastOnRecord
    <3>3. Max(Signed \cup {0}) = record.signed
      BY <3>1, <3>2, MaxIs
    <3> QED BY <2>2, <3>3 DEF LedgerInv, LastOnRecord
  <2> QED BY <2>1, <2>2 DEF AuthorityHolds
<1> QED BY <1>1, <1>2, <1>3, PTL DEF LedgerSpec

-----------------------------------------------------------------------------

\* The number of an event says of which job it is, and whether it is the end of it.
LEMMA JobsInOrder ==
  ASSUME NEW a \in Nat, NEW b \in Nat, ~Started(a), b > a
  PROVE  JobOf(b) > JobOf(a)
BY DEF Started, JobOf

\* What is displayed in place of a signed end is of a later job.
LEMMA NewerIsLater ==
  ASSUME NEW old \in JobEvents, NEW by \in {"worker", "forge"}, NEW n \in Numbers,
         old.by = "forge", ~Started(old.n), [by |-> by, n |-> n] # old,
         DisplayNewer([by |-> by, n |-> n], old)
  PROVE  JobOf(n) > JobOf(old.n)
<1> DEFINE new == [by |-> by, n |-> n]
<1>1. old.n \in Nat /\ n \in Nat /\ old # NoEvent /\ old = [by |-> old.by, n |-> old.n]
  BY LedgerAssumption DEF JobEvents, NoEvent, Numbers
<1>2. new.by = by /\ new.n = n
  OBVIOUS
<1>3. n > old.n
  <2>1. CASE by = "worker"
    <3>1. ~SameExecution(new, old) /\ RanksAtLeast(new, old)
      BY <1>1, <1>2, <2>1 DEF DisplayNewer
    <3>2. n > old.n \/ n = old.n
      BY <1>2, <3>1 DEF RanksAtLeast
    <3>3. n = old.n => SameExecution(new, old)
      BY <1>2 DEF SameExecution
    <3> QED BY <3>1, <3>2, <3>3
  <2>2. CASE by = "forge"
    <3>1. RanksAtLeast(new, old)
      BY <1>1, <1>2, <2>2 DEF DisplayNewer
    <3>2. n > old.n \/ n = old.n
      BY <1>2, <3>1 DEF RanksAtLeast
    <3> QED BY <1>1, <2>2, <3>2
  <2> QED BY <2>1, <2>2
<1> QED BY <1>1, <1>3, JobsInOrder

\* What a webhook or a post displays in place of a signed result (job_events.py,
\* _display_newer), in whatever order they arrive: an event of a later job.
THEOREM SignedResultsStand == LedgerSpec => SignedResultStands
<1> DEFINE Stands == LET old == record.shown
                         new == record'.shown
                     IN  old.by = "forge" /\ ~Started(old.n) /\ new # old /\ ~overwrote'
                           => JobOf(new.n) > JobOf(old.n)
<1>1. LedgerInit => LedgerTypeOK
  BY LedgerInitTypes
<1>2. LedgerTypeOK /\ [LedgerNext]_ledgerVars => LedgerTypeOK'
  BY LedgerTypesKept
<1>3. LedgerTypeOK /\ [LedgerNext]_ledgerVars => [Stands]_ledgerVars
  <2> SUFFICES ASSUME LedgerTypeOK, LedgerNext, record'.shown # record.shown, ~overwrote',
                      record.shown.by = "forge", ~Started(record.shown.n)
               PROVE  JobOf(record'.shown.n) > JobOf(record.shown.n)
    OBVIOUS
  <2>t. record.shown \in JobEvents
    BY RecordFields
  <2>1. ASSUME NEW by \in {"worker", "forge"}, NEW n \in Numbers, Apply([by |-> by, n |-> n])
        PROVE  JobOf(record'.shown.n) > JobOf(record.shown.n)
    <3>1. /\ DisplayNewer([by |-> by, n |-> n], record.shown)
          /\ record'.shown = [by |-> by, n |-> n]
      BY <2>1, ApplyEffect
    <3> QED BY <2>t, <3>1, NewerIsLater
  <2>2. ASSUME NEW n \in posts, TakePost(n)
        PROVE  JobOf(record'.shown.n) > JobOf(record.shown.n)
    <3>1. n \in Numbers
      BY DEF LedgerTypeOK
    <3>2. Apply([by |-> "worker", n |-> n])
      BY <2>2 DEF TakePost, books
    <3> QED BY <2>1, <3>1, <3>2
  <2>3. ASSUME NEW l \in lookups, TakeWebhook(l)
        PROVE  JobOf(record'.shown.n) > JobOf(record.shown.n)
    <3>1. l.n \in Numbers
      BY DEF LedgerTypeOK
    <3>2. Apply([by |-> "forge", n |-> l.n])
      BY <2>3 DEF TakeWebhook, books
    <3> QED BY <2>1, <3>1, <3>2
  <2>4. ~ClearWrites
    BY Zenon DEF ClearWrites
  <2>5. ~RecordReading /\ ~MoveRunner
    BY DEF RecordReading, MoveRunner, LedgerTypeOK
  <2>6. ~Happens /\ ~PostHead /\ ~PostUnanswered
    BY DEF Happens, PostHead, PostUnanswered, books
  <2>7. ~BeginReading /\ ~ForgeAnswers /\ ~NextSecond /\ ~ClearReads
    BY DEF BeginReading, ForgeAnswers, NextSecond, ClearReads, books
  <2>8. \A n \in Numbers : ~KeepEvent(n) /\ ~Webhook(n)
    BY DEF KeepEvent, Webhook, books
  <2> QED BY <2>2, <2>3, <2>4, <2>5, <2>6, <2>7, <2>8 DEF LedgerNext, Posting
<1> QED BY <1>1, <1>2, <1>3, PTL DEF LedgerSpec, SignedResultStands

-----------------------------------------------------------------------------
(* The sources.                                                            *)

Threads == [pc : {"none", "setup", "scan", "record", "ack", "wait", "backoff", "dead"},
            stop : BOOLEAN, due : SUBSET Events, event : 0 .. LastEvent, fired : BOOLEAN]
Readers == [pc : {"idle", "saw", "joins"}, saw : {"running", "stopped"},
            joins : Sources \cup {Nobody}]
Verbs == [pc : {"idle", "joins", "works", "over"}, joins : Sources \cup {Nobody}]

\* A pause is counted for as long as its verb waits or works.
Pausing == {m \in Maintainers : verb[m].pc \in {"joins", "works"}}

SourcesShape ==
  /\ unit \in {"running", "stopped"} /\ produced \in 0 .. LastEvent
  /\ spool \subseteq Events /\ outbox \subseteq Events /\ delivered \subseteq Events
  /\ current \in 0 .. LastEvent /\ since \subseteq Events
  /\ source \in [Sources -> Threads] /\ registered \in Sources \cup {Nobody}
  /\ unknown \in BOOLEAN /\ reader \in Readers /\ verb \in [Maintainers -> Verbs]
  /\ sourceFaults \in 0 .. MaxSourceFaults

\* The types and what else the properties rest on: a file is only deleted when its event
\* is recorded, and the job is known again only when no verb is at work.
PausesCounted == paused = Cardinality(Pausing)
InHands ==
  \A s \in Sources : /\ source[s].pc = "record" => source[s].event \in Events
                     /\ source[s].pc = "ack" => source[s].event \in recorded
EventsAreSomewhere == 1 .. produced \subseteq spool \cup recorded
LastIsCurrent == current \in since \cup {0} /\ \A e \in since : e <= current

SourcesInv ==
  /\ SourcesShape /\ PausesCounted /\ InHands /\ EventsAreSomewhere /\ LastIsCurrent
  /\ UnknownWhilePaused

LEMMA CurrentIsMax ==
  ASSUME LastIsCurrent, SourcesShape
  PROVE  current = Max(since \cup {0})
<1>1. since \cup {0} \in SUBSET Nat /\ current \in since \cup {0}
  BY DEF LastIsCurrent, SourcesShape, Events
<1>2. \A e \in since \cup {0} : e <= current
  BY <1>1 DEF LastIsCurrent
<1> QED BY <1>1, <1>2, MaxIs

LEMMA SourcesInitInv == SourcesInit => SourcesInv
<1> SUFFICES ASSUME SourcesInit PROVE SourcesInv
  OBVIOUS
<1> USE SourcesAssumption DEF SourcesInit
<1>1. SourcesShape
  <2>1. /\ unit \in {"running", "stopped"} /\ produced \in 0 .. LastEvent
        /\ spool \subseteq Events /\ outbox \subseteq Events /\ delivered \subseteq Events
        /\ current \in 0 .. LastEvent /\ since \subseteq Events
        /\ registered \in Sources \cup {Nobody}
    OBVIOUS
  <2>2. source \in [Sources -> Threads]
    BY DEF Threads, Idle
  <2>3. reader \in Readers /\ verb \in [Maintainers -> Verbs]
    BY DEF Readers, NotReading, Verbs
  <2>4. sourceFaults \in 0 .. MaxSourceFaults /\ unknown = FALSE
    OBVIOUS
  <2> QED BY <2>1, <2>2, <2>3, <2>4, Zenon DEF SourcesShape
<1>2. Pausing = {}
  BY DEF Pausing
<1>3. PausesCounted
  BY <1>2, FS_EmptySet DEF PausesCounted
<1>4. InHands /\ LastIsCurrent /\ UnknownWhilePaused
  BY DEF InHands, LastIsCurrent, Idle, UnknownWhilePaused
<1>5. EventsAreSomewhere
  BY DEF EventsAreSomewhere
<1> QED BY <1>1, <1>3, <1>4, <1>5 DEF SourcesInv

\* A thread moves, with what it has in its hands.
LEMMA ThreadMoves ==
  ASSUME SourcesShape, NEW s \in Sources
  PROVE  /\ \A pc \in {"none", "setup", "scan", "record", "ack", "wait", "backoff", "dead"} :
              Goes(s, pc) =>
                /\ source' \in [Sources -> Threads]
                /\ source'[s].pc = pc /\ source'[s].event = source[s].event
                /\ \A t \in Sources \ {s} : source'[t] = source[t]
         /\ Scans(s) =>
              /\ source' \in [Sources -> Threads]
              /\ source'[s].pc = "scan"
              /\ \A t \in Sources \ {s} : source'[t] = source[t]
BY DEF SourcesShape, Goes, Scans, Threads

\* Every watch fires: no thread moves.
LEMMA FiringMovesNone ==
  ASSUME SourcesShape
  PROVE  /\ Fired \in [Sources -> Threads]
         /\ \A s \in Sources : Fired[s].pc = source[s].pc /\ Fired[s].event = source[s].event
BY DEF SourcesShape, Fired, Threads

\* A step that touches no event, and after which the job is known only if it was or if no
\* verb is at work.
LEMMA QuietSourceStep ==
  ASSUME SourcesInv, BooksKept, UNCHANGED <<produced, paused, verb>>,
         \A s \in Sources :
           /\ source'[s].pc = "record" => source'[s].event \in Events
           /\ source'[s].pc = "ack" =>
                source[s].pc = "ack" /\ source'[s].event = source[s].event,
         unknown => unknown' \/ paused = 0
  PROVE  /\ PausesCounted' /\ InHands' /\ EventsAreSomewhere' /\ LastIsCurrent'
         /\ UnknownWhilePaused'
<1> USE DEF SourcesInv, BooksKept, recorded
<1>1. PausesCounted'
  BY DEF PausesCounted, Pausing
<1>2. InHands'
  BY DEF InHands, Events
<1>3. EventsAreSomewhere' /\ LastIsCurrent'
  BY DEF EventsAreSomewhere, LastIsCurrent
<1>4. paused = 0 => Pausing = {}
  <2>1. IsFiniteSet(Pausing)
    BY SourcesAssumption, FS_Subset DEF Pausing
  <2> QED BY <2>1, FS_EmptySet DEF PausesCounted
<1>5. UnknownWhilePaused'
  BY <1>4 DEF UnknownWhilePaused, Pausing
<1> QED BY <1>1, <1>2, <1>3, <1>5

\* A verb turns to pausing, goes on with it, or is done.
LEMMA PauseCounts ==
  ASSUME SourcesInv, NEW m \in Maintainers, NEW pc \in {"joins", "works", "over"},
         NEW s \in Sources \cup {Nobody}, Turn(m, pc, s)
  PROVE  /\ verb' \in [Maintainers -> Verbs] /\ verb'[m].pc = pc
         /\ \A n \in Maintainers \ {m} : verb'[n] = verb[n]
         /\ Cardinality(Pausing') =
              IF pc = "over"
              THEN IF m \in Pausing THEN paused - 1 ELSE paused
              ELSE IF m \in Pausing THEN paused ELSE paused + 1
<1>1. /\ verb' \in [Maintainers -> Verbs] /\ verb'[m].pc = pc
      /\ \A n \in Maintainers \ {m} : verb'[n] = verb[n]
  BY DEF Turn, SourcesInv, SourcesShape, Verbs
<1>2. IsFiniteSet(Pausing) /\ paused = Cardinality(Pausing)
  BY SourcesAssumption, FS_Subset DEF Pausing, SourcesInv, PausesCounted
<1>3. Pausing' = IF pc = "over" THEN Pausing \ {m} ELSE Pausing \cup {m}
  <2>1. CASE pc = "over"
    BY <1>1, <2>1 DEF Pausing
  <2>2. CASE pc # "over"
    BY <1>1, <2>2 DEF Pausing
  <2> QED BY <2>1, <2>2
<1> QED BY <1>1, <1>2, <1>3, FS_AddElement, FS_RemoveElement

LEMMA QuietThreadKeeps ==
  ASSUME SourcesInv, NEW s \in Sources,
         Watch(s) \/ Read(s) \/ MarkReady(s) \/ SourceFails(s) \/ Wake(s) \/ Retry(s)
         \/ ThreadEnds(s)
  PROVE  SourcesInv'
<1> USE DEF SourcesInv
<1>1. /\ ThreadOnly /\ BooksKept /\ sourceFaults' \in 0 .. MaxSourceFaults
  <2>1. ThreadOnly /\ BooksKept /\ (UNCHANGED sourceFaults \/ SourceFault)
    BY DEF Watch, Read, MarkReady, SourceFails, Wake, Retry, ThreadEnds
  <2>2. SourceFault => sourceFaults' \in 0 .. MaxSourceFaults
    BY SourcesAssumption DEF SourceFault, SourcesShape
  <2> QED BY <2>1, <2>2 DEF SourcesShape
<1>2. unknown' \in BOOLEAN /\ (unknown => unknown' \/ paused = 0)
  <2>1. CASE MarkReady(s)
    BY <2>1, Zenon DEF MarkReady, Fails, SourcesShape
  <2>2. CASE SourceFails(s)
    BY <2>2, Zenon DEF SourceFails, Fails, SourcesShape
  <2>3. CASE Watch(s) \/ Read(s) \/ Wake(s) \/ Retry(s) \/ ThreadEnds(s)
    BY <2>3, Zenon DEF Watch, Read, Wake, Retry, ThreadEnds, SourcesShape
  <2> QED BY <2>1, <2>2, <2>3
<1>3. /\ source' \in [Sources -> Threads]
      /\ \A t \in Sources :
           /\ source'[t].pc = "record" => source'[t].event \in Events
           /\ source'[t].pc = "ack" =>
                source[t].pc = "ack" /\ source'[t].event = source[t].event
  <2>1. CASE Read(s)
    <3>1. PICK e \in spool : source' = [source EXCEPT ![s].pc = "record", ![s].event = e,
                                                      ![s].due = @ \ {e}]
      BY <2>1 DEF Read
    <3>2. e \in Events /\ e \in 0 .. LastEvent
      BY DEF SourcesShape, Events
    <3>3. source \in [Sources -> Threads]
      BY DEF SourcesShape
    <3>4. source' \in [Sources -> Threads]
      <4>1. source[s] \in Threads
        BY <3>3
      <4>2. source' = [source EXCEPT ![s] = [source[s] EXCEPT !.pc = "record", !.event = e,
                                                              !.due = @ \ {e}]]
        BY <3>1, <3>3
      <4>3. [source[s] EXCEPT !.pc = "record", !.event = e, !.due = @ \ {e}] \in Threads
        BY <3>2, <4>1 DEF Threads
      <4> QED BY <3>3, <4>2, <4>3
    <3>5. source'[s].pc = "record" /\ source'[s].event = e
      BY <3>1, <3>3 DEF Threads
    <3>6. \A t \in Sources \ {s} : source'[t] = source[t]
      BY <3>1, <3>3
    <3> QED BY <3>2, <3>4, <3>5, <3>6 DEF InHands
  <2>2. CASE ~Read(s)
    <3>1. \/ \E pc \in {"none", "setup", "scan", "wait", "backoff", "dead"} : Goes(s, pc)
          \/ Scans(s)
      <4>1. CASE MarkReady(s)
        BY <4>1 DEF MarkReady, Fails
      <4>2. CASE SourceFails(s)
        BY <4>2 DEF SourceFails, Fails
      <4>3. CASE Watch(s)
        BY <4>3 DEF Watch
      <4>4. CASE Wake(s) \/ Retry(s) \/ ThreadEnds(s)
        BY <4>4 DEF Wake, Retry, ThreadEnds
      <4> QED BY <2>2, <4>1, <4>2, <4>3, <4>4
    <3>2. CASE Scans(s)
      BY <3>2, ThreadMoves DEF InHands
    <3>3. ASSUME NEW pc \in {"none", "setup", "scan", "wait", "backoff", "dead"}, Goes(s, pc)
          PROVE  /\ source' \in [Sources -> Threads]
                 /\ \A t \in Sources :
                      /\ source'[t].pc = "record" => source'[t].event \in Events
                      /\ source'[t].pc = "ack" =>
                           source[t].pc = "ack" /\ source'[t].event = source[t].event
      BY <3>3, ThreadMoves DEF InHands
    <3> QED BY <3>1, <3>2, <3>3
  <2> QED BY <2>1, <2>2
<1>4. SourcesShape'
  BY <1>1, <1>2, <1>3 DEF SourcesShape, ThreadOnly, BooksKept
<1>5. UNCHANGED <<produced, paused, verb>>
  BY <1>1 DEF ThreadOnly
<1> QED BY <1>1, <1>2, <1>3, <1>4, <1>5, QuietSourceStep

\* The event is in the outbox before its file may go.
LEMMA RecordKeeps ==
  ASSUME SourcesInv, NEW s \in Sources, Record(s)
  PROVE  SourcesInv'
<1> DEFINE e == source[s].event
<1> USE DEF SourcesInv
<1>1. /\ UNCHANGED <<unit, produced, registered, paused, reader, verb, spool, delivered,
                     unknown, sourceFaults>>
      /\ Goes(s, "ack") /\ source[s].pc = "record"
  BY DEF Record, ThreadOnly
<1>2. e \in Events
  BY <1>1 DEF InHands
<1>3. /\ outbox \subseteq outbox' /\ outbox' \subseteq outbox \cup {e} /\ e \in recorded'
      /\ \/ UNCHANGED <<current, since>>
         \/ since' = since \cup {e} /\ current' = IF e >= current THEN e ELSE current
  BY <1>1 DEF Record, recorded
<1>4. /\ source' \in [Sources -> Threads]
      /\ \A t \in Sources \ {s} : source'[t] = source[t]
      /\ source'[s].pc = "ack" /\ source'[s].event = e
  BY <1>1, ThreadMoves
<1>5. SourcesShape'
  <2>1. outbox' \subseteq Events
    BY <1>2, <1>3 DEF SourcesShape
  <2>2. current' \in 0 .. LastEvent /\ since' \subseteq Events
    <3>1. e \in 0 .. LastEvent
      BY <1>2 DEF Events
    <3> QED BY <1>2, <1>3, <3>1 DEF SourcesShape
  <2> QED BY <1>1, <1>4, <2>1, <2>2 DEF SourcesShape
<1>6. PausesCounted' /\ UnknownWhilePaused'
  BY <1>1 DEF PausesCounted, Pausing, UnknownWhilePaused
<1>7. InHands' /\ EventsAreSomewhere'
  BY <1>1, <1>3, <1>4 DEF InHands, EventsAreSomewhere, recorded
<1>8. LastIsCurrent'
  <2>1. e \in Nat /\ current \in Nat /\ \A f \in since : f \in Nat
    BY <1>2 DEF SourcesShape, Events
  <2>2. CASE UNCHANGED <<current, since>>
    BY <2>2 DEF LastIsCurrent
  <2>3. CASE since' = since \cup {e} /\ current' = IF e >= current THEN e ELSE current
    BY <2>1, <2>3 DEF LastIsCurrent
  <2> QED BY <1>3, <2>2, <2>3
<1> QED BY <1>5, <1>6, <1>7, <1>8

\* What is deleted has been recorded.
LEMMA AcknowledgeKeeps ==
  ASSUME SourcesInv, NEW s \in Sources, Acknowledge(s)
  PROVE  SourcesInv'
<1> DEFINE e == source[s].event
           S == IF e \in spool THEN Fired ELSE source
<1> USE DEF SourcesInv
<1>1. /\ UNCHANGED <<unit, produced, registered, paused, reader, verb, outbox, delivered,
                     current, since, unknown, sourceFaults>>
      /\ spool' = spool \ {e} /\ source[s].pc = "ack"
      /\ source' = [S EXCEPT ![s].pc = "scan"]
  BY DEF Acknowledge, ThreadOnly
<1>2. e \in recorded
  BY <1>1 DEF InHands
<1>3. /\ S \in [Sources -> Threads]
      /\ \A t \in Sources : S[t].pc = source[t].pc /\ S[t].event = source[t].event
  BY FiringMovesNone DEF SourcesShape
<1> HIDE DEF S
<1>4. /\ source' \in [Sources -> Threads] /\ source'[s].pc = "scan"
      /\ \A t \in Sources \ {s} :
           source'[t].pc = source[t].pc /\ source'[t].event = source[t].event
  BY <1>1, <1>3 DEF Threads
<1>5. SourcesShape'
  BY <1>1, <1>4 DEF SourcesShape
<1>6. PausesCounted' /\ UnknownWhilePaused' /\ LastIsCurrent'
  BY <1>1 DEF PausesCounted, Pausing, UnknownWhilePaused, LastIsCurrent
<1>7. InHands' /\ EventsAreSomewhere'
  BY <1>1, <1>2, <1>4 DEF InHands, EventsAreSomewhere, recorded, Events
<1> QED BY <1>5, <1>6, <1>7

LEMMA ProduceKeeps ==
  ASSUME SourcesInv, Produce
  PROVE  SourcesInv'
<1> USE DEF SourcesInv
<1>1. /\ UNCHANGED <<unit, outbox, delivered, current, since, registered, paused, unknown,
                     reader, verb, sourceFaults>>
      /\ source' = Fired /\ produced' = produced + 1 /\ produced < LastEvent
      /\ spool' = spool \cup {produced + 1}
  BY DEF Produce
<1>2. /\ source' \in [Sources -> Threads]
      /\ \A t \in Sources :
           source'[t].pc = source[t].pc /\ source'[t].event = source[t].event
  BY <1>1, FiringMovesNone
<1>3. produced \in 0 .. LastEvent
  BY DEF SourcesShape
<1>4. produced' \in 0 .. LastEvent /\ spool' \subseteq Events
  BY <1>1, <1>3, SourcesAssumption DEF SourcesShape, Events
<1>5. SourcesShape'
  BY <1>1, <1>2, <1>4 DEF SourcesShape
<1>6. PausesCounted' /\ UnknownWhilePaused' /\ LastIsCurrent'
  BY <1>1 DEF PausesCounted, Pausing, UnknownWhilePaused, LastIsCurrent
<1>7. InHands'
  BY <1>1, <1>2 DEF InHands, recorded, Events
<1>8. EventsAreSomewhere'
  <2>1. 1 .. produced' \subseteq (1 .. produced) \cup {produced + 1}
    BY <1>1, <1>3
  <2> QED BY <1>1, <2>1 DEF EventsAreSomewhere, recorded
<1> QED BY <1>5, <1>6, <1>7, <1>8

LEMMA DeliverKeeps ==
  ASSUME SourcesInv, Deliver
  PROVE  SourcesInv'
<1> USE DEF SourcesInv
<1>1. /\ UNCHANGED <<unit, produced, spool, current, since, source, registered, paused,
                     unknown, reader, verb, sourceFaults>>
      /\ recorded' = recorded /\ outbox' \subseteq recorded /\ delivered' \subseteq recorded
  BY DEF Deliver, recorded
<1>2. SourcesShape'
  BY <1>1 DEF SourcesShape, recorded
<1>3. PausesCounted' /\ UnknownWhilePaused' /\ LastIsCurrent'
  BY <1>1 DEF PausesCounted, Pausing, UnknownWhilePaused, LastIsCurrent
<1>4. InHands' /\ EventsAreSomewhere'
  BY <1>1 DEF InHands, EventsAreSomewhere, Events
<1> QED BY <1>2, <1>3, <1>4

\* The unit, the measuring thread and what a verb tells a source touch no event.
LEMMA OutsideKeeps ==
  ASSUME SourcesInv,
         UnitStops \/ UnitStarts \/ Observe \/ StopTaken \/ Joined
         \/ \E m \in Maintainers : StopPaused(m)
  PROVE  SourcesInv'
<1> USE DEF SourcesInv
<1>1. /\ BooksKept /\ UNCHANGED <<produced, paused, verb, unknown, registered>>
      /\ unit' \in {"running", "stopped"} /\ sourceFaults' \in 0 .. MaxSourceFaults
  <2>1. UnitStops => sourceFaults' \in 0 .. MaxSourceFaults
    BY SourcesAssumption DEF UnitStops, SourceFault, SourcesShape
  <2> QED BY <2>1 DEF UnitStops, UnitStarts, Observe, StopTaken, Joined, StopPaused,
                      BooksKept, SourcesShape
<1>2. reader' \in Readers
  <2>1. reader \in Readers /\ NotReading \in Readers
    BY DEF SourcesShape, Readers, NotReading
  <2>2. CASE Observe
    BY <2>1, <2>2 DEF Observe, SourcesShape, Readers
  <2>3. CASE ~Observe
    BY <2>1, <2>3, Zenon DEF UnitStops, UnitStarts, StopTaken, Joined, StopPaused
  <2> QED BY <2>2, <2>3
<1>3. /\ source' \in [Sources -> Threads]
      /\ \A t \in Sources :
           source'[t].pc = source[t].pc /\ source'[t].event = source[t].event
  <2>1. ASSUME NEW s \in Sources, Tells(s)
        PROVE  /\ source' \in [Sources -> Threads]
               /\ \A t \in Sources : /\ source'[t].pc = source[t].pc
                                     /\ source'[t].event = source[t].event
    BY <2>1 DEF Tells, SourcesShape, Threads
  <2>2. (\E s \in Sources : Tells(s)) \/ UNCHANGED source
    BY DEF UnitStops, UnitStarts, Observe, StopTaken, Joined, StopPaused, Tells,
           SourcesShape, Readers, Verbs
  <2> QED BY <2>1, <2>2 DEF SourcesShape
<1>4. SourcesShape'
  BY <1>1, <1>2, <1>3 DEF SourcesShape, BooksKept
<1> QED BY <1>1, <1>3, <1>4, QuietSourceStep DEF InHands

\* What was recorded before the unit was seen stopped is of no job any more.
LEMMA ReconcileKeeps ==
  ASSUME SourcesInv, Reconcile
  PROVE  SourcesInv'
<1> USE DEF SourcesInv
<1>1. /\ UNCHANGED <<unit, produced, spool, outbox, delivered, paused, verb, sourceFaults>>
      /\ \/ UNCHANGED <<current, since>>
         \/ current' = 0 /\ since' = {}
      /\ \/ UNCHANGED <<source, unknown>> /\ registered' \in {Nobody, registered}
         \/ \E s \in Sources :
              /\ registered' = s /\ unknown' = TRUE
              /\ source' = [source EXCEPT ![s] = [Idle EXCEPT !.pc = "setup"]]
  BY DEF Reconcile
<1>2. reader' \in Readers
  BY DEF Reconcile, SourcesShape, Readers, NotReading
<1>3. /\ registered' \in Sources \cup {Nobody} /\ unknown' \in BOOLEAN /\ (unknown => unknown')
      /\ source' \in [Sources -> Threads]
      /\ \A t \in Sources : source'[t].pc \in {"record", "ack"} =>
           source'[t].pc = source[t].pc /\ source'[t].event = source[t].event
  <2>1. CASE UNCHANGED <<source, unknown>> /\ registered' \in {Nobody, registered}
    BY <2>1 DEF SourcesShape
  <2>2. CASE \E s \in Sources :
               /\ registered' = s /\ unknown' = TRUE
               /\ source' = [source EXCEPT ![s] = [Idle EXCEPT !.pc = "setup"]]
    <3>1. PICK s \in Sources :
            /\ registered' = s /\ unknown' = TRUE
            /\ source' = [source EXCEPT ![s] = [Idle EXCEPT !.pc = "setup"]]
      BY <2>2
    <3>2. [Idle EXCEPT !.pc = "setup"] \in Threads /\ [Idle EXCEPT !.pc = "setup"].pc = "setup"
      <4>1. Idle \in Threads
        BY SourcesAssumption DEF Idle, Threads
      <4> QED BY <4>1 DEF Threads
    <3> QED BY <3>1, <3>2 DEF SourcesShape
  <2> QED BY <1>1, <2>1, <2>2
<1>4. SourcesShape'
  BY <1>1, <1>2, <1>3, SourcesAssumption DEF SourcesShape
<1>5. PausesCounted' /\ UnknownWhilePaused'
  BY <1>1, <1>3 DEF PausesCounted, Pausing, UnknownWhilePaused
<1>6. InHands' /\ EventsAreSomewhere'
  BY <1>1, <1>3 DEF InHands, EventsAreSomewhere, recorded, Events
<1>7. LastIsCurrent'
  BY <1>1 DEF LastIsCurrent
<1> QED BY <1>4, <1>5, <1>6, <1>7

\* What a step of a verb leaves in order, whatever it does to the count of pauses.
LEMMA VerbLeavesEvents ==
  ASSUME SourcesInv, BooksKept, UNCHANGED <<produced, source, reader>>,
         unit' \in {"running", "stopped"}, registered' \in Sources \cup {Nobody},
         unknown' \in BOOLEAN, verb' \in [Maintainers -> Verbs],
         sourceFaults' \in 0 .. MaxSourceFaults
  PROVE  SourcesShape' /\ InHands' /\ EventsAreSomewhere' /\ LastIsCurrent'
<1> USE DEF SourcesInv, BooksKept
<1>1. SourcesShape'
  BY DEF SourcesShape
<1>2. InHands' /\ EventsAreSomewhere' /\ LastIsCurrent'
  BY DEF InHands, EventsAreSomewhere, LastIsCurrent, recorded, Events
<1> QED BY <1>1, <1>2

\* A pause is counted before the verb waits, and the job is unknown from then on.
LEMMA PauseKeeps ==
  ASSUME SourcesInv, NEW m \in Maintainers, Pause(m)
  PROVE  SourcesInv'
<1> USE DEF SourcesInv
<1>1. /\ BooksKept /\ UNCHANGED <<unit, registered, produced, source, reader, sourceFaults>>
      /\ paused' = paused + 1 /\ unknown' = TRUE /\ verb[m].pc = "idle"
  BY DEF Pause
<1>2. PICK pc \in {"joins", "works"}, s \in Sources \cup {Nobody} : Turn(m, pc, s)
  BY DEF Pause, SourcesShape
<1>3. /\ verb' \in [Maintainers -> Verbs] /\ Cardinality(Pausing') = paused + 1
  BY <1>1, <1>2, PauseCounts DEF Pausing
<1>4. SourcesShape' /\ InHands' /\ EventsAreSomewhere' /\ LastIsCurrent'
  BY <1>1, <1>3, VerbLeavesEvents DEF SourcesShape
<1>5. PausesCounted' /\ UnknownWhilePaused'
  BY <1>1, <1>3 DEF PausesCounted, UnknownWhilePaused
<1> QED BY <1>4, <1>5

LEMMA PausedKeeps ==
  ASSUME SourcesInv, NEW m \in Maintainers, Paused(m)
  PROVE  SourcesInv'
<1> USE DEF SourcesInv
<1>1. /\ BooksKept /\ UNCHANGED <<unit, produced, source, paused, unknown, reader, sourceFaults>>
      /\ verb[m].pc = "joins" /\ registered' \in {Nobody, registered}
      /\ Turn(m, "works", Nobody)
  BY DEF Paused
<1>2. /\ verb' \in [Maintainers -> Verbs] /\ Cardinality(Pausing') = paused
      /\ \A n \in Maintainers \ {m} : verb'[n] = verb[n]
  BY <1>1, PauseCounts DEF Pausing
<1>3. SourcesShape' /\ InHands' /\ EventsAreSomewhere' /\ LastIsCurrent'
  BY <1>1, <1>2, VerbLeavesEvents DEF SourcesShape
<1>4. PausesCounted' /\ UnknownWhilePaused'
  BY <1>1, <1>2 DEF PausesCounted, UnknownWhilePaused
<1> QED BY <1>3, <1>4

LEMMA UnpauseKeeps ==
  ASSUME SourcesInv, NEW m \in Maintainers, Held(m) \/ Worked(m)
  PROVE  SourcesInv'
<1> USE DEF SourcesInv
<1>1. /\ BooksKept /\ UNCHANGED <<produced, source, registered, unknown, reader>>
      /\ paused' = paused - 1 /\ m \in Pausing /\ Turn(m, "over", Nobody)
      /\ unit' \in {"running", "stopped"}
  BY DEF Held, Worked, Unpause, Pausing, SourcesShape
<1>2. sourceFaults' \in 0 .. MaxSourceFaults
  BY SourcesAssumption DEF Held, Worked, SourceFault, SourcesShape
<1>3. /\ verb' \in [Maintainers -> Verbs] /\ verb'[m].pc = "over"
      /\ Cardinality(Pausing') = paused - 1
      /\ \A n \in Maintainers \ {m} : verb'[n] = verb[n]
  BY <1>1, PauseCounts
<1>4. SourcesShape' /\ InHands' /\ EventsAreSomewhere' /\ LastIsCurrent'
  BY <1>1, <1>2, <1>3, VerbLeavesEvents DEF SourcesShape
<1>5. PausesCounted' /\ UnknownWhilePaused'
  BY <1>1, <1>3 DEF PausesCounted, UnknownWhilePaused
<1> QED BY <1>4, <1>5

\* A restart forgets who paused, and no verb is at work after it.
LEMMA AgentCrashKeeps ==
  ASSUME SourcesInv, AgentCrash
  PROVE  SourcesInv'
<1> USE DEF SourcesInv
<1>1. /\ BooksKept /\ UNCHANGED <<unit, produced>> /\ registered' = Nobody
      /\ paused' = 0 /\ unknown' = FALSE /\ reader' = NotReading
      /\ source' = [s \in Sources |-> Idle] /\ SourceFault
      /\ verb' = [m \in Maintainers |->
                    IF verb[m].pc = "idle" THEN verb[m] ELSE [pc |-> "over", joins |-> Nobody]]
  BY DEF AgentCrash
<1>2. Idle \in Threads /\ Idle.pc = "none" /\ NotReading \in Readers
  BY SourcesAssumption DEF Idle, Threads, NotReading, Readers
<1>3. sourceFaults' \in 0 .. MaxSourceFaults
  BY <1>1, SourcesAssumption DEF SourceFault, SourcesShape
<1>4. verb' \in [Maintainers -> Verbs] /\ \A m \in Maintainers : verb'[m].pc \in {"idle", "over"}
  BY <1>1 DEF SourcesShape, Verbs
<1>5. SourcesShape'
  BY <1>1, <1>2, <1>3, <1>4 DEF SourcesShape, BooksKept
<1>6. PausesCounted' /\ UnknownWhilePaused'
  <2>1. Pausing' = {}
    BY <1>4 DEF Pausing
  <2> QED BY <1>1, <1>4, <2>1, FS_EmptySet DEF PausesCounted, UnknownWhilePaused
<1>7. InHands'
  BY <1>1, <1>2 DEF InHands
<1>8. EventsAreSomewhere' /\ LastIsCurrent'
  BY <1>1 DEF BooksKept, EventsAreSomewhere, LastIsCurrent, recorded
<1> QED BY <1>5, <1>6, <1>7, <1>8

LEMMA SourcesStepInv == SourcesInv /\ [SourcesNext]_sourceVars => SourcesInv'
<1> SUFFICES ASSUME SourcesInv, [SourcesNext]_sourceVars PROVE SourcesInv'
  OBVIOUS
<1>1. CASE \E s \in Sources : ThreadStep(s)
  BY <1>1, QuietThreadKeeps, RecordKeeps, AcknowledgeKeeps, Zenon DEF ThreadStep
<1>2. CASE \E m \in Maintainers : VerbStep(m)
  BY <1>2, PauseKeeps, OutsideKeeps, PausedKeeps, UnpauseKeeps, Zenon DEF VerbStep
<1>3. CASE Produce \/ Deliver \/ AgentCrash
  BY <1>3, ProduceKeeps, DeliverKeeps, AgentCrashKeeps
<1>4. CASE UnitStops \/ UnitStarts \/ HeartbeatStep
  BY <1>4, OutsideKeeps, ReconcileKeeps DEF HeartbeatStep
<1>5. CASE UNCHANGED sourceVars
  BY <1>5 DEF sourceVars, SourcesInv, SourcesShape, PausesCounted, Pausing, InHands, recorded,
              EventsAreSomewhere, LastIsCurrent, UnknownWhilePaused, Events
<1> QED BY <1>1, <1>2, <1>3, <1>4, <1>5 DEF SourcesNext

\* For any number of sources and of verbs, and however often the agent restarts, what the
\* measuring thread, the verbs and the sources do to one another loses no event of a runner
\* and names no job while somebody works on its storage.
THEOREM EventsKept == SourcesSpec => []EventsAreKept
<1>1. SourcesInv => EventsAreKept
  BY CurrentIsMax DEF SourcesInv, EventsAreKept, NoEventIsLost, EventsAreSomewhere
<1> QED BY <1>1, SourcesInitInv, SourcesStepInv, PTL DEF SourcesSpec
-----------------------------------------------------------------------------
(* The history read from a log (LogHistory).                               *)

\* Odd numbers start jobs, and the even number after ends the same job.
LEMMA Parity ==
  ASSUME NEW n \in Nat
  PROVE  /\ Job(n) \in Nat /\ (n >= 1 => Job(n) >= 1)
         /\ Begins(n) => ~Begins(n + 1) /\ Job(n + 1) = Job(n) /\ 2 * Job(n) = n + 1 /\ n >= 1
         /\ ~Begins(n) /\ n >= 1
              => Begins(n - 1) /\ Job(n - 1) = Job(n) /\ 2 * Job(n) = n /\ n >= 2
         /\ \A m \in Nat : m <= n => Job(m) <= Job(n)
         /\ \A m \in Nat : Job(m) = Job(n) /\ m < n => Begins(m) /\ n = m + 1
BY DEF Begins, Job

\* Some numbers up to a bound have a greatest one.
LEMMA GreatestOf ==
  ASSUME NEW N \in Nat, NEW S \in SUBSET (0 .. N), S # {}
  PROVE  \E x \in S : \A y \in S : y <= x
<1>. DEFINE below == {N - x : x \in S}
<1>1. below \in SUBSET Nat /\ below # {}
  <2>1. \A x \in S : N - x \in Nat /\ N - x \in below
    OBVIOUS
  <2>. QED BY <2>1
<1>2. \E x \in below : \A y \in below : ~(<<y, x>> \in OpToRel(<, Nat))
  BY <1>1, NatLessThanWellFounded, WFMin
<1>3. PICK x \in below : \A y \in below : ~(<<y, x>> \in OpToRel(<, Nat))
  BY <1>2
<1>4. \A y \in below : ~(y < x)
  BY <1>1, <1>3 DEF OpToRel
<1>5. PICK s \in S : x = N - s
  BY <1>3
<1>6. ASSUME NEW y \in S PROVE y <= s
  <2>1. N - y \in below
    OBVIOUS
  <2>. QED BY <1>4, <1>5, <2>1
<1>. QED BY <1>5, <1>6

LogRow == [start : 1 .. LastLogged, end : 0 .. LastLogged, result : LogResults,
           named : AllJobs \cup {0}, checked : BOOLEAN]

HasRow(n) == \E r \in history : r.start = n

\* A start whose line is gone and was never entered.
Missed(p) == Begins(p) /\ p < oldest /\ p \notin window /\ ~HasRow(p)

\* What always holds: a line is entered once, ...
OneStart == \A r, q \in history : r.start = q.start => r = q

\* ... the row of a start, or of an end whose start was never seen, ...
RowShape ==
  \A r \in history :
    /\ Begins(r.start) \/ (logForge = "github" /\ r.end = r.start)
    /\ logForge = "forgejo" => /\ r.end # 0 => r.result # 0
                               /\ r.checked => r.end # 0

WindowRead == \A n \in window : n <= readUpTo /\ (Begins(n) \/ logForge = "github")

\* ... and the enricher is at a row, with that row's own task if it found one.
AskedRow ==
  asking # NotAsking =>
    /\ HasRow(asking.start)
    /\ asking.pc \in {"found", "gone"}
    /\ asking.pc = "found" /\ logForge = "forgejo"
         => asking.job = Job(asking.start) /\ asking.start < present

\* What holds while no line was lost with a run open: the starts read are entered,
EnteredOnce ==
  \A n \in 1 .. readUpTo : Begins(n) /\ n >= oldest /\ n \notin window => HasRow(n)

\* no run is open, or about to be, that started before a start that was missed,
NothingBefore ==
  \A p \in 1 .. present : Missed(p) => /\ \A r \in history : r.end = 0 => r.start > p
                                       /\ \A n \in window : n > p

\* and every row is of its own job; one of an end alone is of a job whose start was missed.
EndsOwn ==
  \A r \in history :
    /\ RowIsOfItsJob(r) /\ r.start <= present
    /\ logForge = "github" /\ Begins(r.start) => r.end # r.start
    /\ ~Begins(r.start) => Missed(r.start - 1)

InOrder == EnteredOnce /\ NothingBefore /\ EndsOwn

LogInv ==
  /\ LogTypeOK /\ readUpTo <= present /\ oldest <= present + 1
  /\ OneStart /\ RowShape /\ WindowRead /\ AskedRow
  /\ ~blurred => InOrder

LEMMA LogBegins == LogInit => LogInv
<1>. SUFFICES ASSUME LogInit PROVE LogInv
  OBVIOUS
<1>1. LogTypeOK
  <2>1. NotAsking \in [start : 0 .. LastLogged, pc : {"none", "found", "gone"},
                       job : AllJobs \cup {0}]
    BY LogAssumption DEF NotAsking
  <2>2. blurred \in BOOLEAN /\ pruned \in BOOLEAN /\ logForge \in {"github", "forgejo"}
    BY DEF LogInit
  <2>. QED BY <2>1, <2>2, LogAssumption DEF LogInit, LogTypeOK
<1>. QED BY <1>1, LogAssumption DEF LogInit, LogInv, OneStart, RowShape, WindowRead, AskedRow,
    InOrder, EnteredOnce, NothingBefore, EndsOwn, Missed, HasRow

LEMMA LogGoesOn ==
  ASSUME LogInv, RunnerGoesOn \/ Killed PROVE LogInv'
<1>1. /\ present < LastLogged /\ present' = present + 1
      /\ unsaid' \in {unsaid, unsaid \cup {present + 1}}
      /\ logFaults' \in {logFaults, logFaults + 1} /\ logFaults' \in 0 .. MaxLogFaults
      /\ UNCHANGED <<logForge, oldest, readUpTo, window, history, asking, pruned, blurred>>
  BY LogAssumption DEF RunnerGoesOn, Killed, LogFault, LogInv, LogTypeOK
<1>2. LogTypeOK'
  BY <1>1, LogAssumption DEF LogInv, LogTypeOK
<1>3. NothingBefore => NothingBefore'
  <2>1. \A p \in 1 .. present' : Missed(p)' => Missed(p) /\ p \in 1 .. present
    BY <1>1, LogAssumption DEF LogInv, LogTypeOK, Missed, HasRow
  <2>. QED BY <1>1, <2>1 DEF NothingBefore
<1>4. InOrder => InOrder'
  BY <1>1, <1>3, LogAssumption DEF InOrder, EnteredOnce, EndsOwn, Missed, HasRow, RowIsOfItsJob,
      LogInv, LogTypeOK
<1>5. OneStart' /\ RowShape' /\ WindowRead' /\ AskedRow'
  BY <1>1, LogAssumption DEF LogInv, LogTypeOK, OneStart, RowShape, WindowRead, AskedRow, HasRow
<1>. QED BY <1>1, <1>2, <1>4, <1>5, LogAssumption DEF LogInv, LogTypeOK

LEMMA LogLinesLost ==
  ASSUME LogInv, LinesLost PROVE LogInv'
<1>1. /\ oldest <= present /\ oldest' = present + 1
      /\ logFaults' \in 0 .. MaxLogFaults
      /\ blurred' = (blurred \/ (readUpTo < present
                        /\ (window # {} \/ \E r \in history : r.end = 0)))
      /\ UNCHANGED <<logForge, present, unsaid, readUpTo, window, history, asking, pruned>>
  BY LogAssumption DEF LinesLost, LogFault, LogInv, LogTypeOK
<1>2. LogTypeOK'
  BY <1>1, LogAssumption DEF LogInv, LogTypeOK
<1>3. OneStart' /\ RowShape' /\ WindowRead' /\ AskedRow'
  BY <1>1 DEF LogInv, OneStart, RowShape, WindowRead, AskedRow, HasRow
<1>4. ASSUME ~blurred' PROVE InOrder'
  <2>1. ~blurred /\ InOrder
    BY <1>1, <1>4 DEF LogInv
  <2>2. EnteredOnce'
    BY <1>1, LogAssumption DEF EnteredOnce, LogInv, LogTypeOK
  <2>3. NothingBefore'
    <3>1. CASE readUpTo < present
      BY <1>1, <1>4, <3>1 DEF NothingBefore
    <3>2. CASE readUpTo = present
      <4>1. \A p \in 1 .. present : Missed(p)' => Missed(p)
        BY <1>1, <2>1, <3>2, LogAssumption DEF InOrder, EnteredOnce, Missed, HasRow, LogInv,
            LogTypeOK
      <4>. QED BY <1>1, <2>1, <4>1 DEF InOrder, NothingBefore
    <3>. QED BY <3>1, <3>2, LogAssumption DEF LogInv, LogTypeOK
  <2>4. EndsOwn'
    <3>1. ASSUME NEW p \in Int, Missed(p) PROVE Missed(p)'
      BY <1>1, <3>1, LogAssumption DEF Missed, HasRow, LogInv, LogTypeOK
    <3>. QED BY <1>1, <2>1, <3>1, LogAssumption DEF InOrder, EndsOwn, RowIsOfItsJob, LogInv,
        LogTypeOK
  <2>. QED BY <2>2, <2>3, <2>4 DEF InOrder
<1>. QED BY <1>1, <1>2, <1>3, <1>4, LogAssumption DEF LogInv, LogTypeOK

LEMMA LogIsRead ==
  ASSUME LogInv, ReadLog PROVE LogInv'
<1>1. PICK from \in 1 .. readUpTo + 1 : window' = {n \in Lines : n >= from}
  BY DEF ReadLog
<1>2. /\ window = {} /\ readUpTo < present /\ readUpTo' = present
      /\ UNCHANGED <<logForge, present, unsaid, oldest, blurred, history, asking, pruned,
                     logFaults>>
  BY DEF ReadLog, runnerVars
<1>3. /\ \A n \in window' : n \in oldest .. present /\ (Begins(n) \/ logForge = "github")
      /\ \A n \in oldest .. present : Begins(n) /\ n >= from => n \in window'
  BY <1>1 DEF Lines
<1>4. LogTypeOK'
  BY <1>2, <1>3, LogAssumption DEF LogInv, LogTypeOK
<1>5. OneStart' /\ RowShape' /\ WindowRead' /\ AskedRow'
  BY <1>2, <1>3, LogAssumption DEF LogInv, LogTypeOK, OneStart, RowShape, WindowRead, AskedRow,
      HasRow
<1>6. ASSUME ~blurred' PROVE InOrder'
  <2>1. ~blurred /\ InOrder
    BY <1>2, <1>6 DEF LogInv
  <2>2. \A p \in Int : Missed(p)' <=> Missed(p)
    BY <1>2, <1>3, LogAssumption DEF Missed, HasRow, LogInv, LogTypeOK
  <2>3. EnteredOnce'
    BY <1>1, <1>2, <1>3, <2>1, LogAssumption DEF InOrder, EnteredOnce, HasRow, LogInv, LogTypeOK
  <2>4. NothingBefore'
    <3>1. \A p \in 1 .. present : Missed(p) => \A n \in window' : n > p
      BY <1>3, LogAssumption DEF Missed, LogInv, LogTypeOK
    <3>. QED BY <1>2, <2>1, <2>2, <3>1, LogAssumption DEF InOrder, NothingBefore, LogInv, LogTypeOK
  <2>5. EndsOwn'
    BY <1>2, <2>1, <2>2, LogAssumption DEF InOrder, EndsOwn, RowIsOfItsJob, LogInv, LogTypeOK
  <2>. QED BY <2>3, <2>4, <2>5 DEF InOrder
<1>. QED BY <1>2, <1>4, <1>5, <1>6, LogAssumption DEF LogInv, LogTypeOK

LEMMA LogRestarts ==
  ASSUME LogInv, DashboardRestarts PROVE LogInv'
<1>1. /\ window' = {} /\ readUpTo' = 0 /\ asking' = NotAsking
      /\ logFaults' \in 0 .. MaxLogFaults
      /\ blurred' = (blurred \/ \E n \in window : n < oldest)
      /\ UNCHANGED <<logForge, present, unsaid, oldest, history, pruned>>
  BY LogAssumption DEF DashboardRestarts, LogFault, LogInv, LogTypeOK
<1>2. LogTypeOK'
  BY <1>1, LogAssumption DEF LogInv, LogTypeOK, NotAsking
<1>3. OneStart' /\ RowShape' /\ WindowRead' /\ AskedRow'
  BY <1>1 DEF LogInv, OneStart, RowShape, WindowRead, AskedRow, HasRow
<1>4. ASSUME ~blurred' PROVE InOrder'
  <2>1. ~blurred /\ InOrder
    BY <1>1, <1>4 DEF LogInv
  <2>2. \A p \in Int : Missed(p)' <=> Missed(p)
    BY <1>1, <1>4 DEF Missed, HasRow
  <2>3. EnteredOnce'
    BY <1>1 DEF EnteredOnce
  <2>4. NothingBefore' /\ EndsOwn'
    BY <1>1, <2>1, <2>2, LogAssumption DEF InOrder, NothingBefore, EndsOwn, RowIsOfItsJob, LogInv,
        LogTypeOK
  <2>. QED BY <2>3, <2>4 DEF InOrder
<1>. QED BY <1>1, <1>2, <1>3, <1>4, LogAssumption DEF LogInv, LogTypeOK

\* The jobs are numbered up to that of the last event.
LEMMA JobsAre ==
  ASSUME NEW n \in 1 .. LastLogged PROVE Job(n) \in AllJobs
BY Parity, LogAssumption DEF AllJobs

\* A line of a start is entered.
LEMMA LogOpens ==
  ASSUME LogInv, NEW n \in window, Begins(n), history' = OpenRun(n), window' = window \ {n},
         UNCHANGED <<runnerVars, readUpTo, asking, pruned, logFaults>>
  PROVE  LogInv'
<1>1. UNCHANGED <<logForge, present, unsaid, oldest, blurred, readUpTo, asking, pruned, logFaults>>
  BY DEF runnerVars
<1>2. /\ n \in 1 .. LastLogged /\ n <= readUpTo /\ LastLogged \in Nat
      /\ history \subseteq LogRow /\ present \in Nat /\ oldest \in Nat /\ readUpTo \in Nat
  BY LogAssumption DEF LogInv, LogTypeOK, WindowRead, LogRow
<1>. DEFINE new == [start |-> n, end |-> 0, result |-> 0, named |-> 0, checked |-> FALSE]
<1>3. new \in LogRow
  BY <1>2 DEF LogRow, LogResults
<1>4. \/ HasRow(n) /\ history' = history
      \/ ~HasRow(n) /\ history' = history \cup {new}
  BY DEF OpenRun, HasRow
<1>. HIDE DEF new
<1>5. new.start = n /\ new.end = 0 /\ new.result = 0 /\ ~new.checked
  BY DEF new
<1>6. \A p : HasRow(p)' <=> HasRow(p) \/ p = n
  BY <1>4, <1>5 DEF HasRow
<1>7. \A p : Missed(p)' <=> Missed(p)
  BY <1>1, <1>6 DEF Missed
<1>8. LogTypeOK'
  BY <1>1, <1>2, <1>3, <1>4 DEF LogInv, LogTypeOK, LogRow
<1>9. OneStart' /\ RowShape' /\ WindowRead' /\ AskedRow'
  <2>1. OneStart'
    BY <1>4, <1>5 DEF LogInv, OneStart, HasRow
  <2>2. RowShape'
    BY <1>1, <1>4, <1>5 DEF LogInv, RowShape
  <2>3. WindowRead' /\ AskedRow'
    BY <1>1, <1>6 DEF LogInv, WindowRead, AskedRow
  <2>. QED BY <2>1, <2>2, <2>3
<1>10. ASSUME ~blurred' PROVE InOrder'
  <2>1. ~blurred /\ InOrder
    BY <1>1, <1>10 DEF LogInv
  <2>2. EnteredOnce'
    BY <1>1, <1>6, <2>1 DEF InOrder, EnteredOnce
  <2>3. NothingBefore'
    BY <1>1, <1>4, <1>5, <1>7, <2>1 DEF InOrder, NothingBefore
  <2>4. EndsOwn'
    <3>1. ASSUME NEW r \in history
          PROVE  /\ RowIsOfItsJob(r) /\ r.start <= present
                 /\ logForge = "github" /\ Begins(r.start) => r.end # r.start
                 /\ ~Begins(r.start) => Missed(r.start - 1)
      BY <2>1 DEF InOrder, EndsOwn
    <3>2. RowIsOfItsJob(new) /\ new.start <= present /\ new.end # new.start
      BY <1>2, <1>5 DEF RowIsOfItsJob, LogInv
    <3>. QED BY <1>1, <1>4, <1>5, <1>7, <3>1, <3>2 DEF EndsOwn
  <2>. QED BY <2>2, <2>3, <2>4 DEF InOrder
<1>. QED BY <1>1, <1>8, <1>9, <1>10 DEF LogInv

\* While no line was lost with a run open, the start of an end that is entered has its row, or
\* was missed.
LEMMA StartOfEnd ==
  ASSUME LogInv, ~blurred, NEW n \in window, \A other \in window : n <= other, ~Begins(n)
  PROVE  /\ Begins(n - 1) /\ n - 1 \in 1 .. present
         /\ HasRow(n - 1) \/ Missed(n - 1)
<1>1. /\ n \in Nat /\ n >= 1 /\ n <= readUpTo /\ readUpTo <= present
      /\ present \in Nat /\ oldest \in Nat /\ readUpTo \in Nat
  BY LogAssumption DEF LogInv, LogTypeOK, WindowRead
<1>2. Begins(n - 1) /\ n >= 2
  BY <1>1, Parity
<1>3. n - 1 \notin window
  BY <1>1
<1>4. CASE n - 1 >= oldest
  BY <1>1, <1>2, <1>3, <1>4 DEF LogInv, InOrder, EnteredOnce
<1>5. CASE n - 1 < oldest
  BY <1>1, <1>2, <1>3, <1>5 DEF Missed
<1>. QED BY <1>1, <1>2, <1>4, <1>5

\* A line of an end is entered.
LEMMA LogCloses ==
  ASSUME LogInv, NEW n \in window, \A other \in window : n <= other, ~Begins(n),
         history' = CloseRun(n), window' = window \ {n},
         UNCHANGED <<runnerVars, readUpTo, asking, pruned, logFaults>>
  PROVE  LogInv'
<1>1. UNCHANGED <<logForge, present, unsaid, oldest, blurred, readUpTo, asking, pruned, logFaults>>
  BY DEF runnerVars
<1>2. /\ n \in 1 .. LastLogged /\ n <= readUpTo /\ LastLogged \in Nat /\ logForge = "github"
      /\ history \subseteq LogRow /\ present \in Nat /\ oldest \in Nat /\ readUpTo \in Nat
      /\ readUpTo <= present
  BY LogAssumption DEF LogInv, LogTypeOK, WindowRead, LogRow
<1>3. Job(n) \in AllJobs /\ Job(n) >= 1
  BY <1>2, JobsAre DEF AllJobs
<1>4. ASSUME \A p : HasRow(p)' <=> HasRow(p) \/ (p = n /\ HasRow(n)')
      PROVE  /\ \A p : Missed(p)' <=> Missed(p)
             /\ WindowRead' /\ AskedRow'
             /\ ~blurred => EnteredOnce'
  <2>1. \A p : Begins(p) => (HasRow(p)' <=> HasRow(p)) /\ (p \in window' <=> p \in window)
    BY <1>4
  <2>2. \A p : Missed(p)' <=> Missed(p)
    BY <1>1, <2>1 DEF Missed
  <2>3. WindowRead' /\ AskedRow'
    BY <1>1, <1>4 DEF LogInv, WindowRead, AskedRow
  <2>4. ~blurred => EnteredOnce'
    BY <1>1, <2>1 DEF LogInv, InOrder, EnteredOnce
  <2>. QED BY <2>2, <2>3, <2>4
<1>5. CASE history' = history
  <2>1. \A p : HasRow(p)' <=> HasRow(p) \/ (p = n /\ HasRow(n)')
    BY <1>5 DEF HasRow
  <2>2. LogTypeOK' /\ OneStart' /\ RowShape'
    BY <1>1, <1>5 DEF LogInv, LogTypeOK, OneStart, RowShape
  <2>3. ~blurred => InOrder'
    BY <1>1, <1>4, <1>5, <2>1 DEF LogInv, InOrder, NothingBefore, EndsOwn, RowIsOfItsJob
  <2>. QED BY <1>1, <1>4, <2>1, <2>2, <2>3 DEF LogInv
<1>. DEFINE open == {r \in history : r.end = 0 /\ r.start <= n}
            latest == CHOOSE r \in open : \A other \in open : other.start <= r.start
<1>6. CASE ~(\E r \in history : r.end = n) /\ open # {}
  <2>1. \E r \in open : \A other \in open : other.start <= r.start
    <3>. DEFINE begun == {r.start : r \in open}
    <3>1. begun \in SUBSET (0 .. LastLogged) /\ begun # {}
      BY <1>2, <1>6 DEF LogRow
    <3>2. PICK s \in begun : \A t \in begun : t <= s
      BY <1>2, <3>1, GreatestOf
    <3>3. PICK r \in open : r.start = s
      BY <3>2
    <3>. QED BY <3>2, <3>3
  <2>2. latest \in open /\ \A other \in open : other.start <= latest.start
    BY <2>1
  <2>. DEFINE closed == [latest EXCEPT !.end = n, !.result = Job(n)]
  <2>3. history' = (history \ {latest}) \cup {closed}
    BY <1>6 DEF CloseRun
  <2>4. latest \in history /\ latest \in LogRow /\ latest.end = 0 /\ latest.start <= n
    BY <1>2, <2>2
  <2>. HIDE DEF latest
  <2>5. /\ closed \in LogRow /\ closed.start = latest.start /\ closed.end = n
        /\ closed.result = Job(n) /\ closed.checked = latest.checked
    <3>1. Job(n) \in LogResults /\ n \in 0 .. LastLogged
      BY <1>2, <1>3 DEF LogResults
    <3>. QED BY <2>4, <3>1 DEF LogRow
  <2>. HIDE DEF closed
  <2>6. \A p : HasRow(p)' <=> HasRow(p) \/ (p = n /\ HasRow(n)')
    BY <2>3, <2>4, <2>5 DEF HasRow
  <2>7. LogTypeOK'
    BY <1>1, <1>2, <2>3, <2>5 DEF LogInv, LogTypeOK, LogRow
  <2>8. OneStart'
    BY <2>3, <2>4, <2>5 DEF LogInv, OneStart
  <2>9. Begins(latest.start)
    BY <2>4 DEF LogInv, RowShape, LogRow
  <2>10. RowShape'
    BY <1>1, <1>2, <2>3, <2>5, <2>9 DEF LogInv, RowShape
  <2>11. ASSUME ~blurred PROVE InOrder'
    <3>1. InOrder
      BY <2>11 DEF LogInv
    <3>2. /\ Begins(n - 1) /\ n - 1 \in 1 .. present
          /\ HasRow(n - 1) \/ Missed(n - 1)
      BY <2>11, StartOfEnd
    <3>3. latest.start # n /\ latest.start \in Nat
      BY <2>4, <2>9 DEF LogRow
    <3>4. ~Missed(n - 1)
      BY <1>2, <2>4, <3>1, <3>2, <3>3 DEF InOrder, NothingBefore
    <3>5. PICK q \in history : q.start = n - 1
      BY <3>2, <3>4 DEF HasRow
    <3>6. 2 * Job(n - 1) = n /\ Job(n) = Job(n - 1)
      BY <1>2, Parity
    <3>7. q.end = 0
      BY <1>2, <1>6, <3>1, <3>2, <3>5, <3>6 DEF InOrder, EndsOwn, RowIsOfItsJob
    <3>8. q \in open
      BY <1>2, <3>5, <3>7
    <3>9. latest.start = n - 1
      BY <1>2, <2>2, <2>4, <3>3, <3>5, <3>8
    <3>10. /\ RowIsOfItsJob(closed) /\ closed.start <= present /\ closed.end # closed.start
           /\ Begins(closed.start) /\ closed.end # 0
      BY <1>2, <2>5, <3>2, <3>6, <3>9 DEF RowIsOfItsJob
    <3>11. EndsOwn'
      <4>1. ASSUME NEW r \in history
            PROVE  /\ RowIsOfItsJob(r) /\ r.start <= present
                   /\ logForge = "github" /\ Begins(r.start) => r.end # r.start
                   /\ ~Begins(r.start) => Missed(r.start - 1)
        BY <3>1 DEF InOrder, EndsOwn
      <4>. QED BY <1>1, <1>4, <2>3, <2>6, <3>10, <4>1 DEF EndsOwn
    <3>12. NothingBefore'
      BY <1>1, <1>4, <2>3, <2>6, <3>1, <3>10 DEF InOrder, NothingBefore
    <3>. QED BY <1>4, <2>6, <2>11, <3>11, <3>12 DEF InOrder
  <2>. QED BY <1>1, <1>4, <2>6, <2>7, <2>8, <2>10, <2>11 DEF LogInv
<1>7. CASE ~(\E r \in history : r.end = n) /\ open = {}
  <2>1. history' = history \cup {Partial(n)}
    BY <1>7 DEF CloseRun
  <2>2. /\ Partial(n) \in LogRow /\ Partial(n).start = n /\ Partial(n).end = n
        /\ Partial(n).result = Job(n)
    BY <1>2, <1>3 DEF Partial, LogRow, LogResults
  <2>3. \A p : HasRow(p)' <=> HasRow(p) \/ p = n
    BY <2>1, <2>2 DEF HasRow
  <2>4. LogTypeOK'
    BY <1>1, <1>2, <2>1, <2>2 DEF LogInv, LogTypeOK, LogRow
  <2>5. ~HasRow(n)
    BY <1>7 DEF HasRow, LogInv, RowShape
  <2>6. OneStart' /\ RowShape'
    BY <1>1, <1>2, <2>1, <2>2, <2>5 DEF LogInv, OneStart, RowShape, HasRow
  <2>7. ASSUME ~blurred PROVE InOrder'
    <3>1. InOrder
      BY <2>7 DEF LogInv
    <3>2. /\ Begins(n - 1) /\ n - 1 \in 1 .. present
          /\ HasRow(n - 1) \/ Missed(n - 1)
      BY <2>7, StartOfEnd
    <3>3. 2 * Job(n - 1) = n /\ Job(n) = Job(n - 1)
      BY <1>2, Parity
    <3>4. ~HasRow(n - 1)
      <4>. SUFFICES ASSUME NEW q \in history, q.start = n - 1 PROVE FALSE
        BY DEF HasRow
      <4>1. q.end \in {0, n}
        BY <1>2, <3>1, <3>2, <3>3 DEF InOrder, EndsOwn, RowIsOfItsJob
      <4>. QED BY <1>2, <1>7, <4>1
    <3>5. Missed(n - 1)
      BY <3>2, <3>4
    <3>6. RowIsOfItsJob(Partial(n)) /\ n <= present
      BY <1>2, <2>2 DEF RowIsOfItsJob
    <3>7. EndsOwn'
      <4>1. ASSUME NEW r \in history
            PROVE  /\ RowIsOfItsJob(r) /\ r.start <= present
                   /\ logForge = "github" /\ Begins(r.start) => r.end # r.start
                   /\ ~Begins(r.start) => Missed(r.start - 1)
        BY <3>1 DEF InOrder, EndsOwn
      <4>. QED BY <1>1, <1>4, <2>1, <2>2, <2>3, <3>5, <3>6, <4>1 DEF EndsOwn
    <3>8. NothingBefore'
      BY <1>1, <1>2, <1>4, <2>1, <2>2, <2>3, <3>1 DEF InOrder, NothingBefore
    <3>. QED BY <1>4, <2>3, <2>7, <3>7, <3>8 DEF InOrder
  <2>. QED BY <1>1, <1>4, <2>3, <2>4, <2>6, <2>7 DEF LogInv
<1>. QED BY <1>5, <1>6, <1>7 DEF CloseRun

LEMMA LogIsEntered ==
  ASSUME LogInv, EnterLine PROVE LogInv'
<1>1. PICK n \in window :
        /\ \A other \in window : n <= other
        /\ history' = IF Begins(n) THEN OpenRun(n) ELSE CloseRun(n)
        /\ window' = window \ {n}
        /\ UNCHANGED <<runnerVars, readUpTo, asking, pruned, logFaults>>
  BY DEF EnterLine
<1>. QED BY <1>1, LogOpens, LogCloses

LEMMA LogAsks ==
  ASSUME LogInv, NEW r \in history, FindJob(r) \/ FindTask(r) PROVE LogInv'
<1>1. /\ asking'.start = r.start /\ asking'.pc \in {"found", "gone"}
      /\ asking' \in [start : 0 .. LastLogged, pc : {"none", "found", "gone"},
                      job : AllJobs \cup {0}]
      /\ logForge = "forgejo" /\ asking'.pc = "found"
           => asking'.job = Job(r.start) /\ r.start < present
  <2>1. /\ r \in LogRow /\ LastLogged \in Nat /\ present \in 0 .. LastLogged
    BY LogAssumption DEF LogInv, LogTypeOK, LogRow
  <2>2. CASE FindJob(r)
    <3>1. PICK k \in 0 .. Job(present) :
            asking' = [start |-> r.start, pc |-> IF k = 0 THEN "gone" ELSE "found", job |-> k]
      BY <2>2 DEF FindJob
    <3>2. k \in AllJobs \cup {0}
      BY <2>1, Parity DEF AllJobs
    <3>3. logForge = "github"
      BY <2>2 DEF FindJob
    <3>. QED BY <2>1, <3>1, <3>2, <3>3 DEF LogRow
  <2>3. CASE FindTask(r)
    <3>1. /\ pruned \/ r.start < present
          /\ asking' = [start |-> r.start, pc |-> IF pruned THEN "gone" ELSE "found",
                        job |-> IF pruned THEN 0 ELSE Job(r.start)]
      BY <2>3 DEF FindTask
    <3>2. Job(r.start) \in AllJobs
      BY <2>1, JobsAre DEF LogRow
    <3>. QED BY <2>1, <3>1, <3>2 DEF LogRow
  <2>. QED BY <2>2, <2>3
<1>2. /\ UNCHANGED <<logForge, present, unsaid, oldest, blurred, readUpTo, window, history, pruned,
                     logFaults>>
  BY DEF FindJob, FindTask, runnerVars
<1>3. LogTypeOK' /\ OneStart' /\ RowShape' /\ WindowRead'
  BY <1>1, <1>2 DEF LogInv, LogTypeOK, OneStart, RowShape, WindowRead
<1>4. AskedRow'
  BY <1>1, <1>2 DEF AskedRow, HasRow
<1>5. ~blurred' => InOrder'
  BY <1>2 DEF LogInv, InOrder, EnteredOnce, NothingBefore, EndsOwn, RowIsOfItsJob, Missed, HasRow
<1>. QED BY <1>2, <1>3, <1>4, <1>5 DEF LogInv

\* The row the enricher is at is rewritten, with its start, and ended if it was.
LEMMA LogRewrites ==
  ASSUME LogInv, asking # NotAsking, NEW new \in LogRow,
         new.start = Asked.start, history' = Rewritten(new),
         logForge = "forgejo" => /\ new.end # 0 => new.result # 0
                                 /\ new.checked => new.end # 0,
         logForge = "github" => new.end = Asked.end /\ new.result = Asked.result,
         Asked.end # 0 => new.end # 0,
         RowIsOfItsJob(Asked) => RowIsOfItsJob(new),
         asking' \in {asking, NotAsking},
         UNCHANGED <<runnerVars, readUpTo, window, pruned, logFaults>>
  PROVE  LogInv'
<1>1. UNCHANGED <<logForge, present, unsaid, oldest, blurred, readUpTo, window, pruned, logFaults>>
  BY DEF runnerVars
<1>2. Asked \in history /\ Asked.start = asking.start
  BY DEF LogInv, AskedRow, HasRow, Asked
<1>. DEFINE old == Asked
<1>3. /\ old \in history /\ history' = (history \ {old}) \cup {new} /\ new.start = old.start
      /\ old.start = asking.start
      /\ logForge = "github" => new.end = old.end /\ new.result = old.result
      /\ old.end # 0 => new.end # 0
      /\ RowIsOfItsJob(old) => RowIsOfItsJob(new)
  BY <1>2 DEF Rewritten
<1>. HIDE DEF old
<1>4. \A p : HasRow(p)' <=> HasRow(p)
  BY <1>3 DEF HasRow
<1>5. \A p : Missed(p)' <=> Missed(p)
  BY <1>1, <1>4 DEF Missed
<1>6. LogTypeOK'
  <2>1. asking' \in [start : 0 .. LastLogged, pc : {"none", "found", "gone"},
                     job : AllJobs \cup {0}]
    <3>1. NotAsking \in [start : 0 .. LastLogged, pc : {"none", "found", "gone"},
                         job : AllJobs \cup {0}]
      BY LogAssumption DEF NotAsking
    <3>. QED BY <3>1 DEF LogInv, LogTypeOK
  <2>. QED BY <1>1, <1>3, <2>1 DEF LogInv, LogTypeOK, LogRow
<1>7. OneStart' /\ WindowRead'
  BY <1>1, <1>3 DEF LogInv, OneStart, WindowRead
<1>8. RowShape'
  BY <1>1, <1>3 DEF LogInv, RowShape
<1>9. AskedRow'
  BY <1>1, <1>4 DEF LogInv, AskedRow
<1>10. ASSUME ~blurred PROVE InOrder'
  <2>1. InOrder
    BY <1>10 DEF LogInv
  <2>2. EnteredOnce'
    BY <1>1, <1>4, <2>1 DEF InOrder, EnteredOnce
  <2>3. NothingBefore'
    BY <1>1, <1>3, <1>5, <2>1 DEF InOrder, NothingBefore
  <2>4. EndsOwn'
    <3>1. ASSUME NEW r \in history
          PROVE  /\ RowIsOfItsJob(r) /\ r.start <= present
                 /\ logForge = "github" /\ Begins(r.start) => r.end # r.start
                 /\ ~Begins(r.start) => Missed(r.start - 1)
      BY <2>1 DEF InOrder, EndsOwn
    <3>. QED BY <1>1, <1>3, <1>5, <3>1 DEF EndsOwn
  <2>. QED BY <2>2, <2>3, <2>4 DEF InOrder
<1>. QED BY <1>1, <1>6, <1>7, <1>8, <1>9, <1>10 DEF LogInv

LEMMA LogIsClosed ==
  ASSUME LogInv, ApplyClose PROVE LogInv'
<1>1. /\ logForge = "forgejo" /\ asking # NotAsking /\ Asked.end = 0
      /\ UNCHANGED <<runnerVars, readUpTo, window, asking, pruned, logFaults>>
  BY DEF ApplyClose
<1>2. /\ Asked \in history /\ Asked.start = asking.start /\ Asked \in LogRow
  BY <1>1 DEF LogInv, AskedRow, HasRow, Asked, LogTypeOK, LogRow
<1>3. /\ LastLogged \in Nat /\ present \in 0 .. LastLogged
      /\ Begins(Asked.start) /\ Asked.start \in 1 .. LastLogged /\ Asked.checked = FALSE
  BY <1>1, <1>2, LogAssumption DEF LogInv, LogTypeOK, RowShape, LogRow
<1>4. 2 * Job(Asked.start) = Asked.start + 1 /\ Job(Asked.start) \in AllJobs
  BY <1>3, Parity, JobsAre
<1>5. CASE asking.pc = "found"
  <2>. DEFINE new == [Asked EXCEPT !.end = asking.start + 1, !.result = asking.job]
  <2>1. history' = Rewritten(new)
    BY <1>5 DEF ApplyClose
  <2>2. /\ asking.job = Job(Asked.start) /\ asking.start < present
    BY <1>1, <1>2, <1>5 DEF LogInv, AskedRow
  <2>3. asking.start + 1 \in 0 .. LastLogged /\ asking.job \in LogResults
    BY <1>2, <1>3, <1>4, <2>2 DEF LogResults
  <2>4. /\ new \in LogRow /\ new.start = Asked.start /\ new.end = Asked.start + 1
        /\ new.result = Job(Asked.start)
    BY <1>2, <2>2, <2>3 DEF LogRow
  <2>. HIDE DEF new
  <2>5. new.end # 0 /\ new.result # 0 /\ RowIsOfItsJob(new)
    BY <1>3, <1>4, <2>4 DEF RowIsOfItsJob, AllJobs
  <2>. QED BY <1>1, <2>1, <2>4, <2>5, LogRewrites
<1>6. CASE asking.pc # "found"
  <2>. DEFINE new == [Asked EXCEPT !.end = asking.start, !.result = NotKnown]
  <2>1. history' = Rewritten(new)
    BY <1>6 DEF ApplyClose
  <2>2. asking.start \in 0 .. LastLogged /\ NotKnown \in LogResults
    BY <1>2, <1>3 DEF LogResults
  <2>3. /\ new \in LogRow /\ new.start = Asked.start /\ new.end = Asked.start
        /\ new.result = NotKnown
    BY <1>2, <2>2 DEF LogRow
  <2>. HIDE DEF new
  <2>4. new.end # 0 /\ new.result # 0 /\ RowIsOfItsJob(new)
    BY <1>3, <2>3 DEF RowIsOfItsJob, NotKnown
  <2>. QED BY <1>1, <2>1, <2>3, <2>4, LogRewrites
<1>. QED BY <1>5, <1>6

LEMMA LogIsEnriched ==
  ASSUME LogInv, ApplyEnrichment PROVE LogInv'
<1>. DEFINE new == [Asked EXCEPT !.checked = TRUE, !.named = asking.job]
<1>1. /\ asking # NotAsking /\ (logForge = "forgejo" => Asked.end # 0)
      /\ history' = Rewritten(new) /\ asking' = NotAsking
      /\ UNCHANGED <<runnerVars, readUpTo, window, pruned, logFaults>>
  BY DEF ApplyEnrichment
<1>2. /\ Asked \in history /\ Asked \in LogRow /\ asking.job \in AllJobs \cup {0}
      /\ logForge \in {"github", "forgejo"}
  BY <1>1 DEF LogInv, AskedRow, HasRow, Asked, LogTypeOK, LogRow
<1>3. /\ new \in LogRow /\ new.start = Asked.start /\ new.end = Asked.end
      /\ new.result = Asked.result
  BY <1>2 DEF LogRow
<1>4. logForge = "forgejo" /\ new.end # 0 => new.result # 0
  BY <1>2, <1>3 DEF LogInv, RowShape
<1>5. RowIsOfItsJob(Asked) => RowIsOfItsJob(new)
  BY <1>3 DEF RowIsOfItsJob
<1>. HIDE DEF new
<1>. QED BY <1>1, <1>3, <1>4, <1>5, LogRewrites

LEMMA LogIsPruned ==
  ASSUME LogInv, TasksPruned PROVE LogInv'
<1>1. /\ pruned' = TRUE /\ logFaults' \in 0 .. MaxLogFaults
      /\ UNCHANGED <<logForge, present, unsaid, oldest, blurred, readUpTo, window, history, asking>>
  BY LogAssumption DEF TasksPruned, LogFault, runnerVars, LogInv, LogTypeOK
<1>2. LogTypeOK' /\ OneStart' /\ RowShape' /\ WindowRead' /\ AskedRow'
  BY <1>1 DEF LogInv, LogTypeOK, OneStart, RowShape, WindowRead, AskedRow, HasRow
<1>3. ~blurred' => InOrder'
  BY <1>1 DEF LogInv, InOrder, EnteredOnce, NothingBefore, EndsOwn, RowIsOfItsJob, Missed, HasRow
<1>. QED BY <1>1, <1>2, <1>3 DEF LogInv

LEMMA LogUnchanged ==
  ASSUME LogInv, UNCHANGED logVars PROVE LogInv'
<1>1. UNCHANGED <<logForge, present, unsaid, oldest, blurred, readUpTo, window, history, asking,
                  pruned, logFaults>>
  BY DEF logVars, runnerVars
<1>. QED BY <1>1 DEF LogInv, LogTypeOK, OneStart, RowShape, WindowRead, AskedRow, InOrder,
    EnteredOnce, NothingBefore, EndsOwn, RowIsOfItsJob, Missed, HasRow

\* Two rows of one job have one start, unless one is of an end whose start has a row.
LEMMA RowsAreRight == LogInv => LogRunsAreRight
<1>. SUFFICES ASSUME LogInv PROVE LogRunsAreRight
  OBVIOUS
<1>1. ASSUME ~blurred, NEW r \in history, NEW q \in history, Job(r.start) = Job(q.start)
      PROVE  r = q
  <2>1. r.start \in Nat /\ q.start \in Nat
    BY LogAssumption DEF LogInv, LogTypeOK
  <2>2. ASSUME NEW one \in history, NEW other \in history, one.start \in Nat, other.start \in Nat,
               Job(one.start) = Job(other.start), one.start < other.start
        PROVE  FALSE
    <3>1. Begins(one.start) /\ other.start = one.start + 1
      BY <2>2, Parity
    <3>2. ~Begins(other.start) /\ other.start - 1 = one.start
      BY <2>2, <3>1, Parity
    <3>3. Missed(one.start)
      BY <1>1, <3>2 DEF LogInv, InOrder, EndsOwn
    <3>. QED BY <3>3 DEF Missed, HasRow
  <2>3. r.start = q.start
    BY <1>1, <2>1, <2>2
  <2>. QED BY <2>3 DEF LogInv, OneStart
<1>2. ~blurred => \A r \in history : RowIsOfItsJob(r)
  BY DEF LogInv, InOrder, EndsOwn
<1>3. logForge = "forgejo" => \A r \in history : r.checked => r.end # 0 /\ r.result # 0
  BY DEF LogInv, RowShape
<1>. QED BY <1>1, <1>2, <1>3 DEF LogRunsAreRight

\* However a log is read - in windows that overlap, again after a restart, with lines lost and
\* jobs killed - and though its jobs have one name: a job has one row, with an end and a result
\* of its own (history.py, the collector and the enricher of app.py).
THEOREM LogRowsAreRight == LogSpec => []LogRunsAreRight
<1>1. LogInv /\ [LogNext]_logVars => LogInv'
  <2>. SUFFICES ASSUME LogInv, [LogNext]_logVars PROVE LogInv'
    OBVIOUS
  <2>. QED BY LogGoesOn, LogLinesLost, LogIsRead, LogRestarts, LogIsEntered, LogAsks, LogIsClosed,
      LogIsEnriched, LogIsPruned, LogUnchanged DEF LogNext
<1>. QED BY <1>1, LogBegins, RowsAreRight, PTL DEF LogSpec

-----------------------------------------------------------------------------
(* The history of a runner whose worker and forge both report              *)
(* (RunHistory).                                                           *)

Entry(b, n) == [by |-> b, n |-> n]
IdFor(b, k) == [by |-> b, run |-> k]
BothIds(k) == {IdFor("worker", k), IdFor("forge", k)}

\* By the clock of its reporter, when job k began and ended.
BeginStamp(b, k) == 6 * k - 3 - (IF b = "worker" THEN 0 ELSE Leads)
EndStamp(b, k) == 6 * k + (IF b = "worker" THEN 0 ELSE Lags)

Projected(b, n) == \E i \in 1 .. cursor : entered[i] = Entry(b, n)

\* An event of which nothing is on its way any more.
Arrived(n) ==
  /\ n <= happenings /\ n \notin Range(toPost) /\ n \notin deliveries
  /\ \A j \in cursor + 1 .. Len(entered) : entered[j].n # n

\* The worker posts its events in their order, each source reports an event once, and what is
\* entered has happened.
PostedInOrder ==
  /\ Len(toPost) <= happenings
  /\ \A i \in 1 .. Len(toPost) : toPost[i] = happenings - Len(toPost) + i
DeliveredOnce ==
  /\ deliveries \subseteq 1 .. happenings
  /\ \A i \in 1 .. Len(entered) : entered[i].by = "forge" => entered[i].n \notin deliveries
EnteredAfter ==
  \A i \in 1 .. Len(entered) :
    /\ entered[i].n <= happenings
    /\ entered[i].by = "worker" => entered[i].n <= happenings - Len(toPost)
NoneTwice == \A i, j \in 1 .. Len(entered) : entered[i] = entered[j] => i = j
WorkerInOrder ==
  \A i \in 1 .. Len(entered) : entered[i].by = "worker" =>
    \A n \in 1 .. entered[i].n - 1 : \E j \in 1 .. i - 1 : entered[j] = Entry("worker", n)
AllPosted ==
  \A n \in 1 .. happenings - Len(toPost) :
    \E j \in 1 .. Len(entered) : entered[j] = Entry("worker", n)
BegunFirst == Len(runRows) > 0 => happenings >= 1

ReportsInv ==
  /\ HistoryTypeOK /\ PostedInOrder /\ DeliveredOnce /\ EnteredAfter /\ NoneTwice
  /\ WorkerInOrder /\ AllPosted /\ BegunFirst

\* What a row of job k holds.
HoldsJob(r, k) ==
  /\ r.of = {k} /\ 2 * k - 1 <= happenings
  /\ r.ids # {} /\ r.ids \subseteq BothIds(k) /\ IdFor(r.source, k) \in r.ids
  /\ r.result \in {0, UnknownResult, k}
StampsInJob(r, k) ==
  /\ r.at \in 6 * k - 4 .. 6 * k + 1 /\ (r.ids = {IdFor("worker", k)} => r.at <= 6 * k)
  /\ r.end = 0 \/ r.end \in 6 * k - 4 .. 6 * k + 1

\* It begins where one of those it is known to began the job; or it was made of the forge's end
\* of the job, when another row was the worker's.
FromStart(r, k) == \E b \in Reporters : IdFor(b, k) \in r.ids /\ r.start = BeginStamp(b, k)
FromEnd(r, k) ==
  /\ r.ids = {IdFor("forge", k)} /\ r.start = EndStamp("forge", k) /\ r.end # 0 /\ r.result # 0
  /\ Projected("worker", 2 * k - 1)

\* One that a single reporter knows ends where that reporter says; one that is closed was
\* reported to have ended, or the start is no longer on its way to anyone; one that is open
\* when the end was reported is known to both.
EndsAsReported(r, k) ==
  \A b \in Reporters :
    r.ids = {IdFor(b, k)} /\ Projected(b, 2 * k) => r.end = EndStamp(b, k) /\ r.at = EndStamp(b, k)
ClosedForAReason(r, k) ==
  r.end # 0 =>
    \/ \E b \in Reporters : IdFor(b, k) \in r.ids /\ Projected(b, 2 * k)
    \/ Arrived(2 * k - 1) /\ (r.end = EndStamp("forge", k) \/ forgotten)
OpenIsKnown(r, k) ==
  r.end = 0 /\ (\E b \in Reporters : Projected(b, 2 * k)) => r.ids = BothIds(k)

KeptRow(r, k) ==
  /\ HoldsJob(r, k) /\ StampsInJob(r, k)
  /\ FromStart(r, k) \/ FromEnd(r, k)
  /\ EndsAsReported(r, k) /\ ClosedForAReason(r, k) /\ OpenIsKnown(r, k)

RowsKept == \A i \in 1 .. Len(runRows) : \E k \in Runs : KeptRow(runRows[i], k)

\* Every event projected is in a row, an id is of one row, and an open row is its job's only one.
IdsFound ==
  \A b \in Reporters, n \in 1 .. LastHappening : Projected(b, n) =>
    \E i \in 1 .. Len(runRows) : IdFor(b, RunOf(n)) \in runRows[i].ids
IdsOnce ==
  \A i, j \in 1 .. Len(runRows) : \A id \in runRows[i].ids : id \in runRows[j].ids => i = j
OpenAlone ==
  \A i, j \in 1 .. Len(runRows) :
    runRows[i].end = 0 /\ runRows[i].of = runRows[j].of => i = j

\* What the forge answered is of the row's own job.
ToldTruth ==
  told # NotTold =>
    /\ told.row \in 1 .. Len(runRows)
    /\ \A k \in runRows[told.row].of :
         /\ told.result \in {UnknownResult, k}
         /\ runRows[told.row].end = 0 =>
              /\ told.at \in 6 * k - 4 .. 6 * k + 1 /\ Arrived(2 * k - 1)
              /\ told.at = EndStamp("forge", k) \/ forgotten
SaidTruth ==
  \A m \in said : /\ m.row \in 1 .. Len(runRows)
                  /\ \A k \in runRows[m.row].of : m.result \in {UnknownResult, k}

HistoryRowsInv ==
  RowsKept /\ IdsFound /\ IdsOnce /\ OpenAlone /\ OneRow /\ ToldTruth /\ SaidTruth

HistoryInv == ReportsInv /\ (ReportedInTurn => HistoryRowsInv)

HistoryEvents == [by : Reporters, n : 1 .. LastHappening]
HistoryRows ==
  [ids : SUBSET [by : Reporters, run : Runs], source : Reporters, at : Int, start : Int, end : Int,
   result : {UnknownResult, 0} \cup Runs, of : SUBSET Runs]

\* The events of job k are 2k - 1 and 2k.
LEMMA JobNumbers ==
  ASSUME NEW n \in Nat, n >= 1
  PROVE  /\ RunOf(n) \in Nat /\ RunOf(n) >= 1
         /\ Starts(n) => n = 2 * RunOf(n) - 1
         /\ ~Starts(n) => n = 2 * RunOf(n)
         /\ \A k \in Nat : RunOf(2 * k) = k /\ ~Starts(2 * k)
         /\ \A k \in Nat : k >= 1 => RunOf(2 * k - 1) = k /\ Starts(2 * k - 1)
         /\ \A m \in Nat : m >= n => RunOf(m) >= RunOf(n)
BY DEF RunOf, Starts

LEMMA RunsAre == /\ RunOf(LastHappening) \in Nat
                 /\ \A k \in Runs : k \in Nat /\ k >= 1 /\ 2 * k - 1 <= LastHappening
BY HistoryAssumption DEF Runs, RunOf

\* An event is stamped within its job's time.
LEMMA EventStamps ==
  ASSUME NEW e \in HistoryEvents
  PROVE  /\ RunOf(e.n) \in Runs /\ e.by \in Reporters /\ e.n \in 1 .. LastHappening
         /\ IdOf(e) = IdFor(e.by, RunOf(e.n)) /\ IdOf(e) \in [by : Reporters, run : Runs]
         /\ IdFor(e.by, RunOf(e.n)).by = e.by
         /\ e = Entry(e.by, e.n)
         /\ Starts(e.n) => e.n = 2 * RunOf(e.n) - 1 /\ Stamped(e) = BeginStamp(e.by, RunOf(e.n))
         /\ ~Starts(e.n) => e.n = 2 * RunOf(e.n) /\ Stamped(e) = EndStamp(e.by, RunOf(e.n))
         /\ Stamped(e) \in Int
<1>1. e.by \in Reporters /\ e.n \in 1 .. LastHappening /\ e = Entry(e.by, e.n)
  BY DEF HistoryEvents, Entry
<1>0. e.n \in Nat /\ e.n >= 1
  BY <1>1, HistoryAssumption
<1>2. RunOf(e.n) \in Runs
  BY <1>1, JobNumbers, HistoryAssumption DEF Runs
<1>3. IdOf(e) = IdFor(e.by, RunOf(e.n)) /\ IdFor(e.by, RunOf(e.n)).by = e.by
  BY DEF IdOf, IdFor
<1>4. IdOf(e) \in [by : Reporters, run : Runs]
  BY <1>1, <1>2 DEF IdOf
<1>5. Stamped(e) \in Int
  BY <1>1, HistoryAssumption DEF Stamped
<1>6. CASE Starts(e.n)
  <2>1. e.n = 2 * RunOf(e.n) - 1
    BY <1>0, <1>6, JobNumbers
  <2>2. Stamped(e) = BeginStamp(e.by, RunOf(e.n))
    BY <1>1, <1>2, <1>6, <2>1, RunsAre, HistoryAssumption DEF Stamped, BeginStamp
  <2>. QED BY <1>1, <1>2, <1>3, <1>4, <1>5, <1>6, <2>1, <2>2
<1>7. CASE ~Starts(e.n)
  <2>1. e.n = 2 * RunOf(e.n)
    BY <1>0, <1>7, JobNumbers
  <2>2. Stamped(e) = EndStamp(e.by, RunOf(e.n))
    BY <1>1, <1>2, <1>7, <2>1, RunsAre, HistoryAssumption DEF Stamped, EndStamp
  <2>. QED BY <1>1, <1>2, <1>3, <1>4, <1>5, <1>7, <2>1, <2>2
<1>. QED BY <1>6, <1>7

LEMMA StampsOf ==
  ASSUME NEW b \in Reporters, NEW k \in Nat
  PROVE  /\ BeginStamp(b, k) \in 6 * k - 4 .. 6 * k - 3 /\ EndStamp(b, k) \in 6 * k .. 6 * k + 1
         /\ BeginStamp("worker", k) = 6 * k - 3 /\ EndStamp("worker", k) = 6 * k
BY HistoryAssumption DEF BeginStamp, EndStamp

LEMMA TheReporters ==
  ASSUME NEW b \in Reporters, NEW c \in Reporters, NEW k
  PROVE  /\ b \in {"worker", "forge"}
         /\ IdFor(b, k).by = b /\ IdFor(b, k).run = k
         /\ IdFor(b, k) = IdFor(c, k) => b = c
         /\ BothIds(k) = {IdFor("worker", k), IdFor("forge", k)}
         /\ IdFor("worker", k) # IdFor("forge", k)
<1>1. /\ IdFor(b, k).by = b /\ IdFor(b, k).run = k /\ IdFor(c, k).by = c
      /\ IdFor("worker", k).by = "worker" /\ IdFor("forge", k).by = "forge"
  BY DEF IdFor
<1>. QED BY <1>1 DEF Reporters, BothIds

\* The row of an event is one of the rows, if any.
LEMMA FoundIsARow ==
  ASSUME HistoryTypeOK, NEW e \in HistoryEvents, FindRun(e) # 0
  PROVE  /\ FindRun(e) \in 1 .. Len(runRows)
         /\ \/ IdOf(e) \in runRows[FindRun(e)].ids
            \/ Eligible(runRows[FindRun(e)], e) /\ Fit(runRows[FindRun(e)], e) \in 0 .. 2
<1>. DEFINE known == {i \in 1 .. Len(runRows) : IdOf(e) \in runRows[i].ids}
            fits(g) == {i \in 1 .. Len(runRows) : Eligible(runRows[i], e) /\ Fit(runRows[i], e) = g}
            groups == {g \in 0 .. 2 : fits(g) # {}}
            least == Min(groups)
            best == fits(least)
<1>0. Len(runRows) \in Nat
  BY DEF HistoryTypeOK
<1>1. FindRun(e) = IF known # {} THEN Max(known)
                   ELSE IF groups = {} THEN 0
                   ELSE IF \E i \in best : best = {i} THEN CHOOSE i \in best : TRUE
                   ELSE 0
  BY DEF FindRun
<1>2. CASE known # {}
  <2>1. known \in SUBSET (0 .. Len(runRows))
    BY <1>0
  <2>2. PICK x \in known : \A y \in known : y <= x
    BY ONLY <1>0, <1>2, <2>1, GreatestOf
  <2>3. Max(known) \in known
    <3>. HIDE DEF known
    <3>1. \E z \in known : \A y \in known : z >= y
      BY <1>0, <2>1, <2>2
    <3>. QED BY <3>1 DEF Max
  <2>. QED BY <1>1, <1>2, <2>3
<1>3. CASE known = {} /\ groups # {}
  <2>1. least \in groups
    <3>. HIDE DEF fits
    <3>1. \E x \in groups : \A y \in groups : x <= y
      <4>1. groups \subseteq {0, 1, 2}
        OBVIOUS
      <4>. HIDE DEF groups
      <4>2. 0 \in groups \/ (0 \notin groups /\ 1 \in groups) \/ groups = {2}
        BY <1>3, <4>1
      <4>3. CASE 0 \in groups
        BY <4>1, <4>3
      <4>4. CASE 0 \notin groups /\ 1 \in groups
        BY <4>1, <4>4
      <4>5. CASE groups = {2}
        BY <4>5
      <4>. QED BY <4>2, <4>3, <4>4, <4>5
    <3>. HIDE DEF groups
    <3>. QED BY <3>1 DEF Min
  <2>2. \E i \in best : best = {i}
    BY <1>1, <1>3
  <2>3. FindRun(e) \in best
    <3>. HIDE DEF fits, best
    <3>. QED BY <1>1, <1>3, <2>2
  <2>4. least \in 0 .. 2
    BY <2>1
  <2>. HIDE DEF least
  <2>. QED BY <2>3, <2>4
<1>4. CASE known = {} /\ groups = {}
  BY <1>1, <1>4
<1>. QED BY <1>2, <1>3, <1>4

\* A row that alone knows the event's id is its row; and so is, if none does, the only one that
\* the event fits.
LEMMA KnownIsFound ==
  ASSUME HistoryTypeOK, NEW e \in HistoryEvents, NEW i \in 1 .. Len(runRows),
         IdOf(e) \in runRows[i].ids,
         \A j \in 1 .. Len(runRows) : IdOf(e) \in runRows[j].ids => j = i
  PROVE  FindRun(e) = i
<1>. DEFINE known == {j \in 1 .. Len(runRows) : IdOf(e) \in runRows[j].ids}
<1>1. known = {i}
  OBVIOUS
<1>2. FindRun(e) = Max(known)
  BY <1>1 DEF FindRun
<1>3. Max({i}) = i
  BY DEF Max, HistoryTypeOK
<1>. QED BY <1>1, <1>2, <1>3

LEMMA FittingIsFound ==
  ASSUME HistoryTypeOK, NEW e \in HistoryEvents, NEW i \in 1 .. Len(runRows),
         \A j \in 1 .. Len(runRows) : IdOf(e) \notin runRows[j].ids,
         Eligible(runRows[i], e), Fit(runRows[i], e) \in 0 .. 2,
         \A j \in 1 .. Len(runRows) :
           Eligible(runRows[j], e) /\ Fit(runRows[j], e) \in 0 .. 2 => j = i
  PROVE  FindRun(e) = i
<1>. DEFINE known == {j \in 1 .. Len(runRows) : IdOf(e) \in runRows[j].ids}
            fits(g) == {j \in 1 .. Len(runRows) : Eligible(runRows[j], e) /\ Fit(runRows[j], e) = g}
            groups == {g \in 0 .. 2 : fits(g) # {}}
            rank == Fit(runRows[i], e)
<1>1. known = {}
  OBVIOUS
<1>2. fits(rank) = {i}
  OBVIOUS
<1>3. groups = {rank}
  <2>1. \A g \in 0 .. 2 : fits(g) # {} => g = rank
    OBVIOUS
  <2>. HIDE DEF fits, rank
  <2>2. rank \in 0 .. 2
    BY DEF rank
  <2>. QED BY <1>2, <2>1, <2>2
<1>4. Min({rank}) = rank
  <2>1. rank \in 0 .. 2
    OBVIOUS
  <2>. HIDE DEF rank
  <2>. QED BY <2>1 DEF Min
<1>5. FindRun(e) = IF known # {} THEN Max(known)
                   ELSE IF groups = {} THEN 0
                   ELSE IF \E j \in fits(Min(groups)) : fits(Min(groups)) = {j}
                        THEN CHOOSE j \in fits(Min(groups)) : TRUE
                   ELSE 0
  BY DEF FindRun
<1>. HIDE DEF known, fits, groups, rank
<1>6. fits(Min(groups)) = {i}
  BY <1>2, <1>3, <1>4
<1>. QED BY <1>1, <1>3, <1>5, <1>6

-----------------------------------------------------------------------------

\* What a row becomes is a row.
LEMMA WrittenIs ==
  ASSUME NEW row \in HistoryRows, NEW e \in HistoryEvents
  PROVE  /\ Written(row, e) \in HistoryRows
         /\ Written(row, e).ids = row.ids \cup {IdOf(e)}
         /\ Written(row, e).of = row.of \cup {RunOf(e.n)}
         /\ Written(row, e).start = row.start
         /\ LET known == /\ Written(row, e).end = row.end /\ Written(row, e).at = row.at
                         /\ Written(row, e).result = row.result
            IN  \/ known /\ Written(row, e).source = row.source /\ e.by = "worker"
                   /\ \/ Stamped(e) < row.at
                      \/ row.end # 0
                \/ known /\ Written(row, e).source = e.by /\ row.end # 0 /\ Starts(e.n)
                \/ /\ Starts(e.n) /\ row.end = 0
                   /\ Written(row, e).end = 0 /\ Written(row, e).at = Stamped(e)
                   /\ Written(row, e).result = row.result /\ Written(row, e).source = e.by
                \/ /\ ~Starts(e.n) /\ ~(e.by = "worker" /\ Stamped(e) < row.at)
                   /\ Written(row, e).end = Stamped(e) /\ Written(row, e).at = Stamped(e)
                   /\ Written(row, e).result = ResultOf(e) /\ Written(row, e).source = e.by
<1>. DEFINE known == [row EXCEPT !.ids = @ \cup {IdOf(e)}, !.of = @ \cup {RunOf(e.n)}]
            dated == [known EXCEPT !.source = e.by, !.at = Stamped(e)]
            late == \/ e.by = "worker" /\ Stamped(e) < row.at
                    \/ e.by = "worker" /\ row.source = "forge" /\ row.end # 0
<1>0. /\ RunOf(e.n) \in Runs /\ e.by \in Reporters /\ Stamped(e) \in Int
      /\ IdOf(e) \in [by : Reporters, run : Runs] /\ e.by \in {"worker", "forge"}
      /\ "forge" \in Reporters
  BY EventStamps DEF Reporters
<1>1. /\ known \in HistoryRows
      /\ known.ids = row.ids \cup {IdOf(e)} /\ known.of = row.of \cup {RunOf(e.n)}
      /\ known.start = row.start /\ known.end = row.end /\ known.at = row.at
      /\ known.result = row.result /\ known.source = row.source
  BY <1>0 DEF HistoryRows
<1>2. Written(row, e) = IF late THEN known
                        ELSE IF Starts(e.n) /\ row.end # 0
                        THEN IF e.by = "forge" THEN [known EXCEPT !.source = "forge"] ELSE known
                        ELSE Ended(dated, e)
  BY DEF Written
<1>. HIDE DEF known
<1>3. /\ dated \in HistoryRows
      /\ dated.ids = known.ids /\ dated.of = known.of /\ dated.start = known.start
      /\ dated.end = known.end /\ dated.result = known.result
      /\ dated.at = Stamped(e) /\ dated.source = e.by
  BY <1>0, <1>1 DEF HistoryRows
<1>4. CASE late
  BY <1>1, <1>2, <1>4
<1>5. CASE ~late /\ Starts(e.n) /\ row.end # 0 /\ e.by = "forge"
  <2>1. Written(row, e) = [known EXCEPT !.source = "forge"]
    BY <1>2, <1>5
  <2>2. /\ Written(row, e) \in HistoryRows
        /\ Written(row, e).ids = known.ids /\ Written(row, e).of = known.of
        /\ Written(row, e).start = known.start
        /\ Written(row, e).end = known.end /\ Written(row, e).at = known.at
        /\ Written(row, e).result = known.result /\ Written(row, e).source = "forge"
    BY <1>0, <1>1, <2>1 DEF HistoryRows
  <2>. QED BY <1>1, <1>5, <2>2
<1>6. CASE ~late /\ Starts(e.n) /\ row.end # 0 /\ e.by # "forge"
  BY <1>0, <1>1, <1>2, <1>6
<1>7. CASE ~late /\ Starts(e.n) /\ row.end = 0
  <2>1. Written(row, e) = dated
    BY <1>2, <1>7 DEF Ended
  <2>. QED BY <1>1, <1>3, <1>7, <2>1
<1>8. CASE ~late /\ ~Starts(e.n)
  <2>. HIDE DEF dated
  <2>1. Written(row, e) = [dated EXCEPT !.end = Stamped(e), !.result = ResultOf(e)]
    BY <1>2, <1>8 DEF Ended
  <2>2. ResultOf(e) \in {UnknownResult, 0} \cup Runs
    BY <1>0 DEF ResultOf
  <2>3. /\ Written(row, e) \in HistoryRows
        /\ Written(row, e).ids = dated.ids /\ Written(row, e).of = dated.of
        /\ Written(row, e).start = dated.start
        /\ Written(row, e).end = Stamped(e) /\ Written(row, e).at = dated.at
        /\ Written(row, e).result = ResultOf(e) /\ Written(row, e).source = dated.source
    BY <1>0, <1>3, <2>1, <2>2 DEF HistoryRows
  <2>. QED BY <1>1, <1>3, <1>8, <2>3
<1>. QED BY <1>4, <1>5, <1>6, <1>7, <1>8

LEMMA NewRowIs ==
  ASSUME NEW e \in HistoryEvents
  PROVE  /\ NewRow(e) \in HistoryRows
         /\ NewRow(e).ids = {IdOf(e)} /\ NewRow(e).of = {RunOf(e.n)} /\ NewRow(e).source = e.by
         /\ NewRow(e).start = Stamped(e) /\ NewRow(e).at = Stamped(e)
         /\ NewRow(e).end = (IF Starts(e.n) THEN 0 ELSE Stamped(e))
         /\ NewRow(e).result = (IF Starts(e.n) THEN 0 ELSE ResultOf(e))
<1>. DEFINE fresh == [ids |-> {IdOf(e)}, source |-> e.by, at |-> Stamped(e), start |-> Stamped(e),
                      end |-> 0, result |-> 0, of |-> {RunOf(e.n)}]
<1>0. /\ RunOf(e.n) \in Runs /\ e.by \in Reporters /\ Stamped(e) \in Int
      /\ IdOf(e) \in [by : Reporters, run : Runs]
  BY EventStamps
<1>1. fresh \in HistoryRows
  BY <1>0 DEF HistoryRows
<1>2. CASE Starts(e.n)
  BY <1>1, <1>2 DEF NewRow, Ended
<1>3. CASE ~Starts(e.n)
  <2>1. NewRow(e) = [fresh EXCEPT !.end = Stamped(e), !.result = ResultOf(e)]
    BY <1>3 DEF NewRow, Ended
  <2>2. ResultOf(e) \in {UnknownResult, 0} \cup Runs
    BY <1>0 DEF ResultOf
  <2>3. NewRow(e) \in HistoryRows
    <3>. HIDE DEF fresh
    <3>. QED BY <1>0, <1>1, <2>1, <2>2 DEF HistoryRows
  <2>4. /\ NewRow(e).ids = {IdOf(e)} /\ NewRow(e).of = {RunOf(e.n)} /\ NewRow(e).source = e.by
        /\ NewRow(e).start = Stamped(e) /\ NewRow(e).at = Stamped(e)
        /\ NewRow(e).end = Stamped(e) /\ NewRow(e).result = ResultOf(e)
    BY <2>1
  <2>. QED BY <1>3, <2>3, <2>4
<1>. QED BY <1>2, <1>3

\* What a step of the projection does to the rows.
LEMMA ProjectIs ==
  ASSUME HistoryTypeOK, Project
  PROVE  LET e == entered[cursor + 1]
             i == FindRun(e)
         IN  /\ e \in HistoryEvents /\ cursor + 1 \in 1 .. Len(entered)
             /\ cursor' = cursor + 1 /\ cursor' \in 0 .. Len(entered)
             /\ runRows' \in Seq(HistoryRows)
             /\ i = 0 => /\ runRows' = Append(runRows, NewRow(e))
                         /\ Len(runRows') = Len(runRows) + 1
                         /\ runRows'[Len(runRows) + 1] = NewRow(e)
                         /\ \A j \in 1 .. Len(runRows) : runRows'[j] = runRows[j]
             /\ i # 0 => /\ i \in 1 .. Len(runRows) /\ Len(runRows') = Len(runRows)
                         /\ runRows'[i] = Written(runRows[i], e)
                         /\ \A j \in 1 .. Len(runRows) : j # i => runRows'[j] = runRows[j]
<1>. DEFINE e == entered[cursor + 1]
            i == FindRun(e)
<1>0. /\ runRows \in Seq(HistoryRows) /\ entered \in Seq(HistoryEvents)
      /\ cursor \in 0 .. Len(entered) /\ Len(entered) \in Nat /\ Len(runRows) \in Nat
      /\ cursor < Len(entered)
  BY DEF HistoryTypeOK, HistoryRows, HistoryEvents, Project
<1>1. cursor + 1 \in 1 .. Len(entered) /\ e \in HistoryEvents
  BY <1>0
<1>2. cursor' = cursor + 1 /\ cursor' \in 0 .. Len(entered)
  BY <1>0 DEF Project
<1>3. runRows' = IF i = 0 THEN Append(runRows, NewRow(e))
                 ELSE [runRows EXCEPT ![i] = Written(@, e)]
  BY DEF Project
<1>. HIDE DEF e, i
<1>4. CASE i = 0
  <2>1. NewRow(e) \in HistoryRows
    BY <1>1, NewRowIs
  <2>2. runRows' = Append(runRows, NewRow(e))
    BY <1>3, <1>4
  <2>3. /\ runRows' \in Seq(HistoryRows) /\ Len(runRows') = Len(runRows) + 1
        /\ runRows'[Len(runRows) + 1] = NewRow(e)
        /\ \A j \in 1 .. Len(runRows) : runRows'[j] = runRows[j]
    BY <1>0, <2>1, <2>2
  <2>. QED BY <1>1, <1>2, <1>4, <2>2, <2>3 DEF e, i
<1>5. CASE i # 0
  <2>1. i \in 1 .. Len(runRows)
    BY <1>1, <1>5, FoundIsARow DEF i
  <2>2. Written(runRows[i], e) \in HistoryRows
    <3>1. runRows[i] \in HistoryRows
      BY <1>0, <2>1
    <3>. QED BY <1>1, <3>1, WrittenIs
  <2>3. runRows' = [runRows EXCEPT ![i] = Written(runRows[i], e)]
    BY <1>3, <1>5
  <2>4. /\ runRows' \in Seq(HistoryRows) /\ Len(runRows') = Len(runRows)
        /\ runRows'[i] = Written(runRows[i], e)
        /\ \A j \in 1 .. Len(runRows) : j # i => runRows'[j] = runRows[j]
    BY <1>0, <2>1, <2>2, <2>3
  <2>. QED BY <1>1, <1>2, <1>5, <2>1, <2>4 DEF e, i
<1>. QED BY <1>4, <1>5

\* Of the jobs that began, the forge's closest to a row is the row's own.
LEMMA ClosestIsOwn ==
  ASSUME happenings \in 0 .. LastHappening, NEW k \in Runs, 2 * k - 1 <= happenings,
         NEW b \in Reporters
  PROVE  Closest(BeginStamp(b, k)) = k
<1>. DEFINE begun == {m \in Runs : 2 * m - 1 <= happenings}
            off(m) == LET d == Stamped([by |-> "forge", n |-> 2 * m - 1]) - BeginStamp(b, k)
                      IN  IF d < 0 THEN 0 - d ELSE d
<1>1. Closest(BeginStamp(b, k)) = CHOOSE m \in begun : \A other \in begun : off(m) <= off(other)
  BY DEF Closest
<1>2. \A m \in Runs : Stamped([by |-> "forge", n |-> 2 * m - 1]) = 6 * m - 3 - Leads
  BY RunsAre, HistoryAssumption DEF Stamped, Starts
<1>3. k \in begun /\ k \in Nat
  BY RunsAre
<1>4. BeginStamp(b, k) \in 6 * k - 3 - Leads .. 6 * k - 3
  BY RunsAre, HistoryAssumption DEF BeginStamp
<1>5. ASSUME NEW m \in begun PROVE m \in Nat /\ off(m) \in Nat
  <2>1. m \in Runs /\ m \in Nat /\ k \in Nat /\ Leads \in {0, 1}
    BY RunsAre, HistoryAssumption
  <2>2. off(m) = LET d == 6 * m - 3 - Leads - BeginStamp(b, k) IN IF d < 0 THEN 0 - d ELSE d
    BY <1>2, <2>1
  <2>3. BeginStamp(b, k) \in Int
    BY <1>4, <2>1
  <2>. QED BY <2>1, <2>2, <2>3
<1>6. off(k) <= 1
  BY <1>2, <1>4, RunsAre, HistoryAssumption
<1>7. \A m \in begun : m # k => off(m) > 1
  BY <1>2, <1>4, RunsAre, HistoryAssumption
<1>. HIDE DEF begun, off
<1>8. \A m \in begun : (\A other \in begun : off(m) <= off(other)) => m = k
  BY <1>3, <1>5, <1>6, <1>7
<1>9. \A other \in begun : off(k) <= off(other)
  BY <1>3, <1>5, <1>6, <1>7
<1>. QED BY <1>1, <1>3, <1>8, <1>9

\* It is some job's number in any case, of a row that has begun.
LEMMA ClosestIsARun ==
  ASSUME HistoryTypeOK, NEW start \in Int, happenings >= 1
  PROVE  Closest(start) \in Runs /\ 2 * Closest(start) - 1 <= happenings
<1>. DEFINE begun == {m \in Runs : 2 * m - 1 <= happenings}
            off(m) == LET d == Stamped([by |-> "forge", n |-> 2 * m - 1]) - start
                      IN  IF d < 0 THEN 0 - d ELSE d
            offs == {off(m) : m \in begun}
<1>1. Closest(start) = CHOOSE m \in begun : \A other \in begun : off(m) <= off(other)
  BY DEF Closest
<1>2. ASSUME NEW m \in begun PROVE off(m) \in Nat
  <2>1. m \in Nat /\ m >= 1 /\ Leads \in {0, 1}
    BY RunsAre, HistoryAssumption
  <2>2. Stamped([by |-> "forge", n |-> 2 * m - 1]) = 6 * m - 3 - Leads
    BY <2>1 DEF Stamped, Starts
  <2>3. off(m) = LET d == 6 * m - 3 - Leads - start IN IF d < 0 THEN 0 - d ELSE d
    BY <2>2
  <2>. QED BY <2>1, <2>3
<1>3. 1 \in begun
  BY HistoryAssumption DEF HistoryTypeOK, Runs, RunOf
<1>4. \E m \in begun : \A other \in begun : off(m) <= off(other)
  <2>. HIDE DEF begun, off
  <2>1. offs \in SUBSET Nat /\ offs # {}
    BY <1>2, <1>3
  <2>2. \E x \in offs : \A y \in offs : ~(<<y, x>> \in OpToRel(<, Nat))
    BY <2>1, NatLessThanWellFounded, WFMin
  <2>3. PICK x \in offs : \A y \in offs : ~(<<y, x>> \in OpToRel(<, Nat))
    BY <2>2
  <2>4. \A y \in offs : ~(y < x)
    BY <2>1, <2>3 DEF OpToRel
  <2>5. PICK m \in begun : x = off(m)
    BY <2>3
  <2>6. \A other \in begun : off(other) \in offs
    OBVIOUS
  <2>. HIDE DEF offs
  <2>7. \A other \in begun : off(m) <= off(other)
    BY <1>2, <2>4, <2>5, <2>6
  <2>. QED BY <2>7
<1>5. Closest(start) \in begun
  <2>. HIDE DEF begun, off
  <2>. QED BY <1>1, <1>4
<1>. QED BY <1>5

-----------------------------------------------------------------------------

LEMMA RowTypes ==
  ASSUME HistoryTypeOK
  PROVE  /\ runRows \in Seq(HistoryRows) /\ entered \in Seq(HistoryEvents)
         /\ cursor \in 0 .. Len(entered) /\ Len(entered) \in Nat /\ Len(runRows) \in Nat
         /\ happenings \in 0 .. LastHappening /\ LastHappening \in Nat
         /\ toPost \in Seq(1 .. LastHappening) /\ Len(toPost) \in Nat
         /\ \A i \in 1 .. Len(runRows) : runRows[i] \in HistoryRows
         /\ \A i \in 1 .. Len(entered) :
              /\ entered[i] \in HistoryEvents /\ entered[i].n \in 1 .. LastHappening
              /\ entered[i].by \in Reporters
<1>1. /\ runRows \in Seq(HistoryRows) /\ entered \in Seq(HistoryEvents)
      /\ cursor \in 0 .. Len(entered)
      /\ happenings \in 0 .. LastHappening /\ toPost \in Seq(1 .. LastHappening)
  BY DEF HistoryTypeOK, HistoryRows, HistoryEvents
<1>2. /\ Len(entered) \in Nat /\ Len(runRows) \in Nat /\ Len(toPost) \in Nat
      /\ \A i \in 1 .. Len(runRows) : runRows[i] \in HistoryRows
      /\ \A i \in 1 .. Len(entered) : entered[i] \in HistoryEvents
  BY <1>1
<1>3. \A e \in HistoryEvents : e.n \in 1 .. LastHappening /\ e.by \in Reporters
  BY DEF HistoryEvents
<1>. QED BY <1>1, <1>2, <1>3, HistoryAssumption

LEMMA OneLonger ==
  ASSUME NEW N \in Nat
  PROVE  \A i \in 1 .. N + 1 : i = N + 1 \/ i \in 1 .. N
OBVIOUS

LEMMA HistoryBegins == HistoryInit => ReportsInv
<1>. SUFFICES ASSUME HistoryInit PROVE ReportsInv
  OBVIOUS
<1>1. Len(entered) = 0 /\ Len(toPost) = 0 /\ Len(runRows) = 0 /\ 0 .. 0 = {0}
  BY DEF HistoryInit
<1>2. HistoryTypeOK
  <2>1. happenings \in 0 .. LastHappening /\ historyFaults \in 0 .. MaxHistoryFaults
    BY HistoryAssumption DEF HistoryInit
  <2>2. told \in [row : Nat, result : {UnknownResult, 0} \cup Runs, at : Int]
    BY DEF HistoryInit, NotTold
  <2>3. /\ toPost \in Seq(1 .. LastHappening)
        /\ entered \in Seq([by : Reporters, n : 1 .. LastHappening])
        /\ runRows \in Seq([ids : SUBSET [by : Reporters, run : Runs], source : Reporters,
              at : Int, start : Int, end : Int, result : {UnknownResult, 0} \cup Runs,
              of : SUBSET Runs])
    BY DEF HistoryInit
  <2>4. /\ cursor \in 0 .. Len(entered) /\ deliveries \subseteq 1 .. LastHappening
        /\ collector \in {"reads", "works", "waits"} /\ noticed \in BOOLEAN
        /\ forgotten \in BOOLEAN /\ said \subseteq [row : Nat, result : {UnknownResult} \cup Runs]
    BY <1>1 DEF HistoryInit
  <2>. QED BY <2>1, <2>2, <2>3, <2>4 DEF HistoryTypeOK
<1>3. 1 .. 0 = {}
  OBVIOUS
<1>4. PostedInOrder /\ DeliveredOnce
  BY <1>1, <1>3 DEF HistoryInit, PostedInOrder, DeliveredOnce
<1>5. EnteredAfter /\ NoneTwice /\ WorkerInOrder
  BY <1>1, <1>3 DEF EnteredAfter, NoneTwice, WorkerInOrder
<1>6. AllPosted
  BY <1>1, <1>3 DEF HistoryInit, AllPosted
<1>. QED BY <1>1, <1>2, <1>4, <1>5, <1>6 DEF ReportsInv, BegunFirst

\* The types, when rows and answers are left alone.
LEMMA HistoryTypesKept ==
  ASSUME HistoryTypeOK,
         happenings' \in 0 .. LastHappening, toPost' \in Seq(1 .. LastHappening),
         deliveries' \subseteq 1 .. LastHappening, entered' \in Seq(HistoryEvents),
         cursor' \in 0 .. Len(entered'), collector' \in {"reads", "works", "waits"},
         noticed' \in BOOLEAN, forgotten' \in BOOLEAN, historyFaults' \in 0 .. MaxHistoryFaults,
         runRows' \in Seq(HistoryRows),
         told' \in [row : Nat, result : {UnknownResult, 0} \cup Runs, at : Int],
         said' \subseteq [row : Nat, result : {UnknownResult} \cup Runs]
  PROVE  HistoryTypeOK'
BY DEF HistoryTypeOK, HistoryRows, HistoryEvents

reportVars == <<happenings, toPost, deliveries, entered>>

\* What nothing is reported in keeps the reports.
LEMMA ReportsStay ==
  ASSUME ReportsInv, HistoryTypeOK', UNCHANGED reportVars,
         Len(runRows') > 0 => Len(runRows) > 0 \/ happenings >= 1
  PROVE  ReportsInv'
BY DEF ReportsInv, reportVars, PostedInOrder, DeliveredOnce, EnteredAfter, NoneTwice,
       WorkerInOrder, AllPosted, BegunFirst

LEMMA HappenReports ==
  ASSUME ReportsInv, Happen
  PROVE  ReportsInv'
<1>. DEFINE h == happenings + 1
<1>0. HistoryTypeOK
  BY DEF ReportsInv
<1>1. /\ happenings' = h /\ toPost' = Append(toPost, h) /\ deliveries' = deliveries \cup {h}
      /\ h \in 1 .. LastHappening
      /\ UNCHANGED <<entered, cursor, collector, noticed, runRows, told, forgotten, said, historyFaults>>
  BY <1>0, RowTypes DEF Happen
<1>2. /\ toPost' \in Seq(1 .. LastHappening) /\ Len(toPost') = Len(toPost) + 1
      /\ toPost'[Len(toPost) + 1] = h /\ \A i \in 1 .. Len(toPost) : toPost'[i] = toPost[i]
  BY <1>0, <1>1, RowTypes
<1>3. HistoryTypeOK'
  <2>1. deliveries' \subseteq 1 .. LastHappening /\ happenings' \in 0 .. LastHappening
    BY <1>0, <1>1, RowTypes DEF HistoryTypeOK
  <2>. QED BY <1>0, <1>1, <1>2, <2>1 DEF HistoryTypeOK
<1>t. /\ Len(entered) \in Nat /\ Len(toPost) \in Nat /\ happenings \in Nat
      /\ LastHappening \in Nat /\ Len(toPost) <= happenings
      /\ \A i \in 1 .. Len(entered) : entered[i].n \in Nat /\ entered[i].n >= 1
  <2>1. Len(toPost) <= happenings
    BY DEF ReportsInv, PostedInOrder
  <2>2. /\ Len(entered) \in Nat /\ Len(toPost) \in Nat /\ happenings \in Nat
        /\ LastHappening \in Nat
    BY <1>0, RowTypes
  <2>3. \A i \in 1 .. Len(entered) : entered[i].n \in 1 .. LastHappening
    BY <1>0, RowTypes
  <2>. QED BY <2>1, <2>2, <2>3
<1>. USE <1>t
<1>4. PostedInOrder'
  <2>1. Len(toPost) <= happenings /\ \A i \in 1 .. Len(toPost) : toPost[i] = happenings - Len(toPost) + i
    BY DEF ReportsInv, PostedInOrder
  <2>2. ASSUME NEW i \in 1 .. Len(toPost')
        PROVE  toPost'[i] = happenings' - Len(toPost') + i
    <3>1. CASE i = Len(toPost) + 1
      BY <1>1, <1>2, <3>1
    <3>2. CASE i \in 1 .. Len(toPost)
      BY <1>1, <1>2, <2>1, <3>2
    <3>. QED BY <1>2, <2>2, <3>1, <3>2
  <2>. QED BY <1>1, <1>2, <2>1, <2>2 DEF PostedInOrder
<1>5. DeliveredOnce' /\ EnteredAfter'
  <2>1. \A i \in 1 .. Len(entered) : entered[i].n <= happenings
    BY DEF ReportsInv, EnteredAfter
  <2>2. deliveries \subseteq 1 .. happenings
        /\ \A i \in 1 .. Len(entered) : entered[i].by = "forge" => entered[i].n \notin deliveries
    BY DEF ReportsInv, DeliveredOnce
  <2>3. happenings' - Len(toPost') = happenings - Len(toPost)
    BY <1>1, <1>2
  <2>4. DeliveredOnce'
    <3>1. deliveries' \subseteq 1 .. happenings'
      BY <1>1, <2>2
    <3>2. \A i \in 1 .. Len(entered) : entered[i].n # h
      BY <2>1
    <3>. QED BY <1>1, <2>2, <3>1, <3>2 DEF DeliveredOnce
  <2>5. EnteredAfter'
    BY <1>1, <2>1, <2>3 DEF ReportsInv, EnteredAfter
  <2>. QED BY <2>4, <2>5
<1>6. AllPosted'
  <2>1. happenings' - Len(toPost') = happenings - Len(toPost)
    BY <1>1, <1>2
  <2>. QED BY <1>1, <2>1 DEF ReportsInv, AllPosted
<1>7. BegunFirst'
  BY <1>1 DEF BegunFirst
<1>. QED BY <1>1, <1>3, <1>4, <1>5, <1>6, <1>7 DEF ReportsInv, NoneTwice, WorkerInOrder

LEMMA EnterIs ==
  ASSUME HistoryTypeOK, NEW e \in HistoryEvents, Enter(e)
  PROVE  /\ entered' \in Seq(HistoryEvents) /\ Len(entered') = Len(entered) + 1
         /\ entered'[Len(entered) + 1] = e
         /\ \A i \in 1 .. Len(entered) : entered'[i] = entered[i]
BY RowTypes DEF Enter

LEMMA PostedReports ==
  ASSUME ReportsInv, Posted
  PROVE  ReportsInv'
<1>. DEFINE e == [by |-> "worker", n |-> Head(toPost)]
            posted == happenings - Len(toPost)
<1>0. HistoryTypeOK
  BY DEF ReportsInv
<1>t. /\ Len(entered) \in Nat /\ Len(toPost) \in Nat /\ happenings \in Nat
      /\ LastHappening \in Nat /\ Len(toPost) <= happenings
      /\ \A i \in 1 .. Len(entered) : entered[i].n \in Nat /\ entered[i].n >= 1
  <2>1. Len(toPost) <= happenings
    BY DEF ReportsInv, PostedInOrder
  <2>2. /\ Len(entered) \in Nat /\ Len(toPost) \in Nat /\ happenings \in Nat
        /\ LastHappening \in Nat
    BY <1>0, RowTypes
  <2>3. \A i \in 1 .. Len(entered) : entered[i].n \in 1 .. LastHappening
    BY <1>0, RowTypes
  <2>. QED BY <2>1, <2>2, <2>3
<1>. USE <1>t
<1>1. /\ Len(toPost) >= 1 /\ Head(toPost) \in 1 .. LastHappening /\ e \in HistoryEvents
      /\ Head(toPost) = posted + 1 /\ posted \in Nat
  <2>1. Len(toPost) >= 1 /\ Head(toPost) = toPost[1]
    BY DEF Posted
  <2>2. Head(toPost) \in 1 .. LastHappening
    BY <1>0, <2>1, RowTypes
  <2>3. Head(toPost) = posted + 1 /\ posted \in Nat
    BY <2>1 DEF ReportsInv, PostedInOrder
  <2>4. e \in HistoryEvents
    BY <2>2 DEF HistoryEvents, Reporters
  <2>. QED BY <2>1, <2>2, <2>3, <2>4
<1>2. /\ Enter(e) /\ UNCHANGED deliveries
      /\ UNCHANGED <<happenings, cursor, collector, runRows, told, forgotten, said, historyFaults>>
      /\ noticed' = TRUE
  BY DEF Posted, Enter
<1>3. /\ toPost' \in Seq(1 .. LastHappening) /\ Len(toPost') = Len(toPost) - 1
      /\ \A i \in 1 .. Len(toPost') : toPost'[i] = toPost[i + 1]
  BY <1>0, <1>1, RowTypes DEF Posted
<1>4. /\ entered' \in Seq(HistoryEvents) /\ Len(entered') = Len(entered) + 1
      /\ entered'[Len(entered) + 1] = e
      /\ \A i \in 1 .. Len(entered) : entered'[i] = entered[i]
  BY <1>0, <1>1, <1>2, EnterIs
<1>5. e.by = "worker" /\ e.n = posted + 1 /\ e = Entry("worker", posted + 1)
  BY <1>1 DEF Entry
<1>. HIDE DEF e
<1>6. HistoryTypeOK'
  <2>1. cursor' \in 0 .. Len(entered')
    BY <1>0, <1>2, <1>4 DEF HistoryTypeOK
  <2>. QED BY <1>0, <1>2, <1>3, <1>4, <2>1 DEF HistoryTypeOK, HistoryEvents
<1>7. PostedInOrder'
  <2>1. \A i \in 1 .. Len(toPost) : toPost[i] = happenings - Len(toPost) + i
    BY DEF ReportsInv, PostedInOrder
  <2>2. ASSUME NEW i \in 1 .. Len(toPost')
        PROVE  toPost'[i] = happenings - Len(toPost') + i
    <3>1. i + 1 \in 1 .. Len(toPost) /\ toPost'[i] = toPost[i + 1]
      BY <1>1, <1>3
    <3>2. toPost[i + 1] = happenings - Len(toPost) + (i + 1)
      BY <2>1, <3>1
    <3>. QED BY <1>3, <3>1, <3>2
  <2>3. Len(toPost') <= happenings
    BY <1>3
  <2>. QED BY <1>2, <2>2, <2>3 DEF PostedInOrder
<1>8. DeliveredOnce'
  <2>1. ASSUME NEW i \in 1 .. Len(entered'), entered'[i].by = "forge"
        PROVE  entered'[i].n \notin deliveries
    <3>1. i # Len(entered) + 1
      BY <1>4, <1>5, <2>1
    <3>2. i \in 1 .. Len(entered)
      BY <1>4, <3>1
    <3>3. entered'[i] = entered[i]
      BY <1>4, <3>2
    <3>. QED BY <2>1, <3>2, <3>3 DEF ReportsInv, DeliveredOnce
  <2>. QED BY <1>2, <2>1 DEF ReportsInv, DeliveredOnce
<1>9. EnteredAfter'
  <2>1. ASSUME NEW i \in 1 .. Len(entered')
        PROVE  /\ entered'[i].n <= happenings
               /\ entered'[i].by = "worker" => entered'[i].n <= posted + 1
    <3>1. CASE i = Len(entered) + 1
      BY <1>1, <1>4, <1>5, <3>1
    <3>2. CASE i \in 1 .. Len(entered)
      <4>1. entered'[i] = entered[i] /\ entered[i].n \in Nat
        BY <1>4, <3>2
      <4>2. entered[i].n <= happenings /\ (entered[i].by = "worker" => entered[i].n <= posted)
        BY <3>2 DEF ReportsInv, EnteredAfter
      <4>. QED BY <1>1, <4>1, <4>2
    <3>. QED BY <1>4, <2>1, <3>1, <3>2
  <2>2. happenings' - Len(toPost') = posted + 1
    BY <1>2, <1>3
  <2>. QED BY <1>2, <2>1, <2>2 DEF EnteredAfter
<1>10. \A i \in 1 .. Len(entered) : entered[i] # e
  <2>1. \A i \in 1 .. Len(entered) : entered[i].by = "worker" => entered[i].n <= posted
    BY DEF ReportsInv, EnteredAfter
  <2>. QED BY <1>1, <1>5, <2>1
<1>11. NoneTwice'
  <2>1. ASSUME NEW i \in 1 .. Len(entered'), NEW j \in 1 .. Len(entered'),
               entered'[i] = entered'[j]
        PROVE  i = j
    <3>1. /\ i \in 1 .. Len(entered) \/ i = Len(entered) + 1
          /\ j \in 1 .. Len(entered) \/ j = Len(entered) + 1
      BY <1>4
    <3>2. CASE i \in 1 .. Len(entered) /\ j \in 1 .. Len(entered)
      <4>1. entered[i] = entered[j]
        BY <1>4, <2>1, <3>2
      <4>. QED BY <3>2, <4>1 DEF ReportsInv, NoneTwice
    <3>3. CASE i = Len(entered) + 1 /\ j \in 1 .. Len(entered)
      <4>1. entered[j] = e
        BY <1>4, <2>1, <3>3
      <4>. QED BY <1>10, <3>3, <4>1
    <3>4. CASE j = Len(entered) + 1 /\ i \in 1 .. Len(entered)
      <4>1. entered[i] = e
        BY <1>4, <2>1, <3>4
      <4>. QED BY <1>10, <3>4, <4>1
    <3>. QED BY <3>1, <3>2, <3>3, <3>4
  <2>. QED BY <2>1 DEF NoneTwice
<1>12. WorkerInOrder'
  <2>1. ASSUME NEW i \in 1 .. Len(entered'), entered'[i].by = "worker",
               NEW n \in 1 .. entered'[i].n - 1
        PROVE  \E j \in 1 .. i - 1 : entered'[j] = Entry("worker", n)
    <3>1. CASE i = Len(entered) + 1
      <4>1. n \in 1 .. posted
        BY <1>1, <1>4, <1>5, <2>1, <3>1
      <4>2. PICK j \in 1 .. Len(entered) : entered[j] = Entry("worker", n)
        BY <4>1 DEF ReportsInv, AllPosted
      <4>3. j \in 1 .. i - 1 /\ entered'[j] = Entry("worker", n)
        BY <1>4, <3>1, <4>2
      <4>. QED BY <4>3
    <3>2. CASE i \in 1 .. Len(entered)
      <4>1. entered'[i] = entered[i]
        BY <1>4, <3>2
      <4>2. PICK j \in 1 .. i - 1 : entered[j] = Entry("worker", n)
        BY <2>1, <3>2, <4>1 DEF ReportsInv, WorkerInOrder
      <4>3. j \in 1 .. Len(entered)
        BY <3>2
      <4>4. entered'[j] = entered[j]
        BY <1>4, <4>3
      <4>5. j \in 1 .. i - 1
        OBVIOUS
      <4>. QED BY <4>2, <4>4, <4>5
    <3>. QED BY <1>4, <2>1, <3>1, <3>2
  <2>. QED BY <2>1 DEF WorkerInOrder
<1>13. AllPosted'
  <2>1. ASSUME NEW n \in 1 .. posted + 1
        PROVE  \E j \in 1 .. Len(entered') : entered'[j] = Entry("worker", n)
    <3>1. CASE n = posted + 1
      <4>1. Len(entered) + 1 \in 1 .. Len(entered')
        BY <1>4
      <4>2. entered'[Len(entered) + 1] = Entry("worker", n)
        BY <1>4, <1>5, <3>1
      <4>. QED BY <4>1, <4>2
    <3>2. CASE n \in 1 .. posted
      <4>1. PICK j \in 1 .. Len(entered) : entered[j] = Entry("worker", n)
        BY <3>2 DEF ReportsInv, AllPosted
      <4>2. j \in 1 .. Len(entered') /\ entered'[j] = entered[j]
        BY <1>4
      <4>. QED BY <4>1, <4>2
    <3>. QED BY <1>1, <2>1, <3>1, <3>2
  <2>2. happenings' - Len(toPost') = posted + 1
    BY <1>2, <1>3
  <2>. QED BY <2>1, <2>2 DEF AllPosted
<1>14. BegunFirst'
  BY <1>2 DEF ReportsInv, BegunFirst
<1>. QED BY <1>6, <1>7, <1>8, <1>9, <1>11, <1>12, <1>13, <1>14 DEF ReportsInv

LEMMA DeliveredReports ==
  ASSUME ReportsInv, NEW n \in deliveries, Delivered(n)
  PROVE  ReportsInv'
<1>. DEFINE e == [by |-> "forge", n |-> n]
<1>0. HistoryTypeOK
  BY DEF ReportsInv
<1>t. /\ Len(entered) \in Nat /\ Len(toPost) \in Nat /\ happenings \in Nat
      /\ LastHappening \in Nat /\ Len(toPost) <= happenings
      /\ \A i \in 1 .. Len(entered) : entered[i].n \in Nat /\ entered[i].n >= 1
  <2>1. Len(toPost) <= happenings
    BY DEF ReportsInv, PostedInOrder
  <2>2. /\ Len(entered) \in Nat /\ Len(toPost) \in Nat /\ happenings \in Nat
        /\ LastHappening \in Nat
    BY <1>0, RowTypes
  <2>3. \A i \in 1 .. Len(entered) : entered[i].n \in 1 .. LastHappening
    BY <1>0, RowTypes
  <2>. QED BY <2>1, <2>2, <2>3
<1>. USE <1>t
<1>1. n \in 1 .. LastHappening /\ n <= happenings /\ e \in HistoryEvents
  <2>1. n \in 1 .. happenings
    BY DEF ReportsInv, DeliveredOnce
  <2>2. n \in 1 .. LastHappening
    BY <1>0 DEF HistoryTypeOK
  <2>. QED BY <2>1, <2>2 DEF HistoryEvents, Reporters
<1>2. /\ Enter(e) /\ UNCHANGED toPost /\ deliveries' = deliveries \ {n}
      /\ UNCHANGED <<happenings, cursor, collector, runRows, told, forgotten, said, historyFaults>>
      /\ noticed' = TRUE
  BY DEF Delivered, Enter
<1>4. /\ entered' \in Seq(HistoryEvents) /\ Len(entered') = Len(entered) + 1
      /\ entered'[Len(entered) + 1] = e
      /\ \A i \in 1 .. Len(entered) : entered'[i] = entered[i]
  BY <1>0, <1>1, <1>2, EnterIs
<1>5. e.by = "forge" /\ e.n = n
  OBVIOUS
<1>. HIDE DEF e
<1>6. HistoryTypeOK'
  <2>1. cursor' \in 0 .. Len(entered')
    BY <1>0, <1>2, <1>4 DEF HistoryTypeOK
  <2>. QED BY <1>0, <1>2, <1>4, <2>1 DEF HistoryTypeOK, HistoryEvents
<1>7. PostedInOrder'
  BY <1>2 DEF ReportsInv, PostedInOrder
<1>8. DeliveredOnce'
  <2>1. ASSUME NEW i \in 1 .. Len(entered'), entered'[i].by = "forge"
        PROVE  entered'[i].n \notin deliveries'
    <3>1. CASE i = Len(entered) + 1
      BY <1>2, <1>4, <1>5, <3>1
    <3>2. CASE i \in 1 .. Len(entered)
      <4>1. entered'[i] = entered[i]
        BY <1>4, <3>2
      <4>. QED BY <1>2, <2>1, <3>2, <4>1 DEF ReportsInv, DeliveredOnce
    <3>. QED BY <1>4, <3>1, <3>2
  <2>. QED BY <1>2, <2>1 DEF ReportsInv, DeliveredOnce
<1>9. EnteredAfter'
  <2>1. ASSUME NEW i \in 1 .. Len(entered')
        PROVE  /\ entered'[i].n <= happenings
               /\ entered'[i].by = "worker" => entered'[i].n <= happenings - Len(toPost)
    <3>1. CASE i = Len(entered) + 1
      BY <1>1, <1>4, <1>5, <3>1
    <3>2. CASE i \in 1 .. Len(entered)
      BY <1>4, <3>2 DEF ReportsInv, EnteredAfter
    <3>. QED BY <1>4, <2>1, <3>1, <3>2
  <2>. QED BY <1>2, <2>1 DEF EnteredAfter
<1>10. \A i \in 1 .. Len(entered) : entered[i] # e
  BY <1>5 DEF ReportsInv, DeliveredOnce
<1>11. NoneTwice'
  <2>1. ASSUME NEW i \in 1 .. Len(entered'), NEW j \in 1 .. Len(entered'),
               entered'[i] = entered'[j]
        PROVE  i = j
    <3>1. /\ i \in 1 .. Len(entered) \/ i = Len(entered) + 1
          /\ j \in 1 .. Len(entered) \/ j = Len(entered) + 1
      BY <1>4
    <3>2. CASE i \in 1 .. Len(entered) /\ j \in 1 .. Len(entered)
      <4>1. entered[i] = entered[j]
        BY <1>4, <2>1, <3>2
      <4>. QED BY <3>2, <4>1 DEF ReportsInv, NoneTwice
    <3>3. CASE i = Len(entered) + 1 /\ j \in 1 .. Len(entered)
      <4>1. entered[j] = e
        BY <1>4, <2>1, <3>3
      <4>. QED BY <1>10, <3>3, <4>1
    <3>4. CASE j = Len(entered) + 1 /\ i \in 1 .. Len(entered)
      <4>1. entered[i] = e
        BY <1>4, <2>1, <3>4
      <4>. QED BY <1>10, <3>4, <4>1
    <3>. QED BY <3>1, <3>2, <3>3, <3>4
  <2>. QED BY <2>1 DEF NoneTwice
<1>12. WorkerInOrder'
  <2>1. ASSUME NEW i \in 1 .. Len(entered'), entered'[i].by = "worker",
               NEW m \in 1 .. entered'[i].n - 1
        PROVE  \E j \in 1 .. i - 1 : entered'[j] = Entry("worker", m)
    <3>1. i \in 1 .. Len(entered) /\ entered'[i] = entered[i]
      BY <1>4, <1>5, <2>1
    <3>2. PICK j \in 1 .. i - 1 : entered[j] = Entry("worker", m)
      BY <2>1, <3>1 DEF ReportsInv, WorkerInOrder
    <3>3. entered'[j] = entered[j]
      BY <1>4, <3>1
    <3>. QED BY <3>2, <3>3
  <2>. QED BY <2>1 DEF WorkerInOrder
<1>13. AllPosted'
  <2>1. ASSUME NEW m \in 1 .. happenings - Len(toPost)
        PROVE  \E j \in 1 .. Len(entered') : entered'[j] = Entry("worker", m)
    <3>1. PICK j \in 1 .. Len(entered) : entered[j] = Entry("worker", m)
      BY DEF ReportsInv, AllPosted
    <3>2. j \in 1 .. Len(entered') /\ entered'[j] = entered[j]
      BY <1>4
    <3>. QED BY <3>1, <3>2
  <2>. QED BY <1>2, <2>1 DEF AllPosted
<1>14. BegunFirst'
  BY <1>2 DEF ReportsInv, BegunFirst
<1>. QED BY <1>6, <1>7, <1>8, <1>9, <1>11, <1>12, <1>13, <1>14 DEF ReportsInv

LEMMA LostReports ==
  ASSUME ReportsInv, NEW n \in deliveries, DeliveryLost(n)
  PROVE  ReportsInv'
<1>0. HistoryTypeOK
  BY DEF ReportsInv
<1>1. /\ deliveries' = deliveries \ {n} /\ historyFaults' = historyFaults + 1
      /\ historyFaults < MaxHistoryFaults
      /\ UNCHANGED <<happenings, toPost, entered, cursor, collector, noticed, runRows, told,
                     forgotten, said>>
  BY DEF DeliveryLost, HistoryFault
<1>2. HistoryTypeOK'
  BY <1>0, <1>1, HistoryAssumption DEF HistoryTypeOK
<1>. QED BY <1>1, <1>2 DEF ReportsInv, PostedInOrder, DeliveredOnce, EnteredAfter, NoneTwice,
          WorkerInOrder, AllPosted, BegunFirst

-----------------------------------------------------------------------------

\* What an entry, once projected, is known to be.
LEMMA ProjectedIs ==
  ASSUME ReportsInv, NEW b, NEW n, Projected(b, n)
  PROVE  /\ b \in Reporters /\ n \in 1 .. LastHappening /\ n <= happenings
         /\ b = "worker" => \A m \in 1 .. n - 1 : Projected("worker", m)
<1>0. HistoryTypeOK
  BY DEF ReportsInv
<1>1. PICK i \in 1 .. cursor : entered[i] = Entry(b, n)
  BY DEF Projected
<1>2. i \in 1 .. Len(entered) /\ cursor \in Nat
  BY <1>0, RowTypes
<1>3. entered[i].by = b /\ entered[i].n = n
  BY <1>1 DEF Entry
<1>4. b \in Reporters /\ n \in 1 .. LastHappening
  BY <1>0, <1>2, <1>3, RowTypes
<1>5. n <= happenings
  BY <1>2, <1>3 DEF ReportsInv, EnteredAfter
<1>6. ASSUME b = "worker", NEW m \in 1 .. n - 1 PROVE Projected("worker", m)
  <2>1. PICK j \in 1 .. i - 1 : entered[j] = Entry("worker", m)
    BY <1>2, <1>3, <1>6 DEF ReportsInv, WorkerInOrder
  <2>2. j \in 1 .. cursor
    BY <1>2
  <2>. QED BY <2>1, <2>2 DEF Projected
<1>. QED BY <1>4, <1>5, <1>6

\* The entry projected next has not been projected, it is on its way until then, and the events
\* it follows in turn have been.
LEMMA NextEntry ==
  ASSUME ReportsInv, Project
  PROVE  LET e == entered[cursor + 1]
         IN  /\ ~Projected(e.by, e.n) /\ ~Arrived(e.n) /\ e.n <= happenings
             /\ \A b, n : Projected(b, n)' <=> Projected(b, n) \/ (b = e.by /\ n = e.n)
             /\ \A n : Arrived(n) => Arrived(n)'
             /\ e.by = "worker" => \A m \in 1 .. e.n - 1 : Projected("worker", m)
             /\ ReportedInTurn' =>
                  /\ ReportedInTurn
                  /\ \A m \in 1 .. e.n - 1 : \E b \in Reporters : Projected(b, m)
<1>. DEFINE e == entered[cursor + 1]
<1>0. HistoryTypeOK
  BY DEF ReportsInv
<1>1. /\ e \in HistoryEvents /\ cursor + 1 \in 1 .. Len(entered) /\ cursor' = cursor + 1
      /\ cursor \in Nat /\ Len(entered) \in Nat
      /\ UNCHANGED <<happenings, toPost, deliveries, entered>>
  BY <1>0, ProjectIs, RowTypes DEF Project
<1>2. e = Entry(e.by, e.n)
  BY <1>1, EventStamps
<1>3. ASSUME Projected(e.by, e.n) PROVE FALSE
  <2>1. PICK i \in 1 .. cursor : entered[i] = Entry(e.by, e.n)
    BY <1>3 DEF Projected
  <2>2. i \in 1 .. Len(entered) /\ entered[i] = entered[cursor + 1] /\ i # cursor + 1
    BY <1>1, <1>2, <2>1
  <2>. QED BY <1>1, <2>2 DEF ReportsInv, NoneTwice
<1>4. ~Arrived(e.n) /\ e.n <= happenings
  BY <1>1 DEF Arrived, ReportsInv, EnteredAfter
<1>5. ASSUME NEW b, NEW n
      PROVE  Projected(b, n)' <=> Projected(b, n) \/ (b = e.by /\ n = e.n)
  <2>1. \A i \in 1 .. cursor + 1 : i = cursor + 1 \/ i \in 1 .. cursor
    BY <1>1, OneLonger
  <2>2. cursor + 1 \in 1 .. cursor' /\ \A i \in 1 .. cursor : i \in 1 .. cursor'
    BY <1>1
  <2>3. Entry(b, n) = Entry(e.by, e.n) <=> b = e.by /\ n = e.n
    <3>1. Entry(b, n).by = b /\ Entry(b, n).n = n
          /\ Entry(e.by, e.n).by = e.by /\ Entry(e.by, e.n).n = e.n
      BY DEF Entry
    <3>. QED BY <3>1
  <2>4. entered' = entered /\ entered[cursor + 1] = Entry(e.by, e.n)
    BY <1>1, <1>2
  <2>5. Projected(b, n)' <=> \E i \in 1 .. cursor' : entered[i] = Entry(b, n)
    BY <2>4 DEF Projected, Entry
  <2>. HIDE DEF e
  <2>6. Projected(b, n) <=> \E i \in 1 .. cursor : entered[i] = Entry(b, n)
    BY DEF Projected
  <2>. QED BY <1>1, <2>1, <2>2, <2>3, <2>4, <2>5, <2>6
<1>6. ASSUME NEW n, Arrived(n) PROVE Arrived(n)'
  BY <1>1, <1>6 DEF Arrived
<1>7. ASSUME e.by = "worker", NEW m \in 1 .. e.n - 1 PROVE Projected("worker", m)
  <2>1. PICK j \in 1 .. (cursor + 1) - 1 : entered[j] = Entry("worker", m)
    BY <1>1, <1>7 DEF ReportsInv, WorkerInOrder
  <2>. QED BY <1>1, <2>1 DEF Projected
<1>8. ASSUME ReportedInTurn'
      PROVE  /\ ReportedInTurn
             /\ \A m \in 1 .. e.n - 1 : \E b \in Reporters : Projected(b, m)
  <2>1. \A i \in 1 .. cursor + 1 : \A n \in 1 .. entered[i].n - 1 :
          \E j \in 1 .. i : entered[j].n = n
    BY <1>1, <1>8 DEF ReportedInTurn
  <2>2. ReportedInTurn
    BY <1>1, <2>1 DEF ReportedInTurn
  <2>3. ASSUME NEW m \in 1 .. e.n - 1 PROVE \E b \in Reporters : Projected(b, m)
    <3>1. PICK j \in 1 .. cursor + 1 : entered[j].n = m
      BY <1>1, <2>1
    <3>2. e.n \in 1 .. LastHappening
      BY <1>1, EventStamps
    <3>3. j # cursor + 1
      BY <3>1, <3>2, HistoryAssumption
    <3>4. j \in 1 .. cursor /\ j \in 1 .. Len(entered)
      BY <1>1, <3>3
    <3>5. entered[j] \in HistoryEvents
      BY <1>0, <3>4, RowTypes
    <3>6. entered[j] = Entry(entered[j].by, m) /\ entered[j].by \in Reporters
      BY <3>1, <3>5, EventStamps
    <3>. QED BY <3>4, <3>6 DEF Projected
  <2>. QED BY <2>2, <2>3
<1>. QED BY <1>3, <1>4, <1>5, <1>6, <1>7, <1>8

LEMMA ProjectReports ==
  ASSUME ReportsInv, Project
  PROVE  ReportsInv'
<1>0. HistoryTypeOK
  BY DEF ReportsInv
<1>1. cursor' \in 0 .. Len(entered) /\ runRows' \in Seq(HistoryRows)
  BY <1>0, ProjectIs
<1>2. UNCHANGED <<happenings, toPost, deliveries, entered, collector, noticed, told, forgotten,
                  said, historyFaults>>
  BY DEF Project
<1>3. HistoryTypeOK'
  BY <1>0, <1>1, <1>2 DEF HistoryTypeOK, HistoryRows
<1>4. happenings >= 1
  <2>1. entered[cursor + 1].n \in 1 .. LastHappening /\ entered[cursor + 1].n <= happenings
    BY <1>0, NextEntry, ProjectIs, EventStamps
  <2>2. happenings \in Nat
    BY <1>0, RowTypes
  <2>. QED BY <2>1, <2>2, HistoryAssumption
<1>. QED BY <1>2, <1>3, <1>4, ReportsStay DEF reportVars

-----------------------------------------------------------------------------
(* The rows of other jobs, and those of its own, for an event.             *)

\* An event of another job does not fit a row, unless that is open and of an earlier one.
LEMMA FitsNoOther ==
  ASSUME NEW r, NEW j \in Runs, NEW e \in HistoryEvents, NEW k \in Runs, k = RunOf(e.n), j # k,
         HoldsJob(r, j), StampsInJob(r, j), FromStart(r, j) \/ FromEnd(r, j),
         r.end # 0 \/ j > k
  PROVE  Fit(r, e) = 3
<1>1. /\ j \in Nat /\ k \in Nat /\ j >= 1 /\ k >= 1
  BY RunsAre
<1>2. r.start \in 6 * j - 4 .. 6 * j + 1
  <2>1. CASE FromStart(r, j)
    <3>1. PICK b \in Reporters : r.start = BeginStamp(b, j)
      BY <2>1 DEF FromStart
    <3>. QED BY <1>1, <3>1, StampsOf
  <2>2. CASE FromEnd(r, j)
    BY <1>1, <2>2, StampsOf DEF FromEnd, Reporters
  <2>. QED BY <2>1, <2>2
<1>3. r.end = 0 \/ r.end \in 6 * j - 4 .. 6 * j + 1
  BY DEF StampsInJob
<1>4. /\ Starts(e.n) => Stamped(e) \in 6 * k - 4 .. 6 * k - 3
      /\ ~Starts(e.n) => Stamped(e) \in 6 * k .. 6 * k + 1
  <2>1. /\ e.by \in Reporters
        /\ Starts(e.n) => Stamped(e) = BeginStamp(e.by, k)
        /\ ~Starts(e.n) => Stamped(e) = EndStamp(e.by, k)
    BY EventStamps
  <2>. QED BY <1>1, <2>1, StampsOf
<1>5. CASE j > k
  <2>1. \/ r.start - Stamped(e) > 1
        \/ ~Starts(e.n) /\ r.start > Stamped(e)
    BY <1>1, <1>2, <1>4, <1>5
  <2>2. CASE Starts(e.n)
    BY <1>1, <1>2, <1>3, <1>4, <1>5, <2>1, <2>2 DEF Fit
  <2>3. CASE ~Starts(e.n)
    BY <1>1, <1>2, <1>3, <1>4, <1>5, <2>1, <2>3 DEF Fit
  <2>. QED BY <2>2, <2>3
<1>6. CASE j < k
  <2>1. r.end # 0 /\ r.end \in 6 * j - 4 .. 6 * j + 1
    BY <1>1, <1>3, <1>6
  <2>2. CASE Starts(e.n)
    BY <1>1, <1>2, <1>4, <1>6, <2>1, <2>2 DEF Fit
  <2>3. CASE ~Starts(e.n)
    BY <1>1, <1>2, <1>4, <1>6, <2>1, <2>3 DEF Fit
  <2>. QED BY <2>2, <2>3
<1>. QED BY <1>1, <1>5, <1>6

\* Nor does one of its own reporter's id.
LEMMA KnownNotEligible ==
  ASSUME NEW r, NEW k, NEW e \in HistoryEvents, IdFor(e.by, k) \in r.ids
  PROVE  ~Eligible(r, e)
BY DEF Eligible, IdFor

\* What the projection finds when the jobs are reported in turn: the rows of other jobs are out
\* of the question.
LEMMA OnlyItsJob ==
  ASSUME ReportsInv, Project, ReportedInTurn', RowsKept,
         NEW i \in 1 .. Len(runRows),
         Eligible(runRows[i], entered[cursor + 1]),
         Fit(runRows[i], entered[cursor + 1]) \in 0 .. 2
  PROVE  KeptRow(runRows[i], RunOf(entered[cursor + 1].n))
<1>. DEFINE e == entered[cursor + 1]
            k == RunOf(e.n)
            r == runRows[i]
<1>0. e \in HistoryEvents /\ HistoryTypeOK
  BY ProjectIs DEF ReportsInv
<1>1. PICK j \in Runs : KeptRow(r, j)
  BY DEF RowsKept
<1>2. k \in Runs /\ e.by \in Reporters /\ e.n \in 1 .. LastHappening
  BY <1>0, EventStamps
<1>3. k \in Nat /\ j \in Nat /\ k >= 1 /\ j >= 1
  BY <1>2, RunsAre
<1>4. ASSUME j # k PROVE FALSE
  <2>1. CASE r.end # 0 \/ j > k
    <3>1. Fit(r, e) = 3
      <4>. HIDE DEF e, k, r
      <4>. QED BY <1>0, <1>1, <1>2, <1>4, <2>1, FitsNoOther DEF KeptRow, k
    <3>. QED BY <3>1
  <2>2. CASE r.end = 0 /\ j < k
    <3>1. 2 * j \in 1 .. e.n - 1
      BY <1>0, <1>2, <1>3, <2>2, EventStamps, HistoryAssumption
    <3>2. \E b \in Reporters : Projected(b, 2 * j)
      BY <3>1, NextEntry
    <3>3. r.ids = BothIds(j)
      BY <1>1, <2>2, <3>2 DEF KeptRow, OpenIsKnown
    <3>4. IdFor(e.by, j) \in r.ids
      BY <1>2, <3>3 DEF BothIds, Reporters
    <3>. QED BY <1>0, <3>4, KnownNotEligible
  <2>. QED BY <1>3, <1>4, <2>1, <2>2
<1>. QED BY <1>1, <1>4

\* Of two reporters one is not the event's.
LEMMA TheOther ==
  ASSUME NEW ids, NEW k, NEW by \in Reporters, ids \subseteq BothIds(k), ids # {},
         IdFor(by, k) \notin ids
  PROVE  /\ \A id \in ids : id.by # by
         /\ \E b \in Reporters : b # by /\ ids = {IdFor(b, k)}
         /\ by = "forge" => ids = {IdFor("worker", k)}
         /\ by = "worker" => ids = {IdFor("forge", k)}
<1>1. /\ IdFor("worker", k).by = "worker" /\ IdFor("forge", k).by = "forge"
      /\ BothIds(k) = {IdFor("worker", k), IdFor("forge", k)}
  BY DEF IdFor, BothIds
<1>2. CASE by = "worker"
  <2>1. ids = {IdFor("forge", k)}
    BY <1>1, <1>2
  <2>. QED BY <1>1, <1>2, <2>1 DEF Reporters
<1>3. CASE by = "forge"
  <2>1. ids = {IdFor("worker", k)}
    BY <1>1, <1>3
  <2>. QED BY <1>1, <1>3, <2>1 DEF Reporters
<1>. QED BY <1>2, <1>3 DEF Reporters

\* An event fits the row of its own job that does not know its reporter, if the row is open or
\* ends where the job does.
LEMMA OwnFits ==
  ASSUME NEW r, NEW e \in HistoryEvents, NEW k \in Runs, k = RunOf(e.n),
         r.ids \subseteq BothIds(k), r.ids # {}, IdFor(e.by, k) \notin r.ids, FromStart(r, k),
         r.at \in Int,
         r.end = 0 \/ (r.end \in 6 * k .. 6 * k + 1 /\ (Starts(e.n) => r.at >= 6 * k))
  PROVE  Eligible(r, e) /\ Fit(r, e) \in 0 .. 2
<1>1. k \in Nat /\ k >= 1
  BY RunsAre
<1>2. \A id \in r.ids : id.by # e.by
  BY TheOther, EventStamps
<1>3. PICK b \in Reporters : r.start = BeginStamp(b, k)
  BY DEF FromStart
<1>4. r.start \in 6 * k - 4 .. 6 * k - 3
  BY <1>1, <1>3, StampsOf
<1>5. /\ Starts(e.n) => Stamped(e) \in 6 * k - 4 .. 6 * k - 3
      /\ ~Starts(e.n) => Stamped(e) \in 6 * k .. 6 * k + 1
  <2>1. e.by \in Reporters
    BY EventStamps
  <2>2. BeginStamp(e.by, k) \in 6 * k - 4 .. 6 * k - 3 /\ EndStamp(e.by, k) \in 6 * k .. 6 * k + 1
    BY <1>1, <2>1, StampsOf
  <2>. QED BY <2>2, EventStamps
<1>6. Eligible(r, e)
  BY <1>1, <1>2, <1>5 DEF Eligible
<1>7. Fit(r, e) \in 0 .. 2
  <2>1. CASE Starts(e.n)
    BY <1>1, <1>4, <1>5, <2>1 DEF Fit
  <2>2. CASE ~Starts(e.n)
    BY <1>1, <1>4, <1>5, <2>2 DEF Fit
  <2>. QED BY <2>1, <2>2
<1>. QED BY <1>6, <1>7

\* The row found is the only one that may know the event's id, and is of the event's job.
LEMMA FoundIsOwn ==
  ASSUME ReportsInv, Project, ReportedInTurn', RowsKept, IdsOnce
  PROVE  LET e == entered[cursor + 1]
         IN  /\ FindRun(e) # 0 => KeptRow(runRows[FindRun(e)], RunOf(e.n))
             /\ \A i \in 1 .. Len(runRows) : IdFor(e.by, RunOf(e.n)) \in runRows[i].ids =>
                  FindRun(e) = i /\ FindRun(e) # 0
<1>. DEFINE e == entered[cursor + 1]
            k == RunOf(e.n)
<1>0. /\ e \in HistoryEvents /\ HistoryTypeOK /\ Len(runRows) \in Nat
      /\ IdOf(e) = IdFor(e.by, k) /\ k \in Runs
  BY ProjectIs, EventStamps, RowTypes DEF ReportsInv
<1>. HIDE DEF e, k
<1>1. ASSUME NEW i \in 1 .. Len(runRows), IdFor(e.by, k) \in runRows[i].ids
      PROVE  FindRun(e) = i /\ FindRun(e) # 0 /\ KeptRow(runRows[i], k)
  <2>1. \A j \in 1 .. Len(runRows) : IdOf(e) \in runRows[j].ids => j = i
    BY <1>0, <1>1 DEF IdsOnce
  <2>2. FindRun(e) = i
    BY <1>0, <1>1, <2>1, KnownIsFound
  <2>3. PICK j \in Runs : KeptRow(runRows[i], j)
    BY DEF RowsKept
  <2>4. IdFor(e.by, k) \in BothIds(j)
    BY <1>1, <2>3 DEF KeptRow, HoldsJob
  <2>5. j = k
    BY <2>4 DEF BothIds, IdFor
  <2>. QED BY <1>0, <2>2, <2>3, <2>5
<1>2. ASSUME FindRun(e) # 0 PROVE KeptRow(runRows[FindRun(e)], k)
  <2>1. FindRun(e) \in 1 .. Len(runRows)
    BY <1>0, <1>2, FoundIsARow
  <2>2. CASE IdOf(e) \in runRows[FindRun(e)].ids
    BY <1>0, <1>1, <2>1, <2>2
  <2>3. CASE Eligible(runRows[FindRun(e)], e) /\ Fit(runRows[FindRun(e)], e) \in 0 .. 2
    BY <2>1, <2>3, OnlyItsJob DEF e, k
  <2>. QED BY <1>0, <1>2, <2>2, <2>3, FoundIsARow
<1>. QED BY <1>1, <1>2 DEF e, k

\* The open row of the event's job is found.
LEMMA OpenIsFound ==
  ASSUME ReportsInv, Project, ReportedInTurn', RowsKept, IdsOnce, OpenAlone,
         NEW i \in 1 .. Len(runRows), KeptRow(runRows[i], RunOf(entered[cursor + 1].n)),
         runRows[i].end = 0
  PROVE  FindRun(entered[cursor + 1]) = i
<1>. DEFINE e == entered[cursor + 1]
            k == RunOf(e.n)
<1>0. /\ e \in HistoryEvents /\ HistoryTypeOK /\ IdOf(e) = IdFor(e.by, k) /\ k \in Runs
      /\ FindRun(e) # 0 => FindRun(e) \in 1 .. Len(runRows)
  BY ProjectIs, EventStamps, FoundIsARow DEF ReportsInv
<1>h. KeptRow(runRows[i], k)
  OBVIOUS
<1>1. ASSUME NEW j \in 1 .. Len(runRows), KeptRow(runRows[j], k) PROVE i = j
  BY <1>h, <1>1 DEF KeptRow, HoldsJob, OpenAlone
<1>2. CASE \E j \in 1 .. Len(runRows) : IdFor(e.by, k) \in runRows[j].ids
  <2>1. PICK j \in 1 .. Len(runRows) : IdFor(e.by, k) \in runRows[j].ids
    BY <1>2
  <2>2. FindRun(e) = j /\ FindRun(e) # 0 /\ KeptRow(runRows[FindRun(e)], k)
    BY <2>1, FoundIsOwn
  <2>. QED BY <1>1, <2>1, <2>2
<1>3. CASE \A j \in 1 .. Len(runRows) : IdFor(e.by, k) \notin runRows[j].ids
  <2>1. /\ FromStart(runRows[i], k) /\ runRows[i].ids \subseteq BothIds(k) /\ runRows[i].ids # {}
    BY <1>h DEF KeptRow, FromEnd, HoldsJob
  <2>2. runRows[i].at \in Int
    BY <1>0, RowTypes DEF HistoryRows
  <2>3. Eligible(runRows[i], e) /\ Fit(runRows[i], e) \in 0 .. 2
    <3>1. IdFor(e.by, k) \notin runRows[i].ids
      BY <1>3
    <3>. HIDE DEF e
    <3>. QED BY <1>0, <2>1, <2>2, <3>1, OwnFits
  <2>4. \A j \in 1 .. Len(runRows) :
          Eligible(runRows[j], e) /\ Fit(runRows[j], e) \in 0 .. 2 => j = i
    BY <1>1, OnlyItsJob
  <2>5. FindRun(e) = i
    <3>. HIDE DEF e, k
    <3>. QED BY <1>0, <1>3, <2>3, <2>4, FittingIsFound
  <2>. QED BY <2>5
<1>. QED BY <1>2, <1>3

\* A row that the event does not find though it is of its job, does not fit.
LEMMA UnfoundFitsNot ==
  ASSUME ReportsInv, Project, ReportedInTurn', RowsKept, IdsOnce, OpenAlone,
         FindRun(entered[cursor + 1]) = 0,
         NEW i \in 1 .. Len(runRows), KeptRow(runRows[i], RunOf(entered[cursor + 1].n))
  PROVE  LET e == entered[cursor + 1]
             k == RunOf(e.n)
         IN  /\ runRows[i].end # 0 /\ IdFor(e.by, k) \notin runRows[i].ids
             /\ FromStart(runRows[i], k) =>
                  ~(runRows[i].end \in 6 * k .. 6 * k + 1 /\ (Starts(e.n) => runRows[i].at >= 6 * k))
<1>. DEFINE e == entered[cursor + 1]
            k == RunOf(e.n)
<1>0. /\ e \in HistoryEvents /\ HistoryTypeOK /\ IdOf(e) = IdFor(e.by, k) /\ k \in Runs
      /\ e.by \in Reporters /\ i # 0
  BY ProjectIs, EventStamps, RowTypes DEF ReportsInv
<1>h. KeptRow(runRows[i], k) /\ FindRun(e) = 0
  OBVIOUS
<1>1. runRows[i].end # 0
  BY <1>0, OpenIsFound
<1>2. \A j \in 1 .. Len(runRows) : IdFor(e.by, k) \notin runRows[j].ids
  BY FoundIsOwn
<1>3. ASSUME FromStart(runRows[i], k), runRows[i].end \in 6 * k .. 6 * k + 1,
             Starts(e.n) => runRows[i].at >= 6 * k
      PROVE  FALSE
  <2>1. runRows[i].ids \subseteq BothIds(k) /\ runRows[i].ids # {}
    BY <1>h DEF KeptRow, HoldsJob
  <2>2. runRows[i].at \in Int
    BY <1>0, RowTypes DEF HistoryRows
  <2>3. Eligible(runRows[i], e) /\ Fit(runRows[i], e) \in 0 .. 2
    <3>1. IdFor(e.by, k) \notin runRows[i].ids
      BY <1>2
    <3>. HIDE DEF e
    <3>. QED BY <1>0, <1>3, <2>1, <2>2, <3>1, OwnFits
  <2>4. ASSUME NEW j \in 1 .. Len(runRows), Eligible(runRows[j], e), Fit(runRows[j], e) \in 0 .. 2
        PROVE  j = i
    <3>1. KeptRow(runRows[j], k)
      BY <2>4, OnlyItsJob
    <3>2. runRows[j].ids \subseteq BothIds(k) /\ runRows[j].ids # {}
      BY <3>1 DEF KeptRow, HoldsJob
    <3>. HIDE DEF e, k
    <3>3. CASE e.by = "worker"
      <4>1. runRows[i].ids = {IdFor("forge", k)} /\ runRows[j].ids = {IdFor("forge", k)}
        BY <1>0, <1>2, <2>1, <3>2, <3>3, TheOther
      <4>. QED BY <4>1 DEF IdsOnce
    <3>4. CASE e.by = "forge"
      <4>1. runRows[i].ids = {IdFor("worker", k)} /\ runRows[j].ids = {IdFor("worker", k)}
        BY <1>0, <1>2, <2>1, <3>2, <3>4, TheOther
      <4>. QED BY <4>1 DEF IdsOnce
    <3>. QED BY <1>0, <3>3, <3>4 DEF Reporters
  <2>5. FindRun(e) = i
    <3>. HIDE DEF e
    <3>. QED BY <1>0, <1>2, <2>3, <2>4, FittingIsFound
  <2>. QED BY <1>0, <1>h, <2>5
<1>. QED BY <1>0, <1>1, <1>2, <1>3

\* A start finds the row of its job, if there is one.
LEMMA StartIsFound ==
  ASSUME ReportsInv, Project, ReportedInTurn', RowsKept, IdsFound, IdsOnce, OpenAlone,
         FindRun(entered[cursor + 1]) = 0, Starts(entered[cursor + 1].n),
         NEW i \in 1 .. Len(runRows), KeptRow(runRows[i], RunOf(entered[cursor + 1].n))
  PROVE  FALSE
<1>. DEFINE e == entered[cursor + 1]
            k == RunOf(e.n)
            r == runRows[i]
<1>0. /\ e \in HistoryEvents /\ k \in Runs /\ e.by \in Reporters /\ e.n = 2 * k - 1
  BY ProjectIs, EventStamps DEF ReportsInv
<1>1. /\ r.end # 0 /\ IdFor(e.by, k) \notin r.ids
      /\ FromStart(r, k) => ~(r.end \in 6 * k .. 6 * k + 1 /\ r.at >= 6 * k)
  BY UnfoundFitsNot
<1>2. /\ HoldsJob(r, k) /\ ClosedForAReason(r, k) /\ EndsAsReported(r, k)
      /\ FromStart(r, k) \/ FromEnd(r, k)
  BY DEF KeptRow
<1>3. ~Projected(e.by, e.n) /\ ~Arrived(2 * k - 1)
  BY <1>0, NextEntry
<1>. HIDE DEF e, k, r
<1>4. PICK b \in Reporters : IdFor(b, k) \in r.ids /\ Projected(b, 2 * k)
  BY <1>1, <1>2, <1>3 DEF ClosedForAReason
<1>5. b # e.by /\ r.ids = {IdFor(b, k)}
  <2>1. b # e.by
    BY <1>1, <1>4
  <2>2. r.ids \subseteq {IdFor("worker", k), IdFor("forge", k)}
    BY <1>2 DEF HoldsJob, BothIds
  <2>. QED BY <1>0, <1>1, <1>4, <2>1, <2>2 DEF Reporters
<1>6. r.end = EndStamp(b, k) /\ r.at = EndStamp(b, k)
  BY <1>2, <1>4, <1>5 DEF EndsAsReported
<1>7. r.end \in 6 * k .. 6 * k + 1 /\ r.at >= 6 * k
  <2>1. k \in Nat
    BY <1>0, RunsAre
  <2>2. EndStamp(b, k) \in 6 * k .. 6 * k + 1
    BY <2>1, StampsOf
  <2>. QED BY <1>6, <2>1, <2>2
<1>8. FromEnd(r, k)
  BY <1>1, <1>2, <1>7
<1>9. b = "forge" /\ Projected("worker", 2 * k - 1)
  <2>1. r.ids = {IdFor("forge", k)} /\ Projected("worker", 2 * k - 1)
    BY <1>8 DEF FromEnd
  <2>2. IdFor(b, k) = IdFor("forge", k)
    BY <1>5, <2>1
  <2>3. "forge" \in Reporters
    BY DEF Reporters
  <2>4. b = "forge"
    BY <2>2, <2>3, TheReporters
  <2>. QED BY <2>1, <2>4
<1>10. e.by = "worker"
  BY <1>0, <1>5, <1>9 DEF Reporters
<1>. QED BY <1>0, <1>3, <1>9, <1>10

\* An end that finds no row is the forge's, and the worker has reported the start; if there is
\* a row of the job all the same, the forge had forgotten it, and its start was lost.
LEMMA EndUnfound ==
  ASSUME ReportsInv, Project, ReportedInTurn', RowsKept, IdsFound, IdsOnce, OpenAlone,
         FindRun(entered[cursor + 1]) = 0, ~Starts(entered[cursor + 1].n)
  PROVE  LET e == entered[cursor + 1]
             k == RunOf(e.n)
         IN  /\ e.by = "forge" /\ Projected("worker", 2 * k - 1)
             /\ \A i \in 1 .. Len(runRows) : KeptRow(runRows[i], k) => forgotten /\ StartLost(k)
<1>. DEFINE e == entered[cursor + 1]
            k == RunOf(e.n)
<1>0. /\ e \in HistoryEvents /\ k \in Runs /\ e.by \in Reporters /\ e.n = 2 * k
      /\ k \in Nat /\ k >= 1 /\ 2 * k - 1 \in 1 .. LastHappening /\ 2 * k - 1 \in 1 .. e.n - 1
      /\ RunOf(2 * k - 1) = k
  <2>1. e \in HistoryEvents
    BY ProjectIs DEF ReportsInv
  <2>2. /\ k \in Runs /\ e.by \in Reporters /\ e.n = 2 * k /\ e.n \in 1 .. LastHappening
    BY <2>1, EventStamps
  <2>3. k \in Nat /\ k >= 1
    BY <2>2, RunsAre
  <2>. HIDE DEF k, e
  <2>4. RunOf(2 * k - 1) = k
    BY <2>3, JobNumbers
  <2>. QED BY <2>1, <2>2, <2>3, <2>4, HistoryAssumption
<1>1. \A i \in 1 .. Len(runRows) : IdFor(e.by, k) \notin runRows[i].ids
  BY FoundIsOwn
<1>2. ~Projected(e.by, 2 * k - 1)
  <2>. HIDE DEF e, k
  <2>. QED BY <1>0, <1>1 DEF IdsFound
<1>3. e.by = "forge" /\ Projected("worker", 2 * k - 1)
  <2>1. e.by # "worker"
    BY <1>0, <1>2, NextEntry
  <2>2. \E b \in Reporters : Projected(b, 2 * k - 1)
    BY <1>0, NextEntry
  <2>. HIDE DEF e, k
  <2>. QED BY <1>0, <1>2, <2>1, <2>2 DEF Reporters
<1>4. ASSUME NEW i \in 1 .. Len(runRows), KeptRow(runRows[i], k)
      PROVE  forgotten /\ StartLost(k)
  <2>. DEFINE r == runRows[i]
  <2>1. /\ r.end # 0 /\ IdFor("forge", k) \notin r.ids
        /\ FromStart(r, k) => ~(r.end \in 6 * k .. 6 * k + 1)
    BY <1>3, <1>4, UnfoundFitsNot
  <2>2. /\ HoldsJob(r, k) /\ ClosedForAReason(r, k) /\ EndsAsReported(r, k)
        /\ FromStart(r, k) \/ FromEnd(r, k)
    BY <1>4 DEF KeptRow
  <2>. HIDE DEF e, k, r
  <2>3. r.ids = {IdFor("worker", k)}
    BY <2>1, <2>2 DEF HoldsJob, BothIds
  <2>4. FromStart(r, k)
    BY <2>1, <2>2, <2>3 DEF FromEnd
  <2>5. ASSUME NEW b \in Reporters, IdFor(b, k) \in r.ids, Projected(b, 2 * k) PROVE FALSE
    <3>1. r.ids = {IdFor(b, k)}
      BY <2>3, <2>5
    <3>2. r.end = EndStamp(b, k)
      BY <2>2, <2>5, <3>1 DEF EndsAsReported
    <3>. QED BY <1>0, <2>1, <2>4, <3>2, StampsOf
  <2>6. Arrived(2 * k - 1) /\ (r.end = EndStamp("forge", k) \/ forgotten)
    BY <2>1, <2>2, <2>5 DEF ClosedForAReason
  <2>7. r.end # EndStamp("forge", k)
    <3>1. "forge" \in Reporters
      BY DEF Reporters
    <3>. QED BY <1>0, <2>1, <2>4, <3>1, StampsOf
  <2>8. ASSUME NEW j \in 1 .. Len(entered), entered[j] = [by |-> "forge", n |-> 2 * k - 1]
        PROVE  FALSE
    <3>1. cursor \in Nat /\ Len(entered) \in Nat /\ cursor <= Len(entered)
      BY RowTypes DEF ReportsInv
    <3>2. CASE j \in 1 .. cursor
      <4>1. Projected("forge", 2 * k - 1)
        BY <2>8, <3>2 DEF Projected, Entry
      <4>. QED BY <1>2, <1>3, <4>1
    <3>3. CASE j \in cursor + 1 .. Len(entered)
      BY <2>6, <2>8, <3>3 DEF Arrived
    <3>. QED BY <3>1, <3>2, <3>3
  <2>9. 2 * k - 1 <= happenings /\ 2 * k - 1 \notin deliveries
    BY <2>6 DEF Arrived
  <2>. QED BY <2>6, <2>7, <2>8, <2>9 DEF StartLost
<1>. QED BY <1>3, <1>4

-----------------------------------------------------------------------------
(* What a projection does to the rows.                                     *)

\* A row stays as true as it was, if nothing new is projected of it.
LEMMA KeptStays ==
  ASSUME NEW i \in 1 .. Len(runRows), NEW k, KeptRow(runRows[i], k), runRows'[i] = runRows[i],
         2 * k - 1 <= happenings => 2 * k - 1 <= happenings',
         \A b, n : Projected(b, n) => Projected(b, n)',
         \A b \in Reporters :
           Projected(b, 2 * k)' /\ (IdFor(b, k) \in runRows[i].ids \/ runRows[i].end = 0) =>
             Projected(b, 2 * k),
         Arrived(2 * k - 1) => Arrived(2 * k - 1)', forgotten => forgotten'
  PROVE  KeptRow(runRows[i], k)'
<1>1. HoldsJob(runRows[i], k)' /\ StampsInJob(runRows[i], k)'
  BY DEF KeptRow, HoldsJob, StampsInJob
<1>2. FromStart(runRows[i], k) => FromStart(runRows[i], k)'
  BY DEF FromStart
<1>3. FromEnd(runRows[i], k) => FromEnd(runRows[i], k)'
  BY DEF FromEnd
<1>4. EndsAsReported(runRows[i], k)'
  BY DEF KeptRow, EndsAsReported
<1>5. ClosedForAReason(runRows[i], k)'
  BY DEF KeptRow, ClosedForAReason
<1>6. OpenIsKnown(runRows[i], k)'
  BY DEF KeptRow, OpenIsKnown
<1>. QED BY <1>1, <1>2, <1>3, <1>4, <1>5, <1>6 DEF KeptRow

\* What is written to the row found keeps it true.
LEMMA WrittenKept ==
  ASSUME ReportsInv, Project, ReportedInTurn', RowsKept, IdsFound, IdsOnce, OpenAlone,
         NEW i \in 1 .. Len(runRows), FindRun(entered[cursor + 1]) = i,
         NEW k \in Runs, k = RunOf(entered[cursor + 1].n)
  PROVE  /\ KeptRow(runRows[i], k) /\ KeptRow(runRows[i], k)'
         /\ runRows'[i].of = {k} /\ runRows'[i].start = runRows[i].start
         /\ runRows'[i].end = 0 => runRows[i].end = 0
<1>. DEFINE e == entered[cursor + 1]
            r == runRows[i]
            w == Written(r, e)
            x == IdFor(e.by, k)
<1>0. /\ e \in HistoryEvents /\ e.by \in Reporters /\ e.by \in {"worker", "forge"} /\ i # 0
      /\ IdOf(e) = x /\ r \in HistoryRows /\ runRows'[i] = w
      /\ k \in Nat /\ k >= 1
  <2>1. e \in HistoryEvents /\ HistoryTypeOK /\ i # 0 /\ r \in HistoryRows
    BY ProjectIs, RowTypes DEF ReportsInv
  <2>. QED BY <2>1, ProjectIs, EventStamps, RunsAre DEF Reporters
<1>k. KeptRow(r, k)
  BY <1>0, FoundIsOwn
<1>e. /\ Starts(e.n) => e.n = 2 * k - 1 /\ Stamped(e) = BeginStamp(e.by, k)
      /\ ~Starts(e.n) => e.n = 2 * k /\ Stamped(e) = EndStamp(e.by, k)
  BY <1>0, EventStamps
<1>n. /\ ~Projected(e.by, e.n) /\ e.n <= happenings
      /\ \A b, n : Projected(b, n)' <=> Projected(b, n) \/ (b = e.by /\ n = e.n)
      /\ Arrived(2 * k - 1) => Arrived(2 * k - 1)'
      /\ e.by = "worker" => \A m \in 1 .. e.n - 1 : Projected("worker", m)
      /\ happenings' = happenings /\ (forgotten => forgotten')
  BY NextEntry DEF Project
<1>a. \A j \in 1 .. Len(runRows) : x \in runRows[j].ids => j = i
  BY <1>0, FoundIsOwn
<1>f. \A b \in Reporters, n \in {2 * k - 1, 2 * k} : Projected(b, n) =>
        \E j \in 1 .. Len(runRows) : IdFor(b, k) \in runRows[j].ids
  <2>1. ASSUME NEW b \in Reporters, NEW n \in {2 * k - 1, 2 * k}, Projected(b, n)
        PROVE  \E j \in 1 .. Len(runRows) : IdFor(b, k) \in runRows[j].ids
    <3>1. n \in 1 .. LastHappening
      BY <2>1, ProjectedIs
    <3>2. RunOf(n) = k
      BY <1>0, JobNumbers
    <3>. QED BY <2>1, <3>1, <3>2 DEF IdsFound
  <2>. QED BY <2>1
<1>h. /\ r.of = {k} /\ 2 * k - 1 <= happenings
      /\ r.ids # {} /\ r.ids \subseteq BothIds(k) /\ IdFor(r.source, k) \in r.ids
      /\ r.result \in {0, UnknownResult, k}
  BY <1>k DEF KeptRow, HoldsJob
<1>s. /\ r.at \in 6 * k - 4 .. 6 * k + 1 /\ (r.ids = {IdFor("worker", k)} => r.at <= 6 * k)
      /\ r.end = 0 \/ r.end \in 6 * k - 4 .. 6 * k + 1
  BY <1>k DEF KeptRow, StampsInJob
<1>x. /\ IdFor("worker", k) # IdFor("forge", k) /\ BothIds(k) = {IdFor("worker", k), IdFor("forge", k)}
      /\ \A b \in Reporters : IdFor(b, k) = x => b = e.by
      /\ x \in BothIds(k)
  BY <1>0, TheReporters DEF BothIds
<1>t. /\ BeginStamp(e.by, k) \in 6 * k - 4 .. 6 * k - 3 /\ EndStamp(e.by, k) \in 6 * k .. 6 * k + 1
      /\ BeginStamp("worker", k) = 6 * k - 3 /\ EndStamp("worker", k) = 6 * k
  BY <1>0, StampsOf
<1>w. /\ w.ids = r.ids \cup {x} /\ w.of = {k} /\ w.start = r.start
      /\ LET known == w.end = r.end /\ w.at = r.at /\ w.result = r.result
         IN  \/ known /\ w.source = r.source /\ e.by = "worker"
                /\ \/ Stamped(e) < r.at
                   \/ r.end # 0
             \/ known /\ w.source = e.by /\ r.end # 0 /\ Starts(e.n)
             \/ /\ Starts(e.n) /\ r.end = 0
                /\ w.end = 0 /\ w.at = Stamped(e) /\ w.result = r.result /\ w.source = e.by
             \/ /\ ~Starts(e.n) /\ ~(e.by = "worker" /\ Stamped(e) < r.at)
                /\ w.end = Stamped(e) /\ w.at = Stamped(e)
                /\ w.result = ResultOf(e) /\ w.source = e.by
  <2>1. w.of = r.of \cup {RunOf(e.n)} /\ RunOf(e.n) = k
    BY <1>0, WrittenIs
  <2>2. w.of = {k}
    BY <1>h, <2>1
  <2>. HIDE DEF e, r
  <2>. QED BY <1>0, <2>2, WrittenIs
<1>p. \A b \in Reporters : Projected(b, 2 * k)' <=> Projected(b, 2 * k) \/ (b = e.by /\ ~Starts(e.n))
  <2>1. e.n = 2 * k <=> ~Starts(e.n)
    BY <1>0, <1>e
  <2>. QED BY <1>n, <2>1
<1>r. ~Starts(e.n) => ResultOf(e) \in {0, k} /\ (e.by = "forge" => ResultOf(e) = k)
  BY DEF ResultOf
<1>. HIDE DEF w, x, r, e
<1>1. HoldsJob(w, k)
  <2>1. w.ids # {} /\ w.ids \subseteq BothIds(k)
    BY <1>h, <1>w, <1>x
  <2>2. IdFor(w.source, k) \in w.ids
    BY <1>h, <1>w DEF x
  <2>3. w.result \in {0, UnknownResult, k}
    BY <1>h, <1>r, <1>w
  <2>. QED BY <1>h, <1>w, <2>1, <2>2, <2>3 DEF HoldsJob
<1>2. StampsInJob(w, k)
  <2>0. Stamped(e) \in 6 * k - 4 .. 6 * k + 1
    BY <1>0, <1>e, <1>t
  <2>1. w.at \in 6 * k - 4 .. 6 * k + 1
    BY <1>s, <1>w, <2>0
  <2>2. w.end = 0 \/ w.end \in 6 * k - 4 .. 6 * k + 1
    BY <1>0, <1>e, <1>s, <1>t, <1>w
  <2>3. ASSUME w.ids = {IdFor("worker", k)} PROVE w.at <= 6 * k
    <3>1. r.ids = {IdFor("worker", k)} /\ x = IdFor("worker", k)
      BY <1>h, <1>w, <2>3
    <3>2. e.by = "worker"
      BY <1>x, <3>1 DEF Reporters
    <3>3. k \in Nat
      BY <1>0, RunsAre
    <3>4. Stamped(e) <= 6 * k
      BY <1>e, <1>t, <3>2, <3>3
    <3>5. r.at <= 6 * k
      BY <1>s, <3>1
    <3>6. w.at = r.at \/ w.at = Stamped(e)
      BY <1>w
    <3>. QED BY <3>4, <3>5, <3>6
  <2>. QED BY <2>1, <2>2, <2>3 DEF StampsInJob
<1>3. FromStart(r, k) => FromStart(w, k)
  BY <1>w DEF FromStart
<1>4. ASSUME FromEnd(r, k)
      PROVE  /\ w.ids = {IdFor("forge", k)} /\ w.start = EndStamp("forge", k)
             /\ w.end # 0 /\ w.result # 0 /\ Projected("worker", 2 * k - 1)'
  <2>1. /\ r.ids = {IdFor("forge", k)} /\ r.start = EndStamp("forge", k)
        /\ r.end # 0 /\ r.result # 0 /\ Projected("worker", 2 * k - 1)
    BY <1>4 DEF FromEnd
  <2>2. PICK j \in 1 .. Len(runRows) : IdFor("worker", k) \in runRows[j].ids
    BY <1>f, <2>1 DEF Reporters
  <2>3. e.by = "forge"
    <3>1. CASE e.by = "worker"
      <4>1. IdFor("worker", k) \in r.ids
        BY <1>a, <2>2, <3>1 DEF x, r
      <4>. QED BY <1>x, <2>1, <4>1
    <3>. QED BY <1>0, <3>1
  <2>4. w.ids = {IdFor("forge", k)}
    BY <1>w, <2>1, <2>3 DEF x
  <2>5. w.end # 0 /\ w.result # 0
    <3>1. CASE w.end = r.end /\ w.result = r.result
      BY <2>1, <3>1
    <3>2. CASE ~Starts(e.n) /\ w.end = Stamped(e) /\ w.result = ResultOf(e)
      <4>1. k \in Nat /\ k >= 1
        BY <1>0, RunsAre
      <4>2. w.end \in 6 * k .. 6 * k + 1
        BY <1>e, <1>t, <3>2
      <4>3. w.result = k
        BY <1>r, <2>3, <3>2
      <4>. QED BY <4>1, <4>2, <4>3
    <3>. QED BY <1>w, <2>1, <3>1, <3>2
  <2>. QED BY <1>n, <1>w, <2>1, <2>4, <2>5
<1>5. ASSUME NEW b \in Reporters, w.ids = {IdFor(b, k)}, Projected(b, 2 * k)'
      PROVE  w.end = EndStamp(b, k) /\ w.at = EndStamp(b, k)
  <2>1. r.ids = {IdFor(b, k)} /\ b = e.by
    <3>1. w.ids = r.ids \cup {x} /\ r.ids # {}
      BY <1>h, <1>w
    <3>2. x = IdFor(b, k) /\ r.ids = {IdFor(b, k)}
      BY <1>5, <3>1
    <3>. QED BY <1>x, <3>2
  <2>2. CASE ~Starts(e.n)
    <3>1. CASE e.by = "worker"
      <4>1. r.at <= 6 * k /\ Stamped(e) = 6 * k
        BY <1>e, <1>s, <1>t, <2>1, <2>2, <3>1
      <4>2. ~(Stamped(e) < r.at)
        BY <1>0, <1>s, <4>1
      <4>3. ~Projected("worker", 2 * k)
        BY <1>e, <1>n, <2>2, <3>1
      <4>4. Projected("worker", 2 * k - 1)
        <5>1. 2 * k - 1 \in 1 .. e.n - 1
          BY <1>0, <1>e, <2>2
        <5>. QED BY <1>n, <3>1, <5>1
      <4>5. ~(r.end # 0 /\ r.source # "worker")
        BY <1>h, <2>1, <3>1, TheReporters, <1>x DEF IdFor
      <4>6. w.end = Stamped(e) /\ w.at = Stamped(e)
        <5>1. w = Ended([[r EXCEPT !.ids = @ \cup {IdOf(e)}, !.of = @ \cup {RunOf(e.n)}]
                            EXCEPT !.source = e.by, !.at = Stamped(e)], e)
          BY <2>2, <4>2, <4>5 DEF w, Written
        <5>. QED BY <1>0, <2>2, <5>1 DEF Ended, HistoryRows
      <4>. QED BY <1>e, <2>1, <2>2, <4>6
    <3>2. CASE e.by # "worker"
      BY <1>e, <1>w, <2>1, <2>2, <3>2
    <3>. QED BY <3>1, <3>2
  <2>3. CASE Starts(e.n)
    <3>1. Projected(b, 2 * k)
      BY <1>p, <1>5, <2>3
    <3>2. r.end = EndStamp(b, k) /\ r.at = EndStamp(b, k)
      BY <1>k, <2>1, <3>1 DEF KeptRow, EndsAsReported
    <3>3. r.end # 0
      BY <1>0, <1>t, <2>1, <3>2
    <3>. QED BY <1>w, <2>3, <3>2, <3>3
  <2>. QED BY <2>2, <2>3
<1>6. ASSUME w.end # 0
      PROVE  \/ \E b \in Reporters : IdFor(b, k) \in w.ids /\ Projected(b, 2 * k)'
             \/ Arrived(2 * k - 1)' /\ (w.end = EndStamp("forge", k) \/ forgotten')
  <2>1. CASE w.end = r.end
    <3>1. \/ \E b \in Reporters : IdFor(b, k) \in r.ids /\ Projected(b, 2 * k)
          \/ Arrived(2 * k - 1) /\ (r.end = EndStamp("forge", k) \/ forgotten)
      BY <1>k, <1>6, <2>1 DEF KeptRow, ClosedForAReason
    <3>. QED BY <1>n, <1>w, <2>1, <3>1
  <2>2. CASE w.end # r.end
    <3>1. ~Starts(e.n)
      BY <1>w, <1>6, <2>2
    <3>2. PICK b \in Reporters : b = e.by
      BY <1>0
    <3>3. IdFor(b, k) \in w.ids
      BY <1>w, <3>2 DEF x
    <3>4. Projected(b, 2 * k)'
      BY <1>p, <3>1, <3>2
    <3>. QED BY <3>3, <3>4
  <2>. QED BY <2>1, <2>2
<1>7. ASSUME w.end = 0, NEW b \in Reporters, Projected(b, 2 * k)'
      PROVE  w.ids = BothIds(k)
  <2>1. CASE ~Starts(e.n)
    <3>1. Stamped(e) # 0
      BY <1>0, <1>e, <1>t, <2>1
    <3>2. e.by = "worker" /\ Stamped(e) = 6 * k /\ r.at > 6 * k
      <4>1. r.end = 0
        BY <1>w, <1>7, <2>1, <3>1
      <4>2. e.by = "worker" /\ Stamped(e) < r.at
        BY <1>w, <1>7, <2>1, <3>1, <4>1
      <4>. QED BY <1>0, <1>e, <1>s, <1>t, <2>1, <4>2
    <3>3. r.ids # {IdFor("worker", k)}
      BY <1>0, <1>s, <3>2
    <3>4. x = IdFor("worker", k)
      BY <3>2 DEF x
    <3>. QED BY <1>h, <1>w, <1>x, <3>3, <3>4
  <2>2. CASE Starts(e.n)
    <3>1. Projected(b, 2 * k)
      BY <1>p, <1>7, <2>2
    <3>2. r.end = 0
      BY <1>w, <1>7, <2>2
    <3>3. r.ids = BothIds(k)
      BY <1>k, <3>1, <3>2 DEF KeptRow, OpenIsKnown
    <3>. QED BY <1>w, <1>x, <3>3
  <2>. QED BY <2>1, <2>2
<1>8. w.end = 0 => r.end = 0
  <2>1. ~Starts(e.n) => Stamped(e) # 0
    BY <1>0, <1>e, <1>t
  <2>. QED BY <1>w, <2>1
<1>9. KeptRow(runRows[i], k)'
  <2>1. HoldsJob(runRows[i], k)' /\ StampsInJob(runRows[i], k)'
    BY <1>0, <1>1, <1>2, <1>n DEF HoldsJob, StampsInJob
  <2>2. FromStart(r, k) => FromStart(runRows[i], k)'
    BY <1>0, <1>3 DEF FromStart
  <2>3. FromEnd(r, k) => FromEnd(runRows[i], k)'
    BY <1>0, <1>4 DEF FromEnd
  <2>4. EndsAsReported(runRows[i], k)'
    BY <1>0, <1>5 DEF EndsAsReported
  <2>5. ClosedForAReason(runRows[i], k)'
    BY <1>0, <1>6 DEF ClosedForAReason
  <2>6. OpenIsKnown(runRows[i], k)'
    BY <1>0, <1>7 DEF OpenIsKnown
  <2>. QED BY <1>k, <2>1, <2>2, <2>3, <2>4, <2>5, <2>6 DEF KeptRow
<1>. QED BY <1>0, <1>8, <1>9, <1>k, <1>w DEF r

\* A row of a job's number is a row kept of it.
LEMMA OfItsJob ==
  ASSUME RowsKept, NEW i \in 1 .. Len(runRows), NEW k, k \in runRows[i].of \/ runRows[i].of = {k}
  PROVE  k \in Runs /\ KeptRow(runRows[i], k) /\ runRows[i].of = {k}
<1>1. PICK j \in Runs : KeptRow(runRows[i], j)
  BY DEF RowsKept
<1>2. runRows[i].of = {j}
  BY <1>1 DEF KeptRow, HoldsJob
<1>. QED BY <1>1, <1>2

\* A row made for an event that found none is true.
LEMMA NewKept ==
  ASSUME ReportsInv, Project, ReportedInTurn', RowsKept, IdsFound, IdsOnce, OpenAlone,
         FindRun(entered[cursor + 1]) = 0,
         NEW k \in Runs, k = RunOf(entered[cursor + 1].n), NEW i, i = Len(runRows) + 1
  PROVE  KeptRow(runRows[i], k)'
<1>. DEFINE e == entered[cursor + 1]
            w == NewRow(e)
<1>0. /\ e \in HistoryEvents /\ runRows'[i] = w /\ k \in Nat /\ k >= 1
  BY ProjectIs, RunsAre DEF ReportsInv
<1>1. PICK b \in Reporters : b = e.by
  BY <1>0, EventStamps
<1>e. /\ Starts(e.n) => e.n = 2 * k - 1 /\ Stamped(e) = BeginStamp(b, k)
      /\ ~Starts(e.n) => e.n = 2 * k /\ Stamped(e) = EndStamp(b, k)
      /\ IdOf(e) = IdFor(b, k)
  BY <1>0, <1>1, EventStamps
<1>n. /\ e.n <= happenings /\ happenings' = happenings
      /\ \A c, n : Projected(c, n)' <=> Projected(c, n) \/ (c = b /\ n = e.n)
  BY <1>1, NextEntry DEF Project
<1>a. \A j \in 1 .. Len(runRows) : IdFor(b, k) \notin runRows[j].ids
  BY <1>1, FoundIsOwn
<1>t. /\ BeginStamp(b, k) \in 6 * k - 4 .. 6 * k - 3 /\ EndStamp(b, k) \in 6 * k .. 6 * k + 1
      /\ BeginStamp("worker", k) = 6 * k - 3 /\ EndStamp("worker", k) = 6 * k
  BY <1>0, StampsOf
<1>x. /\ BothIds(k) = {IdFor("worker", k), IdFor("forge", k)} /\ IdFor(b, k) \in BothIds(k)
      /\ \A c \in Reporters : {IdFor(b, k)} = {IdFor(c, k)} => c = b
  BY TheReporters DEF BothIds
<1>w. /\ w.ids = {IdFor(b, k)} /\ w.of = {k} /\ w.source = b
      /\ w.start = Stamped(e) /\ w.at = Stamped(e)
      /\ w.end = (IF Starts(e.n) THEN 0 ELSE Stamped(e))
      /\ w.result = (IF Starts(e.n) THEN 0 ELSE ResultOf(e))
  <2>. HIDE DEF e
  <2>1. RunOf(e.n) = k
    BY DEF e
  <2>. QED BY <1>0, <1>1, <1>e, <2>1, NewRowIs
<1>r. /\ ResultOf(e) \in {0, k} /\ (b = "forge" => ResultOf(e) = k)
  BY <1>1 DEF ResultOf
<1>f. Starts(e.n) => ~\E c \in Reporters : Projected(c, 2 * k)
  <2>1. ASSUME Starts(e.n), NEW c \in Reporters, Projected(c, 2 * k) PROVE FALSE
    <3>1. 2 * k \in 1 .. LastHappening /\ RunOf(2 * k) = k
      BY <1>0, <2>1, ProjectedIs, JobNumbers
    <3>2. PICK j \in 1 .. Len(runRows) : IdFor(c, k) \in runRows[j].ids
      BY <2>1, <3>1 DEF IdsFound
    <3>3. PICK m \in Runs : KeptRow(runRows[j], m)
      BY DEF RowsKept
    <3>4. IdFor(c, k) \in BothIds(m)
      BY <3>2, <3>3 DEF KeptRow, HoldsJob
    <3>5. m = k
      BY <3>4 DEF BothIds, IdFor
    <3>. QED BY <2>1, <3>3, <3>5, StartIsFound
  <2>. QED BY <2>1
<1>g. ~Starts(e.n) => b = "forge" /\ Projected("worker", 2 * k - 1)
  BY <1>1, EndUnfound
<1>. HIDE DEF e, w
<1>2. HoldsJob(w, k)
  <2>1. 2 * k - 1 <= happenings
    <3>1. happenings \in Nat
      BY RowTypes DEF ReportsInv
    <3>. QED BY <1>0, <1>e, <1>n, <3>1
  <2>2. w.result \in {0, UnknownResult, k}
    BY <1>r, <1>w
  <2>. QED BY <1>w, <1>x, <2>1, <2>2 DEF HoldsJob
<1>3. StampsInJob(w, k)
  <2>0. Stamped(e) \in 6 * k - 4 .. 6 * k + 1
    BY <1>0, <1>e, <1>t
  <2>1. ASSUME w.ids = {IdFor("worker", k)} PROVE w.at <= 6 * k
    <3>1. b = "worker"
      BY <1>w, <1>x, <2>1 DEF Reporters
    <3>. QED BY <1>0, <1>e, <1>t, <1>w, <3>1
  <2>. QED BY <1>w, <2>0, <2>1 DEF StampsInJob
<1>4. CASE Starts(e.n)
  <2>1. FromStart(w, k)
    BY <1>e, <1>w, <1>4 DEF FromStart
  <2>2. w.end = 0
    BY <1>w, <1>4
  <2>3. \A c \in Reporters : ~Projected(c, 2 * k)'
    <3>1. e.n # 2 * k
      BY <1>0, <1>e, <1>4
    <3>. QED BY <1>f, <1>n, <1>4, <3>1
  <2>4. HoldsJob(runRows[i], k)' /\ StampsInJob(runRows[i], k)'
    BY <1>0, <1>2, <1>3, <1>n DEF HoldsJob, StampsInJob
  <2>5. FromStart(runRows[i], k)'
    BY <1>0, <2>1 DEF FromStart
  <2>6. EndsAsReported(runRows[i], k)' /\ OpenIsKnown(runRows[i], k)'
    BY <2>3 DEF EndsAsReported, OpenIsKnown
  <2>7. ClosedForAReason(runRows[i], k)'
    BY <1>0, <2>2 DEF ClosedForAReason
  <2>. QED BY <2>4, <2>5, <2>6, <2>7 DEF KeptRow
<1>5. CASE ~Starts(e.n)
  <2>1. /\ b = "forge" /\ Projected("worker", 2 * k - 1)' /\ Projected("forge", 2 * k)'
    BY <1>e, <1>g, <1>n, <1>5
  <2>2. w.end = EndStamp("forge", k) /\ w.at = EndStamp("forge", k) /\ w.end # 0
    BY <1>0, <1>e, <1>t, <1>w, <1>5, <2>1
  <2>3. w.result # 0 /\ w.start = EndStamp("forge", k) /\ w.ids = {IdFor("forge", k)}
    BY <1>0, <1>e, <1>r, <1>w, <1>5, <2>1
  <2>4. HoldsJob(runRows[i], k)' /\ StampsInJob(runRows[i], k)'
    BY <1>0, <1>2, <1>3, <1>n DEF HoldsJob, StampsInJob
  <2>5. FromEnd(runRows[i], k)'
    BY <1>0, <2>1, <2>2, <2>3 DEF FromEnd
  <2>6. EndsAsReported(runRows[i], k)'
    BY <1>0, <1>x, <2>1, <2>2, <2>3 DEF EndsAsReported
  <2>7. ClosedForAReason(runRows[i], k)'
    BY <1>0, <2>1, <2>3 DEF ClosedForAReason, Reporters
  <2>8. OpenIsKnown(runRows[i], k)'
    BY <1>0, <2>2 DEF OpenIsKnown
  <2>. QED BY <2>4, <2>5, <2>6, <2>7, <2>8 DEF KeptRow
<1>. QED BY <1>4, <1>5

\* What every row keeps through a step of the projection.
LEMMA ProjectKeepsRows ==
  ASSUME ReportsInv, Project, ReportedInTurn', RowsKept, IdsFound, IdsOnce, OpenAlone
  PROVE  /\ Len(runRows) \in Nat /\ Len(runRows') \in {Len(runRows), Len(runRows) + 1}
         /\ \A i \in 1 .. Len(runRows) :
              /\ i \in 1 .. Len(runRows')
              /\ runRows'[i].of = runRows[i].of /\ runRows'[i].start = runRows[i].start
              /\ runRows'[i].end = 0 => runRows[i].end = 0
              /\ runRows'[i].ids = runRows[i].ids \/ FindRun(entered[cursor + 1]) = i
<1>. DEFINE e == entered[cursor + 1]
            f == FindRun(e)
<1>0. Len(runRows) \in Nat /\ e \in HistoryEvents /\ HistoryTypeOK
  BY ProjectIs, RowTypes DEF ReportsInv
<1>1. /\ f = 0 => /\ Len(runRows') = Len(runRows) + 1
                  /\ \A j \in 1 .. Len(runRows) : runRows'[j] = runRows[j]
      /\ f # 0 => /\ f \in 1 .. Len(runRows) /\ Len(runRows') = Len(runRows)
                  /\ \A j \in 1 .. Len(runRows) : j # f => runRows'[j] = runRows[j]
  BY <1>0, ProjectIs
<1>2. ASSUME NEW i \in 1 .. Len(runRows), f = i
      PROVE  /\ runRows'[i].of = runRows[i].of /\ runRows'[i].start = runRows[i].start
             /\ runRows'[i].end = 0 => runRows[i].end = 0
  <2>1. PICK k \in Runs : k = RunOf(e.n)
    BY <1>0, EventStamps
  <2>2. /\ KeptRow(runRows[i], k)
        /\ runRows'[i].of = {k} /\ runRows'[i].start = runRows[i].start
        /\ runRows'[i].end = 0 => runRows[i].end = 0
    BY <1>2, <2>1, WrittenKept
  <2>3. runRows[i].of = {k}
    BY <2>2 DEF KeptRow, HoldsJob
  <2>. QED BY <2>2, <2>3
<1>. HIDE DEF f, e
<1>3. Len(runRows') \in {Len(runRows), Len(runRows) + 1}
  BY <1>1
<1>4. ASSUME NEW i \in 1 .. Len(runRows)
      PROVE  /\ i \in 1 .. Len(runRows')
             /\ runRows'[i].of = runRows[i].of /\ runRows'[i].start = runRows[i].start
             /\ runRows'[i].end = 0 => runRows[i].end = 0
             /\ runRows'[i].ids = runRows[i].ids \/ f = i
  <2>1. i \in 1 .. Len(runRows')
    BY <1>0, <1>3
  <2>2. CASE f = i
    BY <1>2, <2>1, <2>2
  <2>3. CASE f # i
    <3>1. runRows'[i] = runRows[i]
      BY <1>0, <1>1, <2>3
    <3>. QED BY <2>1, <3>1
  <2>. QED BY <2>2, <2>3
<1>. QED BY <1>0, <1>3, <1>4 DEF f, e

LEMMA ProjectRowsKept ==
  ASSUME ReportsInv, Project, ReportedInTurn', RowsKept, IdsFound, IdsOnce, OpenAlone
  PROVE  RowsKept'
<1>. DEFINE e == entered[cursor + 1]
            f == FindRun(e)
<1>0. Len(runRows) \in Nat /\ e \in HistoryEvents /\ HistoryTypeOK
  BY ProjectIs, RowTypes DEF ReportsInv
<1>1. PICK k \in Runs : k = RunOf(e.n)
  BY <1>0, EventStamps
<1>2. Len(runRows') \in {Len(runRows), Len(runRows) + 1}
  BY ProjectKeepsRows
<1>3. /\ f = 0 => /\ Len(runRows') = Len(runRows) + 1
                  /\ \A j \in 1 .. Len(runRows) : runRows'[j] = runRows[j]
      /\ f # 0 => /\ f \in 1 .. Len(runRows) /\ Len(runRows') = Len(runRows)
                  /\ \A j \in 1 .. Len(runRows) : j # f => runRows'[j] = runRows[j]
  BY <1>0, ProjectIs
<1>4. ASSUME NEW i \in 1 .. Len(runRows), f # i
      PROVE  \E j \in Runs : KeptRow(runRows[i], j)'
  <2>1. PICK j \in Runs : KeptRow(runRows[i], j)
    BY DEF RowsKept
  <2>2. runRows'[i] = runRows[i]
    <3>. HIDE DEF f
    <3>. QED BY <1>0, <1>3, <1>4
  <2>3. ASSUME NEW b \in Reporters, Projected(b, 2 * j)',
               IdFor(b, j) \in runRows[i].ids \/ runRows[i].end = 0
        PROVE  Projected(b, 2 * j)
    <3>1. CASE b = e.by /\ 2 * j = e.n
      <4>1. j = k
        BY <1>1, <2>1, <3>1, RunsAre, JobNumbers
      <4>2. CASE IdFor(b, j) \in runRows[i].ids
        BY <1>1, <1>4, <3>1, <4>1, <4>2, FoundIsOwn
      <4>3. CASE runRows[i].end = 0
        BY <1>1, <1>4, <2>1, <4>1, <4>3, OpenIsFound
      <4>. QED BY <2>3, <4>2, <4>3
    <3>. QED BY <2>3, <3>1, NextEntry
  <2>4. /\ \A b, n : Projected(b, n) => Projected(b, n)'
        /\ Arrived(2 * j - 1) => Arrived(2 * j - 1)'
        /\ happenings' = happenings /\ (forgotten => forgotten')
    BY NextEntry DEF Project
  <2>5. KeptRow(runRows[i], j)'
    BY <2>1, <2>2, <2>3, <2>4, KeptStays
  <2>. QED BY <2>5
<1>5. ASSUME NEW i \in 1 .. Len(runRows')
      PROVE  \E j \in Runs : KeptRow(runRows[i], j)'
  <2>1. CASE i \in 1 .. Len(runRows) /\ f = i
    BY <1>1, <2>1, WrittenKept
  <2>2. CASE i \in 1 .. Len(runRows) /\ f # i
    BY <1>4, <2>2
  <2>3. CASE i \notin 1 .. Len(runRows)
    <3>1. i = Len(runRows) + 1 /\ f = 0
      <4>. HIDE DEF f
      <4>. QED BY <1>0, <1>2, <1>3, <2>3
    <3>. QED BY <1>1, <3>1, NewKept
  <2>. QED BY <2>1, <2>2, <2>3
<1>6. Runs' = Runs
  BY DEF Runs
<1>. QED BY <1>5, <1>6 DEF RowsKept

LEMMA ProjectOneRow ==
  ASSUME ReportsInv, Project, ReportedInTurn', HistoryRowsInv
  PROVE  OneRow' /\ OpenAlone'
<1>. DEFINE e == entered[cursor + 1]
            f == FindRun(e)
            N == Len(runRows)
<1>. USE DEF HistoryRowsInv
<1>0. N \in Nat /\ e \in HistoryEvents /\ HistoryTypeOK
  BY ProjectIs, RowTypes DEF ReportsInv
<1>1. PICK k \in Runs : k = RunOf(e.n)
  BY <1>0, EventStamps
<1>2. /\ Len(runRows') \in {N, N + 1}
      /\ \A i \in 1 .. N : /\ runRows'[i].of = runRows[i].of
                           /\ runRows'[i].end = 0 => runRows[i].end = 0
  BY ProjectKeepsRows
<1>3. \A i \in 1 .. Len(runRows') : i \in 1 .. N \/ i = N + 1
  BY <1>0, <1>2
<1>4. N + 1 \in 1 .. Len(runRows') =>
        /\ f = 0 /\ runRows'[N + 1].of = {k}
        /\ runRows'[N + 1].end = 0 => Starts(e.n)
  <2>1. ASSUME N + 1 \in 1 .. Len(runRows')
        PROVE  f = 0 /\ runRows'[N + 1] = NewRow(e)
    <3>1. Len(runRows') # N
      BY <1>0, <2>1
    <3>. QED BY <1>0, <3>1, ProjectIs
  <2>2. /\ NewRow(e).of = {RunOf(e.n)}
        /\ NewRow(e).end = (IF Starts(e.n) THEN 0 ELSE Stamped(e))
    BY <1>0, NewRowIs
  <2>3. ~Starts(e.n) => Stamped(e) # 0
    <3>1. e.by \in Reporters /\ k \in Nat /\ k >= 1
      BY <1>0, <1>1, EventStamps, RunsAre
    <3>2. ~Starts(e.n) => Stamped(e) = EndStamp(e.by, k)
      BY <1>0, <1>1, EventStamps
    <3>. QED BY <3>1, <3>2, StampsOf
  <2>. QED BY <1>1, <2>1, <2>2, <2>3
<1>5. ASSUME f = 0, NEW j \in 1 .. N, KeptRow(runRows[j], k)
      PROVE  forgotten /\ StartLost(k) /\ ~Starts(e.n) /\ runRows[j].end # 0
  <2>1. ~Starts(e.n)
    BY <1>1, <1>5, StartIsFound
  <2>2. forgotten /\ StartLost(k)
    BY <1>1, <1>5, <2>1, EndUnfound
  <2>3. runRows[j].end # 0
    BY <1>1, <1>5, UnfoundFitsNot
  <2>. QED BY <2>1, <2>2, <2>3
<1>6. /\ UNCHANGED <<happenings, deliveries, entered, forgotten>>
      /\ Runs' = Runs
  BY DEF Project, Runs
<1>. HIDE DEF e, f, N
<1>7. ASSUME NEW m \in Runs, NEW i \in 1 .. Len(runRows'), NEW j \in 1 .. Len(runRows'),
             m \in runRows'[i].of, m \in runRows'[j].of, i # j
      PROVE  forgotten /\ StartLost(m)
  <2>1. CASE i \in 1 .. N /\ j \in 1 .. N
    BY <1>2, <1>7, <2>1 DEF OneRow, N
  <2>2. CASE i = N + 1 /\ j \in 1 .. N
    <3>1. f = 0 /\ m = k
      BY <1>4, <1>7, <2>2
    <3>2. KeptRow(runRows[j], k)
      BY <1>2, <1>7, <2>2, <3>1, OfItsJob DEF N
    <3>. QED BY <1>5, <2>2, <3>1, <3>2
  <2>3. CASE j = N + 1 /\ i \in 1 .. N
    <3>1. f = 0 /\ m = k
      BY <1>4, <1>7, <2>3
    <3>2. KeptRow(runRows[i], k)
      BY <1>2, <1>7, <2>3, <3>1, OfItsJob DEF N
    <3>. QED BY <1>5, <2>3, <3>1, <3>2
  <2>. QED BY <1>3, <1>7, <2>1, <2>2, <2>3
<1>8. OneRow'
  BY <1>6, <1>7 DEF OneRow, StartLost
<1>9. ASSUME NEW i \in 1 .. Len(runRows'), NEW j \in 1 .. Len(runRows'),
             runRows'[i].end = 0, runRows'[i].of = runRows'[j].of
      PROVE  i = j
  <2>1. CASE i \in 1 .. N /\ j \in 1 .. N
    BY <1>2, <1>9, <2>1 DEF OpenAlone, N
  <2>2. CASE i = N + 1 /\ j \in 1 .. N
    <3>1. f = 0 /\ Starts(e.n) /\ runRows[j].of = {k}
      BY <1>2, <1>4, <1>9, <2>2
    <3>2. KeptRow(runRows[j], k)
      BY <2>2, <3>1, OfItsJob DEF N
    <3>. QED BY <1>5, <2>2, <3>1, <3>2
  <2>3. CASE j = N + 1 /\ i \in 1 .. N
    <3>1. f = 0 /\ runRows[i].of = {k} /\ runRows[i].end = 0
      BY <1>2, <1>4, <1>9, <2>3
    <3>2. KeptRow(runRows[i], k)
      BY <2>3, <3>1, OfItsJob DEF N
    <3>. QED BY <1>5, <2>3, <3>1, <3>2
  <2>. QED BY <1>3, <1>9, <2>1, <2>2, <2>3
<1>. QED BY <1>8, <1>9 DEF OpenAlone

LEMMA ProjectIds ==
  ASSUME ReportsInv, Project, ReportedInTurn', RowsKept, IdsFound, IdsOnce, OpenAlone
  PROVE  IdsFound' /\ IdsOnce'
<1>. DEFINE e == entered[cursor + 1]
            f == FindRun(e)
            x == IdOf(e)
            N == Len(runRows)
<1>0. N \in Nat /\ e \in HistoryEvents /\ HistoryTypeOK /\ x = IdFor(e.by, RunOf(e.n))
  BY ProjectIs, RowTypes, EventStamps DEF ReportsInv
<1>1. \A i \in 1 .. N : x \in runRows[i].ids => f = i /\ f # 0
  BY <1>0, FoundIsOwn
<1>2. /\ f = 0 => /\ Len(runRows') = N + 1 /\ runRows'[N + 1].ids = {x}
                  /\ \A j \in 1 .. N : runRows'[j] = runRows[j]
      /\ f # 0 => /\ f \in 1 .. N /\ Len(runRows') = N
                  /\ runRows'[f].ids = runRows[f].ids \cup {x}
                  /\ \A j \in 1 .. N : j # f => runRows'[j] = runRows[j]
  <2>1. \A r \in HistoryRows : Written(r, e).ids = r.ids \cup {x}
    BY <1>0, WrittenIs
  <2>2. NewRow(e).ids = {x}
    BY <1>0, NewRowIs
  <2>3. \A i \in 1 .. N : runRows[i] \in HistoryRows
    BY <1>0, RowTypes
  <2>. QED BY <1>0, <2>1, <2>2, <2>3, ProjectIs
<1>3. \A b, n : Projected(b, n)' => Projected(b, n) \/ (b = e.by /\ n = e.n)
  BY NextEntry
<1>. HIDE DEF e, f, x, N
<1>4. \A i \in 1 .. N : i \in 1 .. Len(runRows') /\ runRows[i].ids \subseteq runRows'[i].ids
  <2>1. CASE f = 0
    BY <1>0, <1>2, <2>1
  <2>2. CASE f # 0
    BY <1>0, <1>2, <2>2
  <2>. QED BY <2>1, <2>2
<1>5. \E i \in 1 .. Len(runRows') : x \in runRows'[i].ids
  <2>1. CASE f = 0
    BY <1>0, <1>2, <2>1
  <2>2. CASE f # 0
    BY <1>0, <1>2, <2>2
  <2>. QED BY <2>1, <2>2
<1>6. ASSUME NEW b \in Reporters, NEW n \in 1 .. LastHappening, Projected(b, n)'
      PROVE  \E i \in 1 .. Len(runRows') : IdFor(b, RunOf(n)) \in runRows'[i].ids
  <2>1. CASE Projected(b, n)
    <3>1. PICK i \in 1 .. N : IdFor(b, RunOf(n)) \in runRows[i].ids
      BY <2>1 DEF IdsFound, N
    <3>. QED BY <1>4, <3>1
  <2>2. CASE b = e.by /\ n = e.n
    BY <1>0, <1>5, <2>2
  <2>. QED BY <1>3, <1>6, <2>1, <2>2
<1>7. ASSUME NEW i \in 1 .. Len(runRows'), NEW j \in 1 .. Len(runRows'),
             NEW id \in runRows'[i].ids, id \in runRows'[j].ids
      PROVE  i = j
  <2>1. CASE f = 0
    <3>1. (i \in 1 .. N \/ i = N + 1) /\ (j \in 1 .. N \/ j = N + 1)
      BY <1>0, <1>2, <2>1
    <3>2. CASE i \in 1 .. N /\ j \in 1 .. N
      BY <1>2, <1>7, <2>1, <3>2 DEF IdsOnce, N
    <3>3. CASE i = N + 1 /\ j \in 1 .. N
      BY <1>1, <1>2, <1>7, <2>1, <3>3
    <3>4. CASE j = N + 1 /\ i \in 1 .. N
      BY <1>1, <1>2, <1>7, <2>1, <3>4
    <3>. QED BY <3>1, <3>2, <3>3, <3>4
  <2>2. CASE f # 0
    <3>1. i \in 1 .. N /\ j \in 1 .. N /\ f \in 1 .. N
      BY <1>2, <2>2
    <3>2. \A m \in 1 .. N : id \in runRows'[m].ids => id \in runRows[m].ids \/ (m = f /\ id = x)
      BY <1>2, <2>2
    <3>3. CASE id = x
      BY <1>1, <1>7, <3>1, <3>2, <3>3
    <3>4. CASE id # x
      <4>1. id \in runRows[i].ids /\ id \in runRows[j].ids
        BY <1>7, <3>1, <3>2, <3>4
      <4>. QED BY <3>1, <4>1 DEF IdsOnce, N
    <3>. QED BY <3>3, <3>4
  <2>. QED BY <2>1, <2>2
<1>8. IdsFound'
  BY <1>6 DEF IdsFound, IdFor, RunOf
<1>. QED BY <1>7, <1>8 DEF IdsOnce

LEMMA ProjectKeeps ==
  ASSUME ReportsInv, Project, ReportedInTurn', HistoryRowsInv
  PROVE  HistoryRowsInv'
<1>. USE DEF HistoryRowsInv
<1>1. RowsKept' /\ IdsFound' /\ IdsOnce' /\ OpenAlone' /\ OneRow'
  BY ProjectRowsKept, ProjectIds, ProjectOneRow
<1>2. /\ \A i \in 1 .. Len(runRows) :
           /\ i \in 1 .. Len(runRows')
           /\ runRows'[i].of = runRows[i].of
           /\ runRows'[i].end = 0 => runRows[i].end = 0
      /\ told' = told /\ said' = said /\ (forgotten => forgotten')
      /\ \A n : Arrived(n) => Arrived(n)'
  BY ProjectKeepsRows, NextEntry DEF Project
<1>3. ToldTruth'
  BY <1>2 DEF ToldTruth, NotTold, EndStamp
<1>4. SaidTruth'
  BY <1>2 DEF SaidTruth
<1>. QED BY <1>1, <1>3, <1>4

-----------------------------------------------------------------------------
(* The other steps.                                                        *)

\* What writes nothing in the history, nor takes back what was reported.
LEMMA QuietKeeps ==
  ASSUME ReportsInv, HistoryRowsInv, UNCHANGED <<runRows, told, said, cursor>>,
         \A i \in 1 .. cursor : entered'[i] = entered[i],
         \A n \in Int : Arrived(n) => Arrived(n)',
         \A k \in Runs : StartLost(k) => StartLost(k)',
         happenings \in Int, happenings' \in Int, happenings <= happenings', forgotten => forgotten'
  PROVE  HistoryRowsInv'
<1>. USE DEF HistoryRowsInv
<1>1. \A b, n : Projected(b, n)' <=> Projected(b, n)
  BY DEF Projected, Entry
<1>2. RowsKept'
  <2>1. ASSUME NEW i \in 1 .. Len(runRows) PROVE \E k \in Runs : KeptRow(runRows[i], k)'
    <3>1. PICK k \in Runs : KeptRow(runRows[i], k)
      BY DEF RowsKept
    <3>2. 2 * k - 1 \in Int /\ (2 * k - 1 <= happenings => 2 * k - 1 <= happenings')
      BY RunsAre
    <3>3. KeptRow(runRows[i], k)'
      BY <1>1, <3>1, <3>2, KeptStays
    <3>. QED BY <3>3
  <2>2. Runs' = Runs /\ Len(runRows') = Len(runRows)
    BY DEF Runs
  <2>. QED BY <2>1, <2>2 DEF RowsKept
<1>3. IdsFound'
  BY <1>1 DEF IdsFound, IdFor, RunOf
<1>4. IdsOnce' /\ OpenAlone' /\ SaidTruth'
  BY DEF IdsOnce, OpenAlone, SaidTruth
<1>5. OneRow'
  <2>1. Runs' = Runs
    BY DEF Runs
  <2>. QED BY <2>1 DEF OneRow
<1>6. ToldTruth'
  <2>1. \A i \in 1 .. Len(runRows) : \A k : k \in runRows[i].of => 2 * k - 1 \in Int
    BY OfItsJob, RunsAre
  <2>. QED BY <2>1 DEF ToldTruth, NotTold, EndStamp
<1>. QED BY <1>2, <1>3, <1>4, <1>5, <1>6

LEMMA SameTurn ==
  ASSUME ReportedInTurn', cursor' = cursor, cursor \in Nat,
         \A i \in 1 .. cursor : entered'[i] = entered[i]
  PROVE  ReportedInTurn
BY DEF ReportedInTurn

HistoryAhead == ReportedInTurn => HistoryRowsInv

LEMMA HappenAhead ==
  ASSUME HistoryInv, Happen
  PROVE  HistoryAhead'
<1>0. ReportsInv /\ HistoryTypeOK
  BY DEF HistoryInv, ReportsInv
<1>1. /\ happenings' = happenings + 1 /\ happenings \in Nat
      /\ deliveries' = deliveries \cup {happenings + 1} /\ toPost' = Append(toPost, happenings + 1)
      /\ UNCHANGED <<entered, cursor, runRows, told, said, forgotten>>
      /\ toPost \in Seq(1 .. LastHappening) /\ happenings + 1 \in 1 .. LastHappening
  BY <1>0, RowTypes DEF Happen
<1>2. ASSUME NEW n, n \in Range(toPost') PROVE n \in Range(toPost) \/ n = happenings + 1
  <2>1. PICK i \in DOMAIN toPost' : n = toPost'[i]
    BY <1>2 DEF Range
  <2>2. /\ DOMAIN toPost' = 1 .. Len(toPost) + 1 /\ DOMAIN toPost = 1 .. Len(toPost)
        /\ Len(toPost) \in Nat /\ toPost'[Len(toPost) + 1] = happenings + 1
        /\ \A j \in 1 .. Len(toPost) : toPost'[j] = toPost[j]
    BY <1>1
  <2>. QED BY <2>1, <2>2 DEF Range
<1>3. ASSUME NEW n \in Int, Arrived(n) PROVE Arrived(n)'
  <2>1. /\ n <= happenings /\ n \notin Range(toPost) /\ n \notin deliveries
        /\ \A j \in cursor + 1 .. Len(entered) : entered[j].n # n
    BY <1>3 DEF Arrived
  <2>2. n # happenings + 1 /\ n <= happenings'
    BY <1>1, <2>1
  <2>3. n \notin Range(toPost')
    BY <1>2, <2>1, <2>2
  <2>. QED BY <1>1, <2>1, <2>2, <2>3 DEF Arrived
<1>4. ASSUME NEW k \in Runs, StartLost(k) PROVE StartLost(k)'
  <2>1. 2 * k - 1 \in Int
    BY RunsAre
  <2>. QED BY <1>1, <1>4, <2>1 DEF StartLost
<1>5. ReportedInTurn' => ReportedInTurn
  BY <1>1 DEF ReportedInTurn
<1>. QED BY <1>0, <1>1, <1>3, <1>4, <1>5, QuietKeeps DEF HistoryInv, HistoryAhead

\* An entry takes an event from those on their way to the projection, where it still is.
LEMMA EnterAhead ==
  ASSUME HistoryInv, NEW e \in HistoryEvents, Enter(e),
         e.n \in Range(toPost) \cup deliveries, Range(toPost') \subseteq Range(toPost),
         deliveries' \subseteq deliveries, e.by = "forge" => e.n \in deliveries
  PROVE  HistoryAhead'
<1>0. ReportsInv /\ HistoryTypeOK
  BY DEF HistoryInv, ReportsInv
<1>1. /\ entered' \in Seq(HistoryEvents) /\ Len(entered') = Len(entered) + 1
      /\ entered'[Len(entered) + 1] = e
      /\ \A i \in 1 .. Len(entered) : entered'[i] = entered[i]
  BY <1>0, EnterIs
<1>2. /\ UNCHANGED <<happenings, cursor, runRows, told, said, forgotten>>
      /\ cursor \in 0 .. Len(entered) /\ Len(entered) \in Nat /\ happenings \in Int
  BY <1>0, RowTypes DEF Enter
<1>3. ASSUME NEW n \in Int, Arrived(n) PROVE Arrived(n)'
  <2>1. /\ n <= happenings /\ n \notin Range(toPost) /\ n \notin deliveries
        /\ \A j \in cursor + 1 .. Len(entered) : entered[j].n # n
    BY <1>3 DEF Arrived
  <2>2. \A j \in cursor + 1 .. Len(entered') : entered'[j].n # n
    <3>1. e.n # n
      BY <2>1
    <3>2. \A j \in cursor + 1 .. Len(entered') :
            j = Len(entered) + 1 \/ (j \in 1 .. Len(entered) /\ j \in cursor + 1 .. Len(entered))
      BY <1>1, <1>2
    <3>. QED BY <1>1, <2>1, <3>1, <3>2
  <2>. QED BY <1>2, <2>1, <2>2 DEF Arrived
<1>4. ASSUME NEW k \in Runs, StartLost(k) PROVE StartLost(k)'
  <2>1. /\ 2 * k - 1 <= happenings /\ 2 * k - 1 \notin deliveries
        /\ \A i \in 1 .. Len(entered) : entered[i] # [by |-> "forge", n |-> 2 * k - 1]
    BY <1>4 DEF StartLost
  <2>2. e # [by |-> "forge", n |-> 2 * k - 1]
    BY <2>1
  <2>3. \A i \in 1 .. Len(entered') : entered'[i] # [by |-> "forge", n |-> 2 * k - 1]
    BY <1>1, <1>2, <2>1, <2>2, OneLonger
  <2>. QED BY <1>2, <2>1, <2>3 DEF StartLost
<1>5. \A i \in 1 .. cursor : entered'[i] = entered[i]
  BY <1>1, <1>2
<1>6. ReportedInTurn' => ReportedInTurn
  BY <1>2, <1>5, SameTurn
<1>. QED BY <1>0, <1>2, <1>3, <1>4, <1>5, <1>6, QuietKeeps DEF HistoryInv, HistoryAhead

LEMMA PostedAhead ==
  ASSUME HistoryInv, Posted
  PROVE  HistoryAhead'
<1>0. ReportsInv /\ HistoryTypeOK
  BY DEF HistoryInv, ReportsInv
<1>1. toPost \in Seq(1 .. LastHappening) /\ toPost # <<>> /\ toPost' = Tail(toPost)
  BY <1>0, RowTypes DEF Posted
<1>2. /\ Len(toPost) \in Nat /\ Len(toPost) >= 1 /\ Head(toPost) = toPost[1]
      /\ DOMAIN toPost = 1 .. Len(toPost) /\ DOMAIN toPost' = 1 .. Len(toPost) - 1
      /\ \A i \in 1 .. Len(toPost) - 1 : toPost'[i] = toPost[i + 1]
      /\ Head(toPost) \in 1 .. LastHappening
  <2>1. Len(toPost) \in Nat /\ Len(toPost) >= 1 /\ Head(toPost) = toPost[1]
    BY <1>1
  <2>2. Head(toPost) \in 1 .. LastHappening
    BY <1>0, <2>1, RowTypes
  <2>3. toPost' \in Seq(1 .. LastHappening) /\ Len(toPost') = Len(toPost) - 1
    BY <1>1
  <2>4. DOMAIN toPost = 1 .. Len(toPost) /\ DOMAIN toPost' = 1 .. Len(toPost')
    <3>1. DOMAIN toPost = 1 .. Len(toPost)
      BY <1>1
    <3>2. DOMAIN toPost' = 1 .. Len(toPost')
      BY <2>3
    <3>. QED BY <3>1, <3>2
  <2>5. \A i \in 1 .. Len(toPost') : toPost'[i] = toPost[i + 1]
    BY <1>0, RowTypes DEF Posted
  <2>. QED BY <2>1, <2>2, <2>3, <2>4, <2>5
<1>3. Head(toPost) \in Range(toPost) /\ Range(toPost') \subseteq Range(toPost)
  <2>1. 1 \in DOMAIN toPost /\ \A i \in DOMAIN toPost' : i + 1 \in DOMAIN toPost
    BY <1>2
  <2>2. ASSUME NEW n \in Range(toPost') PROVE n \in Range(toPost)
    <3>1. PICK i \in DOMAIN toPost' : n = toPost'[i]
      BY DEF Range
    <3>2. n = toPost[i + 1] /\ i + 1 \in DOMAIN toPost
      BY <1>2, <2>1, <3>1
    <3>. QED BY <3>2 DEF Range
  <2>. QED BY <1>2, <2>1, <2>2 DEF Range
<1>. DEFINE e == [by |-> "worker", n |-> Head(toPost)]
<1>4. e \in HistoryEvents /\ e.n = Head(toPost) /\ e.by = "worker" /\ Enter(e)
      /\ deliveries' = deliveries
  BY <1>2 DEF HistoryEvents, Reporters, Posted
<1>. HIDE DEF e
<1>. QED BY <1>3, <1>4, EnterAhead

LEMMA DeliveredAhead ==
  ASSUME HistoryInv, NEW n \in deliveries, Delivered(n)
  PROVE  HistoryAhead'
<1>0. ReportsInv /\ HistoryTypeOK
  BY DEF HistoryInv, ReportsInv
<1>. DEFINE e == [by |-> "forge", n |-> n]
<1>1. e \in HistoryEvents /\ e.n = n /\ e.by = "forge" /\ Enter(e)
      /\ deliveries' \subseteq deliveries /\ toPost' = toPost
  BY <1>0 DEF HistoryTypeOK, HistoryEvents, Reporters, Delivered
<1>. HIDE DEF e
<1>2. Range(toPost') \subseteq Range(toPost)
  BY <1>1 DEF Range
<1>. QED BY <1>1, <1>2, EnterAhead

LEMMA LostAhead ==
  ASSUME HistoryInv, NEW n \in deliveries, DeliveryLost(n)
  PROVE  HistoryAhead'
<1>0. ReportsInv /\ HistoryTypeOK
  BY DEF HistoryInv, ReportsInv
<1>1. /\ deliveries' \subseteq deliveries
      /\ UNCHANGED <<happenings, toPost, entered, cursor, runRows, told, said, forgotten>>
  BY DEF DeliveryLost, HistoryFault
<1>2. happenings \in Int /\ cursor \in Nat
  BY <1>0, RowTypes
<1>3. \A m \in Int : Arrived(m) => Arrived(m)'
  BY <1>1 DEF Arrived, Range
<1>4. \A k \in Runs : StartLost(k) => StartLost(k)'
  BY <1>1 DEF StartLost
<1>5. ReportedInTurn' => ReportedInTurn
  BY <1>1 DEF ReportedInTurn
<1>. QED BY <1>0, <1>1, <1>2, <1>3, <1>4, <1>5, QuietKeeps DEF HistoryInv, HistoryAhead

\* What concerns neither reports nor rows.
LEMMA ElseAhead ==
  ASSUME HistoryInv,
         UNCHANGED <<happenings, toPost, deliveries, entered, cursor, runRows, told, said>>,
         forgotten => forgotten'
  PROVE  HistoryAhead'
<1>0. ReportsInv /\ HistoryTypeOK
  BY DEF HistoryInv, ReportsInv
<1>2. happenings \in Int /\ cursor \in Nat
  BY <1>0, RowTypes
<1>3. \A m \in Int : Arrived(m) => Arrived(m)'
  BY DEF Arrived, Range
<1>4. \A k \in Runs : StartLost(k) => StartLost(k)'
  BY DEF StartLost
<1>5. ReportedInTurn' => ReportedInTurn
  BY DEF ReportedInTurn
<1>. QED BY <1>0, <1>2, <1>3, <1>4, <1>5, QuietKeeps DEF HistoryInv, HistoryAhead

LEMMA ProjectAhead ==
  ASSUME HistoryInv, Project
  PROVE  HistoryAhead'
BY NextEntry, ProjectKeeps DEF HistoryInv, HistoryAhead

\* The forge's answer about a row without a result is of the row's own job.
LEMMA AskAhead ==
  ASSUME HistoryInv, NEW i \in PendingResults, AskForResult(i)
  PROVE  HistoryAhead'
<1>0. ReportsInv /\ HistoryTypeOK
  BY DEF HistoryInv, ReportsInv
<1>1. UNCHANGED <<happenings, toPost, deliveries, entered, cursor, runRows, said, forgotten>>
  BY DEF AskForResult
<1>2. ReportedInTurn' => ReportedInTurn
  BY <1>1 DEF ReportedInTurn
<1>3. ASSUME HistoryRowsInv PROVE HistoryRowsInv'
  <2>. USE DEF HistoryRowsInv
  <2>1. RowsKept' /\ IdsFound' /\ IdsOnce' /\ OpenAlone' /\ OneRow' /\ SaidTruth'
    <3>1. \A b, n : Projected(b, n)' <=> Projected(b, n)
      BY <1>1 DEF Projected, Entry
    <3>2. \A n : Arrived(n) => Arrived(n)'
      BY <1>1 DEF Arrived, Range
    <3>3. RowsKept'
      <4>1. ASSUME NEW j \in 1 .. Len(runRows) PROVE \E k \in Runs : KeptRow(runRows[j], k)'
        <5>1. PICK k \in Runs : KeptRow(runRows[j], k)
          BY <1>3 DEF RowsKept
        <5>2. KeptRow(runRows[j], k)'
          BY <1>1, <3>1, <3>2, <5>1, KeptStays
        <5>. QED BY <5>2
      <4>2. Runs' = Runs
        BY DEF Runs
      <4>. QED BY <1>1, <4>1, <4>2 DEF RowsKept
    <3>4. IdsFound'
      BY <1>1, <1>3, <3>1 DEF IdsFound, IdFor, RunOf
    <3>5. IdsOnce' /\ OpenAlone' /\ SaidTruth'
      BY <1>1, <1>3 DEF IdsOnce, OpenAlone, SaidTruth
    <3>6. OneRow'
      <4>1. Runs' = Runs
        BY DEF Runs
      <4>. QED BY <1>1, <1>3, <4>1 DEF OneRow, StartLost
    <3>. QED BY <3>3, <3>4, <3>5, <3>6
  <2>2. PICK k \in Runs : KeptRow(runRows[i], k)
    BY <1>3 DEF RowsKept, PendingResults
  <2>3. /\ i \in 1 .. Len(runRows) /\ runRows[i].result = 0
        /\ runRows[i].of = {k} /\ 2 * k - 1 <= happenings
        /\ k \in Nat /\ k >= 1 /\ happenings \in 0 .. LastHappening
    BY <1>0, <2>2, RowTypes, RunsAre DEF PendingResults, KeptRow, HoldsJob
  <2>4. FromStart(runRows[i], k)
    BY <2>2, <2>3 DEF KeptRow, FromEnd
  <2>5. PICK b \in Reporters : runRows[i].start = BeginStamp(b, k)
    BY <2>4 DEF FromStart
  <2>6. Closest(runRows[i].start) = k /\ runRows[i].start \in 6 * k - 4 .. 6 * k - 3
    BY <2>3, <2>5, ClosestIsOwn, StampsOf
  <2>7. Stamped([by |-> "forge", n |-> 2 * k]) = EndStamp("forge", k)
        /\ EndStamp("forge", k) \in 6 * k .. 6 * k + 1
    <3>1. ~Starts(2 * k)
      BY <2>3 DEF Starts
    <3>. QED BY <2>3, <3>1, HistoryAssumption DEF Stamped, EndStamp
  <2>8. /\ told'.row = i /\ told'.result \in {UnknownResult, k}
        /\ told'.at \in 6 * k - 4 .. 6 * k + 1
        /\ told'.at = EndStamp("forge", k) \/ forgotten
    <3>1. told' = IF forgotten
                  THEN [row |-> i, result |-> UnknownResult, at |-> runRows[i].start]
                  ELSE [row |-> i, result |-> k, at |-> EndStamp("forge", k)]
      BY <2>6, <2>7 DEF AskForResult
    <3>2. CASE forgotten
      BY <2>3, <2>6, <3>1, <3>2
    <3>3. CASE ~forgotten
      BY <2>3, <2>7, <3>1, <3>3
    <3>. QED BY <3>2, <3>3
  <2>9. runRows[i].end = 0 => Arrived(2 * k - 1)
    <3>1. runRows[i].end = 0 =>
            2 * k - 1 \notin Range(toPost) \cup deliveries
                             \cup {entered[j].n : j \in cursor + 1 .. Len(entered)}
      BY <2>3 DEF PendingResults, OpenForLong
    <3>. QED BY <2>3, <3>1 DEF Arrived
  <2>10. ToldTruth'
    <3>1. runRows[i].end = 0 => Arrived(2 * k - 1)'
      BY <1>1, <2>9 DEF Arrived, Range
    <3>. QED BY <1>1, <2>3, <2>8, <3>1 DEF ToldTruth, EndStamp
  <2>. QED BY <2>1, <2>10
<1>. QED BY <1>2, <1>3 DEF HistoryInv, HistoryAhead

LEMMA AskReports ==
  ASSUME ReportsInv, NEW i \in PendingResults, AskForResult(i)
  PROVE  ReportsInv'
<1>0. HistoryTypeOK
  BY DEF ReportsInv
<1>1. UNCHANGED <<happenings, toPost, deliveries, entered, cursor, collector, noticed, runRows,
                  forgotten, said, historyFaults>>
  BY DEF AskForResult
<1>2. i \in 1 .. Len(runRows) /\ runRows[i] \in HistoryRows /\ Len(runRows) \in Nat
  BY <1>0, RowTypes DEF PendingResults
<1>3. happenings >= 1 /\ runRows[i].start \in Int
  BY <1>2 DEF ReportsInv, BegunFirst, HistoryRows
<1>4. Closest(runRows[i].start) \in Runs
  BY <1>0, <1>3, ClosestIsARun
<1>5. \A k \in Runs : Stamped([by |-> "forge", n |-> 2 * k]) \in Int
  BY RunsAre, HistoryAssumption DEF Stamped
<1>6. told' \in [row : Nat, result : {UnknownResult, 0} \cup Runs, at : Int]
  BY <1>2, <1>3, <1>4, <1>5 DEF AskForResult
<1>7. HistoryTypeOK'
  BY <1>0, <1>1, <1>6 DEF HistoryTypeOK
<1>. QED BY <1>1, <1>7, ReportsStay DEF reportVars

\* What the forge's answer does to its row.
LEMMA ApplyIs ==
  ASSUME HistoryTypeOK, ApplyResult
  PROVE  /\ told # NotTold /\ told' = NotTold
         /\ UNCHANGED <<happenings, toPost, deliveries, entered, cursor, collector, noticed,
                        forgotten, said, historyFaults>>
         /\ runRows' \in Seq(HistoryRows) /\ Len(runRows') = Len(runRows)
         /\ \A j \in 1 .. Len(runRows) : j # told.row => runRows'[j] = runRows[j]
         /\ \A i \in 1 .. Len(runRows) : i = told.row =>
              /\ runRows'[i].ids = runRows[i].ids /\ runRows'[i].of = runRows[i].of
              /\ runRows'[i].source = runRows[i].source /\ runRows'[i].at = runRows[i].at
              /\ runRows'[i].start = runRows[i].start
              /\ runRows'[i].end = (IF runRows[i].end # 0 THEN runRows[i].end ELSE told.at)
              /\ runRows'[i].result =
                   (IF runRows[i].result # 0 THEN runRows[i].result ELSE told.result)
<1>. DEFINE closed == IF runRows[told.row].end # 0 THEN runRows[told.row]
                      ELSE [runRows[told.row] EXCEPT !.end = told.at]
            w == IF closed.result # 0 THEN closed ELSE [closed EXCEPT !.result = told.result]
<1>1. /\ told # NotTold /\ told' = NotTold /\ runRows' = [runRows EXCEPT ![told.row] = w]
      /\ UNCHANGED <<happenings, toPost, deliveries, entered, cursor, collector, noticed,
                     forgotten, said, historyFaults>>
  BY DEF ApplyResult
<1>2. /\ runRows \in Seq(HistoryRows) /\ Len(runRows) \in Nat
      /\ told.result \in {UnknownResult, 0} \cup Runs /\ told.at \in Int
  BY RowTypes DEF HistoryTypeOK
<1>3. ASSUME NEW i \in 1 .. Len(runRows), i = told.row
      PROVE  /\ w \in HistoryRows
             /\ w.ids = runRows[i].ids /\ w.of = runRows[i].of
             /\ w.source = runRows[i].source /\ w.at = runRows[i].at
             /\ w.start = runRows[i].start
             /\ w.end = (IF runRows[i].end # 0 THEN runRows[i].end ELSE told.at)
             /\ w.result = (IF runRows[i].result # 0 THEN runRows[i].result ELSE told.result)
  <2>1. runRows[i] \in HistoryRows
    BY RowTypes
  <2>2. /\ closed \in HistoryRows
        /\ closed.ids = runRows[i].ids /\ closed.of = runRows[i].of
        /\ closed.source = runRows[i].source /\ closed.at = runRows[i].at
        /\ closed.start = runRows[i].start /\ closed.result = runRows[i].result
        /\ closed.end = (IF runRows[i].end # 0 THEN runRows[i].end ELSE told.at)
    BY <1>2, <1>3, <2>1 DEF HistoryRows
  <2>. HIDE DEF closed
  <2>3. /\ w \in HistoryRows
        /\ w.ids = closed.ids /\ w.of = closed.of /\ w.source = closed.source
        /\ w.at = closed.at /\ w.start = closed.start /\ w.end = closed.end
        /\ w.result = (IF closed.result # 0 THEN closed.result ELSE told.result)
    BY <1>2, <2>2 DEF HistoryRows
  <2>. HIDE DEF w
  <2>. QED BY <2>2, <2>3
<1>. HIDE DEF w
<1>4. CASE told.row \in 1 .. Len(runRows)
  <2>1. PICK i \in 1 .. Len(runRows) : i = told.row
    BY <1>4
  <2>2. /\ runRows' \in Seq(HistoryRows) /\ Len(runRows') = Len(runRows) /\ runRows'[i] = w
        /\ \A j \in 1 .. Len(runRows) : j # i => runRows'[j] = runRows[j]
    BY <1>1, <1>2, <1>3, <2>1
  <2>. QED BY <1>1, <1>3, <2>1, <2>2
<1>5. CASE told.row \notin 1 .. Len(runRows)
  <2>1. runRows' = runRows
    BY <1>1, <1>2, <1>5
  <2>. QED BY <1>1, <1>2, <1>5, <2>1
<1>. QED BY <1>4, <1>5

LEMMA ApplyReports ==
  ASSUME ReportsInv, ApplyResult
  PROVE  ReportsInv'
<1>0. HistoryTypeOK
  BY DEF ReportsInv
<1>1. /\ told' = NotTold /\ runRows' \in Seq(HistoryRows) /\ Len(runRows') = Len(runRows)
      /\ UNCHANGED <<happenings, toPost, deliveries, entered, cursor, collector, noticed,
                     forgotten, said, historyFaults>>
  BY <1>0, ApplyIs
<1>2. NotTold \in [row : Nat, result : {UnknownResult, 0} \cup Runs, at : Int]
  BY DEF NotTold
<1>3. HistoryTypeOK'
  BY <1>0, <1>1, <1>2 DEF HistoryTypeOK, HistoryRows
<1>. QED BY <1>1, <1>3, ReportsStay DEF reportVars

\* The answer closes its row, if it still is open, where the job ended or, if the forge forgot
\* it, where it began; and gives it a result if it has none.
LEMMA ApplyAhead ==
  ASSUME HistoryInv, ApplyResult
  PROVE  HistoryAhead'
<1>0. ReportsInv /\ HistoryTypeOK
  BY DEF HistoryInv, ReportsInv
<1>1. /\ told # NotTold /\ told' = NotTold
      /\ UNCHANGED <<happenings, toPost, deliveries, entered, cursor, forgotten, said>>
      /\ Len(runRows') = Len(runRows)
      /\ \A j \in 1 .. Len(runRows) : j # told.row => runRows'[j] = runRows[j]
      /\ \A i \in 1 .. Len(runRows) : i = told.row =>
           /\ runRows'[i].ids = runRows[i].ids /\ runRows'[i].of = runRows[i].of
           /\ runRows'[i].source = runRows[i].source /\ runRows'[i].at = runRows[i].at
           /\ runRows'[i].start = runRows[i].start
           /\ runRows'[i].end = (IF runRows[i].end # 0 THEN runRows[i].end ELSE told.at)
           /\ runRows'[i].result =
                (IF runRows[i].result # 0 THEN runRows[i].result ELSE told.result)
  BY <1>0, ApplyIs
<1>2. ReportedInTurn' => ReportedInTurn
  BY <1>1 DEF ReportedInTurn
<1>3. ASSUME HistoryRowsInv PROVE HistoryRowsInv'
  <2>1. /\ RowsKept /\ IdsFound /\ IdsOnce /\ OpenAlone /\ OneRow /\ SaidTruth /\ ToldTruth
    BY <1>3 DEF HistoryRowsInv
  <2>2. \A b, n : Projected(b, n)' <=> Projected(b, n)
    BY <1>1 DEF Projected, Entry
  <2>3. \A n : Arrived(n) => Arrived(n)'
    BY <1>1 DEF Arrived, Range
  <2>4. PICK i \in 1 .. Len(runRows) : i = told.row
    BY <1>1, <2>1 DEF ToldTruth
  <2>5. PICK k \in Runs : KeptRow(runRows[i], k)
    BY <2>1 DEF RowsKept
  <2>6. /\ k \in Nat /\ k >= 1 /\ runRows[i].of = {k}
    BY <2>5, RunsAre DEF KeptRow, HoldsJob
  <2>7. /\ told.result \in {UnknownResult, k}
        /\ runRows[i].end = 0 =>
             /\ told.at \in 6 * k - 4 .. 6 * k + 1 /\ Arrived(2 * k - 1)
             /\ told.at = EndStamp("forge", k) \/ forgotten
    BY <1>1, <2>1, <2>4, <2>6 DEF ToldTruth
  <2>w. /\ runRows'[i].ids = runRows[i].ids /\ runRows'[i].of = runRows[i].of
        /\ runRows'[i].source = runRows[i].source /\ runRows'[i].at = runRows[i].at
        /\ runRows'[i].start = runRows[i].start
        /\ runRows'[i].end = (IF runRows[i].end # 0 THEN runRows[i].end ELSE told.at)
        /\ runRows'[i].result =
             (IF runRows[i].result # 0 THEN runRows[i].result ELSE told.result)
    BY <1>1, <2>4
  <2>z. runRows'[i].end # 0
    BY <2>6, <2>7, <2>w
  <2>8. KeptRow(runRows[i], k)'
    <3>1. HoldsJob(runRows[i], k)'
      BY <1>1, <2>5, <2>7, <2>w DEF KeptRow, HoldsJob
    <3>2. StampsInJob(runRows[i], k)'
      BY <2>5, <2>7, <2>w DEF KeptRow, StampsInJob
    <3>3. FromStart(runRows[i], k) => FromStart(runRows[i], k)'
      BY <2>w DEF FromStart
    <3>4. FromEnd(runRows[i], k) => FromEnd(runRows[i], k)'
      BY <2>2, <2>w DEF FromEnd
    <3>5. EndsAsReported(runRows[i], k)'
      <4>1. \A b \in Reporters : EndStamp(b, k) # 0
        BY <2>6, StampsOf
      <4>. QED BY <2>2, <2>5, <2>w, <4>1 DEF KeptRow, EndsAsReported
    <3>6. ClosedForAReason(runRows[i], k)'
      BY <1>1, <2>2, <2>3, <2>5, <2>7, <2>w DEF KeptRow, ClosedForAReason
    <3>7. OpenIsKnown(runRows[i], k)'
      BY <2>z DEF OpenIsKnown
    <3>. QED BY <2>5, <3>1, <3>2, <3>3, <3>4, <3>5, <3>6, <3>7 DEF KeptRow
  <2>9. RowsKept'
    <3>1. ASSUME NEW j \in 1 .. Len(runRows) PROVE \E m \in Runs : KeptRow(runRows[j], m)'
      <4>1. CASE j = i
        BY <2>8, <4>1
      <4>2. CASE j # i
        <5>1. PICK m \in Runs : KeptRow(runRows[j], m)
          BY <2>1 DEF RowsKept
        <5>2. runRows'[j] = runRows[j]
          BY <1>1, <2>4, <4>2
        <5>3. KeptRow(runRows[j], m)'
          BY <1>1, <2>2, <2>3, <5>1, <5>2, KeptStays
        <5>. QED BY <5>3
      <4>. QED BY <4>1, <4>2
    <3>2. Runs' = Runs
      BY DEF Runs
    <3>. QED BY <1>1, <3>1, <3>2 DEF RowsKept
  <2>10. \A j \in 1 .. Len(runRows) :
           /\ runRows'[j].ids = runRows[j].ids /\ runRows'[j].of = runRows[j].of
           /\ runRows'[j].end = 0 => runRows[j].end = 0
    <3>1. ASSUME NEW j \in 1 .. Len(runRows)
          PROVE  /\ runRows'[j].ids = runRows[j].ids /\ runRows'[j].of = runRows[j].of
                 /\ runRows'[j].end = 0 => runRows[j].end = 0
      <4>1. CASE j = i
        BY <2>w, <2>z, <4>1
      <4>2. CASE j # i
        BY <1>1, <2>4, <4>2
      <4>. QED BY <4>1, <4>2
    <3>. QED BY <3>1
  <2>11. IdsFound'
    BY <1>1, <2>1, <2>2, <2>10 DEF IdsFound, IdFor, RunOf
  <2>12. IdsOnce' /\ OpenAlone' /\ SaidTruth'
    <3>1. IdsOnce'
      BY <1>1, <2>1, <2>10 DEF IdsOnce
    <3>2. OpenAlone'
      BY <1>1, <2>1, <2>10 DEF OpenAlone
    <3>3. SaidTruth'
      BY <1>1, <2>1, <2>10 DEF SaidTruth
    <3>. QED BY <3>1, <3>2, <3>3
  <2>13. OneRow'
    <3>1. Runs' = Runs
      BY DEF Runs
    <3>. QED BY <1>1, <2>1, <2>10, <3>1 DEF OneRow, StartLost
  <2>14. ToldTruth'
    BY <1>1 DEF ToldTruth, NotTold
  <2>. QED BY <2>9, <2>11, <2>12, <2>13, <2>14 DEF HistoryRowsInv
<1>. QED BY <1>2, <1>3 DEF HistoryInv, HistoryAhead

LEMMA SayReports ==
  ASSUME ReportsInv, NEW i \in 1 .. Len(runRows), Say(i)
  PROVE  ReportsInv'
<1>0. HistoryTypeOK
  BY DEF ReportsInv
<1>1. /\ said' = said \cup {[row |-> i, result |-> runRows[i].result]} /\ runRows[i].result # 0
      /\ UNCHANGED <<happenings, toPost, deliveries, entered, cursor, collector, noticed, runRows,
                     told, forgotten, historyFaults>>
  BY DEF Say
<1>2. runRows[i] \in HistoryRows /\ Len(runRows) \in Nat
  BY <1>0, RowTypes
<1>3. i \in Nat /\ runRows[i].result \in {UnknownResult} \cup Runs
  BY <1>1, <1>2 DEF HistoryRows
<1>4. said' \subseteq [row : Nat, result : {UnknownResult} \cup Runs]
  <2>1. said \subseteq [row : Nat, result : {UnknownResult} \cup Runs]
    BY <1>0 DEF HistoryTypeOK
  <2>2. [row |-> i, result |-> runRows[i].result] \in [row : Nat, result : {UnknownResult} \cup Runs]
    BY <1>3
  <2>. QED BY <1>1, <2>1, <2>2
<1>5. HistoryTypeOK'
  BY <1>0, <1>1, <1>4 DEF HistoryTypeOK
<1>. QED BY <1>1, <1>5, ReportsStay DEF reportVars

LEMMA SayAhead ==
  ASSUME HistoryInv, NEW i \in 1 .. Len(runRows), Say(i)
  PROVE  HistoryAhead'
<1>1. /\ said' = said \cup {[row |-> i, result |-> runRows[i].result]} /\ runRows[i].result # 0
      /\ UNCHANGED <<happenings, toPost, deliveries, entered, cursor, collector, noticed, runRows,
                     told, forgotten, historyFaults>>
  BY DEF Say
<1>0. ReportsInv /\ HistoryTypeOK
  BY DEF HistoryInv, ReportsInv
<1>2. ReportedInTurn' => ReportedInTurn
  BY <1>1 DEF ReportedInTurn
<1>3. ASSUME HistoryRowsInv PROVE HistoryRowsInv'
  <2>1. /\ RowsKept /\ IdsFound /\ IdsOnce /\ OpenAlone /\ OneRow /\ SaidTruth /\ ToldTruth
    BY <1>3 DEF HistoryRowsInv
  <2>2. \A b, n : Projected(b, n)' <=> Projected(b, n)
    BY <1>1 DEF Projected, Entry
  <2>3. \A n : Arrived(n) => Arrived(n)'
    BY <1>1 DEF Arrived, Range
  <2>r. Runs' = Runs
    BY DEF Runs
  <2>4. RowsKept'
    <3>1. ASSUME NEW j \in 1 .. Len(runRows) PROVE \E m \in Runs : KeptRow(runRows[j], m)'
      <4>1. PICK m \in Runs : KeptRow(runRows[j], m)
        BY <2>1 DEF RowsKept
      <4>2. KeptRow(runRows[j], m)'
        BY <1>1, <2>2, <2>3, <4>1, KeptStays
      <4>. QED BY <4>2
    <3>. QED BY <1>1, <2>r, <3>1 DEF RowsKept
  <2>5. IdsFound'
    BY <1>1, <2>1, <2>2 DEF IdsFound, IdFor, RunOf
  <2>6. IdsOnce' /\ OpenAlone'
    BY <1>1, <2>1 DEF IdsOnce, OpenAlone
  <2>7. OneRow'
    BY <1>1, <2>1, <2>r DEF OneRow, StartLost
  <2>8. ToldTruth'
    BY <1>1, <2>1, <2>3 DEF ToldTruth, NotTold, EndStamp
  <2>9. SaidTruth'
    <3>1. \A k \in runRows[i].of : runRows[i].result \in {UnknownResult, k}
      BY <1>1, <2>1, OfItsJob DEF KeptRow, HoldsJob
    <3>. QED BY <1>1, <2>1, <3>1 DEF SaidTruth
  <2>. QED BY <2>4, <2>5, <2>6, <2>7, <2>8, <2>9 DEF HistoryRowsInv
<1>. QED BY <1>2, <1>3 DEF HistoryInv, HistoryAhead

-----------------------------------------------------------------------------

LEMMA HistoryStepKeeps == HistoryInv /\ [HistoryNext]_historyVars => HistoryInv'
<1>. SUFFICES ASSUME HistoryInv, [HistoryNext]_historyVars PROVE HistoryInv'
  OBVIOUS
<1>0. ReportsInv /\ HistoryTypeOK
  BY DEF HistoryInv, ReportsInv
<1>. SUFFICES ReportsInv' /\ HistoryAhead'
  BY DEF HistoryInv, HistoryAhead
<1>1. CASE Happen
  BY <1>0, <1>1, HappenReports, HappenAhead
<1>2. CASE Posted
  BY <1>0, <1>2, PostedReports, PostedAhead
<1>3. ASSUME NEW n \in deliveries, Delivered(n) PROVE ReportsInv' /\ HistoryAhead'
  BY <1>0, <1>3, DeliveredReports, DeliveredAhead
<1>4. ASSUME NEW n \in deliveries, DeliveryLost(n) PROVE ReportsInv' /\ HistoryAhead'
  BY <1>0, <1>4, LostReports, LostAhead
<1>5. CASE Project
  BY <1>0, <1>5, ProjectReports, ProjectAhead
<1>6. CASE CaughtUp \/ WaitForChange \/ Woken
  <2>1. /\ UNCHANGED <<happenings, toPost, deliveries, entered, cursor, runRows, told, said,
                       forgotten, historyFaults>>
        /\ collector' \in {"reads", "works", "waits"} /\ noticed' \in BOOLEAN
    BY <1>0, <1>6 DEF CaughtUp, WaitForChange, Woken, HistoryTypeOK
  <2>2. HistoryTypeOK'
    BY <1>0, <2>1 DEF HistoryTypeOK
  <2>. QED BY <1>0, <2>1, <2>2, ReportsStay, ElseAhead DEF reportVars
<1>7. CASE ApplyResult
  BY <1>0, <1>7, ApplyReports, ApplyAhead
<1>8. ASSUME NEW i \in PendingResults, AskForResult(i) PROVE ReportsInv' /\ HistoryAhead'
  BY <1>0, <1>8, AskReports, AskAhead
<1>9. CASE Forget
  <2>1. /\ UNCHANGED <<happenings, toPost, deliveries, entered, cursor, collector, noticed,
                       runRows, told, said>>
        /\ forgotten' = TRUE /\ historyFaults' = historyFaults + 1
        /\ historyFaults < MaxHistoryFaults
    BY <1>9 DEF Forget, HistoryFault
  <2>2. HistoryTypeOK'
    BY <1>0, <2>1, HistoryAssumption DEF HistoryTypeOK
  <2>. QED BY <1>0, <2>1, <2>2, ReportsStay, ElseAhead DEF reportVars
<1>10. ASSUME NEW i \in 1 .. Len(runRows), Say(i) PROVE ReportsInv' /\ HistoryAhead'
  BY <1>0, <1>10, SayReports, SayAhead
<1>11. CASE UNCHANGED historyVars
  <2>1. HistoryTypeOK'
    BY <1>0, <1>11 DEF historyVars, HistoryTypeOK
  <2>. QED BY <1>0, <1>11, <2>1, ReportsStay, ElseAhead DEF historyVars, reportVars
<1>. QED BY <1>1, <1>2, <1>3, <1>4, <1>5, <1>6, <1>7, <1>8, <1>9, <1>10, <1>11
         DEF HistoryNext, Collector, Enricher, Scan

LEMMA HistoryStarts == HistoryInit => HistoryInv
<1>. SUFFICES ASSUME HistoryInit PROVE ReportsInv /\ HistoryRowsInv
  BY DEF HistoryInv
<1>1. /\ Len(runRows) = 0 /\ cursor = 0 /\ 1 .. 0 = {} /\ told = NotTold /\ said = {}
  BY DEF HistoryInit
<1>2. \A b, n : ~Projected(b, n)
  BY <1>1 DEF Projected
<1>. QED BY <1>1, <1>2, HistoryBegins DEF HistoryRowsInv, RowsKept, IdsFound, IdsOnce, OpenAlone,
         OneRow, ToldTruth, SaidTruth

\* While somebody reports the jobs in their order, every row is of one job, and says, as do the
\* messages, how that job ended and no other; and a job has one row, but for one whose start the
\* forge never got to report and which it forgot: for any number of jobs, however late the
\* sources and the answers are, whatever is lost.  (native_history.NativeHistory._project and
\* _find_run, history.apply_result, app._enrich_pending, job_notify.scan.)
THEOREM JobsKeepTheirRows == HistorySpec => []JobsHaveTheirRows
<1>1. HistoryInv => JobsHaveTheirRows
  <2>. SUFFICES ASSUME HistoryInv, ReportedInTurn
                PROVE  OneRow /\ Unmixed /\ TrueResults /\ TrueWords
    BY DEF JobsHaveTheirRows
  <2>1. RowsKept /\ OneRow /\ SaidTruth
    BY DEF HistoryInv, HistoryRowsInv
  <2>2. Unmixed
    BY <2>1 DEF RowsKept, KeptRow, HoldsJob, Unmixed
  <2>3. TrueResults
    BY <2>1, OfItsJob DEF KeptRow, HoldsJob, TrueResults
  <2>4. TrueWords
    BY <2>1 DEF SaidTruth, TrueWords
  <2>. QED BY <2>1, <2>2, <2>3, <2>4
<1>. QED BY <1>1, HistoryStarts, HistoryStepKeeps, PTL DEF HistorySpec

=============================================================================
