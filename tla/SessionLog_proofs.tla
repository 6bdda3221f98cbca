------------------------- MODULE SessionLog_proofs --------------------------
(***************************************************************************)
(* Proofs about SessionLog, for any sessions, any number of jobs and of    *)
(* connections, any page and any bound on the numbers.                     *)
(***************************************************************************)
EXTENDS SessionLog, Sequences, FiniteSetTheorems, FunctionTheorems, WellFoundedInduction, TLAPS

\* The rows of R have the numbers from a to b, each once.
Dense(R, a, b) ==
  /\ \A r \in R : r.seq \in a..b
  /\ \A i \in a..b : \E r \in R : r.seq = i
  /\ \A q, r \in R : q.seq = r.seq => q = r

Written(t, s) == Cardinality(WroteIn(t, s))

\* What is committed is numbered up to the counter.
Committed == \A s \in Sessions : Dense(RowsOf(s), 1, next_seq[s] - 1)

\* What an open transaction has numbered goes on from there.
Pending ==
  \A s \in Sessions, t \in Txs :
    /\ Dense(WroteIn(t, s), next_seq[s], next_seq[s] + Written(t, s) - 1)
    /\ next_seq[s] = 0 => WroteIn(t, s) = {}

Finite == \A t \in Txs : IsFiniteSet(tx[t].wrote)

\* The row lock of a session has one holder.
Exclusive ==
  \A s \in Sessions, t, u \in Txs :
    WroteIn(t, s) # {} /\ WroteIn(u, s) # {} => t = u

\* A client's key is recorded once, in the table and in what is being written.
OncePerKey ==
  /\ \A t \in Txs :
       /\ \A r \in tx[t].wrote : r.draft \notin tx[t].todo
       /\ \A q, r \in tx[t].wrote : q.draft = r.draft => q = r
       /\ \A r \in tx[t].wrote, q \in rows :
            r.draft.kind = "user" => q.draft # r.draft
  /\ \A q, r \in rows : q.draft.kind = "user" /\ q.draft = r.draft => q = r

\* The status of any other row is never written.
OnlyRepliesStream ==
  /\ \A r \in rows : r.draft.kind # "assistant" => r.status = "complete"
  /\ \A t \in Txs : \A r \in tx[t].wrote :
       r.draft.kind # "assistant" => r.status = "complete"

\* Locks are taken in the order of the sessions, and there is a last one.
Ordered ==
  /\ \A t \in Txs : \A d \in tx[t].todo, r \in tx[t].wrote :
       r.draft.session <= d.session
  /\ \E last \in Nat : \A t \in Txs : \A r \in tx[t].wrote : r.draft.session <= last

\* A transaction has come to all its jobs before it numbers anything.
Phases == \A t \in Txs : tx[t].moves # {} => tx[t].wrote = {}

\* A read that is under way found a beginning of what was then committed after
\* the cursor, split over the two tables.
Found(s, end, msgs) ==
  /\ end = 0 \/ end < next_seq[s]
  /\ reader[s].cursor <= end
  /\ reader[s].page = First(Limit, msgs)
  /\ reader[s].snapshot = First(Limit, (reader[s].cursor + 1 .. end) \ msgs)

Reading ==
  \A s \in Sessions :
    /\ reader[s].got = 1..reader[s].cursor
    /\ reader[s].cursor = 0 \/ reader[s].cursor < next_seq[s]
    /\ reader[s].reading =>
         \E end \in Nat : \E msgs \in SUBSET (reader[s].cursor + 1 .. end) :
           Found(s, end, msgs)

IInv == /\ TypeOK /\ Committed /\ Pending /\ Finite /\ Exclusive
        /\ OncePerKey /\ OnlyRepliesStream /\ Ordered /\ Phases /\ Reading

USE SessionLogAssumption

-----------------------------------------------------------------------------
(* Rows and their numbers.                                                 *)

\* Rows that go on where others end.
LEMMA DenseUnion ==
  ASSUME NEW R, NEW Q, NEW a \in Int, NEW b \in Int, NEW c \in Int,
         a <= b + 1, b <= c, Dense(R, a, b), Dense(Q, b + 1, c)
  PROVE  Dense(R \cup Q, a, c)
  <1>1. \A r \in R \cup Q : r.seq \in a..c
    BY DEF Dense
  <1>2. ASSUME NEW i \in a..c PROVE \E r \in R \cup Q : r.seq = i
    <2>1. CASE i <= b
      BY <2>1 DEF Dense
    <2>2. CASE i > b
      BY <2>2 DEF Dense
    <2> QED BY <2>1, <2>2
  <1>3. ASSUME NEW q \in R \cup Q, NEW r \in R \cup Q, q.seq = r.seq PROVE q = r
    <2>1. CASE q \in R /\ r \in R
      BY <1>3, <2>1 DEF Dense
    <2>2. CASE q \in Q /\ r \in Q
      BY <1>3, <2>2 DEF Dense
    <2>3. CASE q \in R /\ r \in Q
      BY <1>3, <2>3 DEF Dense
    <2>4. CASE q \in Q /\ r \in R
      BY <1>3, <2>4 DEF Dense
    <2> QED BY <2>1, <2>2, <2>3, <2>4
  <1> QED BY <1>1, <1>2, <1>3 DEF Dense

\* As many rows as numbers.
LEMMA DenseCard ==
  ASSUME NEW R, NEW a \in Int, NEW b \in Int, Dense(R, a, b)
  PROVE  IsFiniteSet(R) /\ Cardinality(R) = IF a > b THEN 0 ELSE b - a + 1
  <1> DEFINE f == [r \in R |-> r.seq]
  <1>1. f \in Bijection(R, a..b)
    <2>1. f \in [R -> a..b]
      BY DEF Dense
    <2>2. \A q, r \in R : f[q] = f[r] => q = r
      BY DEF Dense
    <2>3. \A i \in a..b : \E r \in R : f[r] = i
      BY DEF Dense
    <2> QED BY <2>1, <2>2, <2>3 DEF Bijection, Injection, Surjection, IsInjective
  <1>2. ExistsBijection(a..b, R)
    BY <1>1, Fun_ExistsBijSymmetric DEF ExistsBijection
  <1>3. IsFiniteSet(a..b) /\ Cardinality(a..b) = IF a > b THEN 0 ELSE b - a + 1
    BY FS_Interval
  <1> QED BY <1>2, <1>3, FS_Bijection

\* A statement of rows that keeps their numbers keeps Dense.
LEMMA DenseMap ==
  ASSUME NEW R, NEW Q, NEW a \in Int, NEW b \in Int, Dense(R, a, b),
         \A q \in Q : \E r \in R : q.seq = r.seq,
         \A r \in R : \E q \in Q : q.seq = r.seq,
         \A p, q \in Q : p.seq = q.seq => p = q
  PROVE  Dense(Q, a, b)
  BY DEF Dense

LEMMA DenseEmpty == ASSUME NEW a \in Int PROVE Dense({}, a, a - 1)
  BY DEF Dense

LEMMA WrittenType ==
  ASSUME Finite, NEW t \in Txs, NEW s \in Sessions
  PROVE  /\ IsFiniteSet(WroteIn(t, s))
         /\ Written(t, s) \in Nat
         /\ Written(t, s) = 0 <=> WroteIn(t, s) = {}
  <1>1. WroteIn(t, s) \subseteq tx[t].wrote
    BY DEF WroteIn
  <1>2. IsFiniteSet(WroteIn(t, s))
    BY <1>1, FS_Subset DEF Finite
  <1> QED BY <1>2, FS_CardinalityType, FS_EmptySet DEF Written

-----------------------------------------------------------------------------
(* The steps.                                                              *)

\* A transaction begins, locks a job, or ends with nothing written.
Restart(t) == /\ \E new \in Tx : new.wrote = {} /\ tx' = [tx EXCEPT ![t] = new]
              /\ UNCHANGED <<next_seq, rows, reader>>

LEMMA NoTxType == NoTx \in Tx /\ NoTx.wrote = {}
  BY DEF NoTx, Tx

LEMMA EventsType == \A jobs \in SUBSET Jobs : Events(jobs) \subseteq Draft
  BY DEF Events, Draft

LEMMA BeginRestarts ==
  ASSUME NEW t \in Txs, NEW moves \in SUBSET Jobs, NEW todo \in SUBSET Draft,
         Begin(t, moves, todo), UNCHANGED <<next_seq, rows, reader>>
  PROVE  Restart(t)
  <1> DEFINE new == [NoTx EXCEPT !.open = TRUE, !.moves = moves, !.todo = todo]
  <1>1. new \in Tx /\ new.wrote = {}
    BY DEF NoTx, Tx
  <1> QED BY <1>1 DEF Begin, Restart

LEMMA LockJobRestarts ==
  ASSUME IInv, NEW t \in Txs, NEW j \in Jobs, LockJob(t, j)
  PROVE  Restart(t)
  <1>1. PICK moved \in SUBSET {j} :
          tx' = [tx EXCEPT ![t].moves = @ \ {j}, ![t].jobs = @ \cup {j},
                           ![t].todo = @ \cup Events(moved)]
    BY DEF LockJob
  <1>2. PICK events \in SUBSET Draft : events = Events(moved)
    BY EventsType
  <1> DEFINE new == [tx[t] EXCEPT !.moves = @ \ {j}, !.jobs = @ \cup {j},
                                  !.todo = @ \cup events]
  <1>3. tx[t] \in Tx /\ tx \in [Txs -> Tx] /\ tx[t].wrote = {}
    BY DEF IInv, TypeOK, Phases, LockJob
  <1>4. new \in Tx /\ new.wrote = {}
    BY <1>3 DEF Tx
  <1>5. tx' = [tx EXCEPT ![t] = new]
    BY <1>1, <1>2, <1>3 DEF Tx
  <1> QED BY <1>4, <1>5 DEF Restart, LockJob

LEMMA NextCases ==
  ASSUME IInv, Next
  PROVE  \/ \E s \in Sessions : EnsureSession(s) \/ MessagesSince(s) \/ EventsSince(s)
         \/ \E t \in Txs : \/ Restart(t) \/ Commit(t)
                           \/ \E d \in tx[t].todo : Number(t, d)
         \/ \E r \in rows, status \in {"complete", "failed"} : Finish(r, status)
  <1>1. ASSUME NEW t \in Txs, NEW s \in Live, StartAssistantMessage(t, s)
        PROVE  Restart(t)
    <2>1. {[session |-> s, kind |-> "assistant", of |-> "reply"]} \subseteq Draft
      BY DEF Draft
    <2> QED BY <1>1, <2>1, BeginRestarts DEF StartAssistantMessage
  <1>2. ASSUME NEW t \in Txs, NEW s \in Live, NEW k \in Keys, RecordUserMessage(t, s, k)
        PROVE  Restart(t)
    <2>1. {[session |-> s, kind |-> "user", of |-> k]} \subseteq Draft
      BY DEF Draft
    <2> QED BY <1>2, <2>1, BeginRestarts DEF RecordUserMessage
  <1>3. ASSUME NEW t \in Txs, NEW j \in Jobs, Transition(t, j)
        PROVE  Restart(t)
    BY <1>3, BeginRestarts DEF Transition
  <1>4. ASSUME NEW t \in Txs, NEW jobs \in SUBSET Jobs, RetireLapsed(t, jobs)
        PROVE  Restart(t)
    BY <1>4, BeginRestarts DEF RetireLapsed
  <1>5. ASSUME NEW t \in Txs, NEW j \in tx[t].moves, LockJob(t, j)
        PROVE  Restart(t)
    <2>1. j \in Jobs
      BY DEF IInv, TypeOK, Tx
    <2> QED BY <1>5, <2>1, LockJobRestarts
  <1>6. ASSUME NEW t \in Txs, Rollback(t)
               \/ \E d \in tx[t].todo : Duplicate(t, d) \/ NoSuchSession(t, d)
        PROVE  Restart(t)
    BY <1>6, NoTxType DEF Rollback, Duplicate, NoSuchSession, Restart
  <1> QED BY <1>1, <1>2, <1>3, <1>4, <1>5, <1>6 DEF Next, Proceed

-----------------------------------------------------------------------------
(* The inductive invariant.                                                *)

LEMMA InitInv == Init => IInv
  <1> SUFFICES ASSUME Init PROVE IInv
    OBVIOUS
  <1>1. TypeOK
    BY NoTxType DEF Init, TypeOK, NoReader, Reader
  <1>2. \A s \in Sessions : RowsOf(s) = {} /\ \A t \in Txs : WroteIn(t, s) = {}
    BY DEF Init, RowsOf, WroteIn, NoTx
  <1>3. Finite /\ Exclusive /\ OncePerKey /\ OnlyRepliesStream /\ Ordered /\ Phases
    BY <1>2, FS_EmptySet DEF Init, NoTx, Finite, Exclusive, OncePerKey, OnlyRepliesStream,
       Ordered, Phases
  <1>4. Committed /\ Pending
    BY <1>2, FS_EmptySet DEF Init, Committed, Pending, Dense, Written
  <1>5. Reading
    <2>1. \A s \in Sessions : ~reader[s].reading /\ reader[s].cursor = 0 /\ reader[s].got = {}
      BY DEF Init, NoReader
    <2>2. 1..0 = {}
      OBVIOUS
    <2> QED BY <2>1, <2>2 DEF Reading
  <1> QED BY <1>1, <1>3, <1>4, <1>5 DEF IInv

\* The rows a transaction has written in a session, after a step of t.
LEMMA WroteAfter ==
  ASSUME TypeOK, NEW t \in Txs, NEW new, tx' = [tx EXCEPT ![t] = new]
  PROVE  \A u \in Txs, s \in Sessions :
           WroteIn(u, s)' = IF u = t THEN {r \in new.wrote : r.draft.session = s}
                            ELSE WroteIn(u, s)
  BY DEF TypeOK, WroteIn

LEMMA RestartStep ==
  ASSUME IInv, NEW t \in Txs, Restart(t)
  PROVE  IInv'
  <1>1. PICK new \in Tx : new.wrote = {} /\ tx' = [tx EXCEPT ![t] = new]
    BY DEF Restart
  <1>2. UNCHANGED <<next_seq, rows, reader>>
    BY DEF Restart
  <1>3. TypeOK'
    BY <1>1, <1>2 DEF IInv, TypeOK
  <1>4. \A u \in Txs, s \in Sessions :
          WroteIn(u, s)' = IF u = t THEN {} ELSE WroteIn(u, s)
    <2>1. \A s \in Sessions : {r \in new.wrote : r.draft.session = s} = {}
      BY <1>1
    <2>2. \A u \in Txs, s \in Sessions :
            WroteIn(u, s)' = IF u = t THEN {r \in new.wrote : r.draft.session = s}
                             ELSE WroteIn(u, s)
      BY <1>1, WroteAfter DEF IInv
    <2> QED BY <2>1, <2>2
  <1>5. \A u \in Txs : tx'[u] = IF u = t THEN new ELSE tx[u]
    BY <1>1 DEF IInv, TypeOK
  <1>6. \A s \in Sessions : RowsOf(s)' = RowsOf(s)
    BY <1>2 DEF RowsOf
  <1>7. Committed'
    BY <1>2, <1>6 DEF IInv, Committed, Dense
  <1>12. Pending'
    <2> SUFFICES ASSUME NEW s \in Sessions, NEW u \in Txs
                 PROVE  /\ Dense(WroteIn(u, s)', next_seq'[s],
                                 next_seq'[s] + Cardinality(WroteIn(u, s)') - 1)
                        /\ next_seq'[s] = 0 => WroteIn(u, s)' = {}
      BY DEF Pending, Written, Dense
    <2>1. next_seq[s] \in Nat
      BY DEF IInv, TypeOK
    <2>2. CASE u = t
      <3>1. WroteIn(u, s)' = {} /\ Cardinality(WroteIn(u, s)') = 0
        BY <1>4, <2>2, FS_EmptySet
      <3> QED BY <1>2, <2>1, <3>1 DEF Dense
    <2>3. CASE u # t
      BY <1>2, <1>4, <2>3 DEF IInv, Pending, Written
    <2> QED BY <2>2, <2>3
  <1>8. Finite'
    BY <1>1, <1>5, FS_EmptySet DEF IInv, Finite
  <1>13. Exclusive'
    BY <1>4 DEF IInv, Exclusive
  <1>9. OncePerKey' /\ OnlyRepliesStream'
    BY <1>1, <1>2, <1>5 DEF IInv, OncePerKey, OnlyRepliesStream
  <1>10. Ordered' /\ Phases'
    BY <1>1, <1>5 DEF IInv, Ordered, Phases
  <1>11. Reading'
    BY <1>2 DEF IInv, Reading, Found
  <1> QED BY <1>3, <1>7, <1>8, <1>9, <1>10, <1>11, <1>12, <1>13 DEF IInv

\* What a reader has found stays there: counters only grow.
LEMMA CursorKept ==
  ASSUME TypeOK, Reading, UNCHANGED reader,
         \A s \in Sessions : next_seq'[s] \in Nat /\ next_seq[s] <= next_seq'[s]
  PROVE  Reading'
  <1> SUFFICES ASSUME NEW s \in Sessions
               PROVE  /\ reader[s].got = 1..reader[s].cursor
                      /\ reader[s].cursor = 0 \/ reader[s].cursor < next_seq'[s]
                      /\ reader[s].reading =>
                           \E end \in Nat : \E msgs \in SUBSET (reader[s].cursor + 1 .. end) :
                             Found(s, end, msgs)'
    BY DEF Reading
  <1>1. /\ next_seq[s] \in Nat /\ reader[s].cursor \in Nat
        /\ next_seq'[s] \in Nat /\ next_seq[s] <= next_seq'[s]
    BY DEF TypeOK, Reader
  <1>2. ASSUME NEW end \in Nat, NEW msgs, Found(s, end, msgs)
        PROVE  Found(s, end, msgs)'
    <2>1. end = 0 \/ end < next_seq'[s]
      BY <1>1, <1>2 DEF Found
    <2> QED BY <1>2, <2>1 DEF Found
  <1>3. reader[s].cursor = 0 \/ reader[s].cursor < next_seq'[s]
    <2>1. reader[s].cursor = 0 \/ reader[s].cursor < next_seq[s]
      BY DEF Reading
    <2> QED BY <1>1, <2>1
  <1>4. reader[s].got = 1..reader[s].cursor
    BY DEF Reading
  <1>5. ASSUME reader[s].reading
        PROVE  \E end \in Nat : \E msgs \in SUBSET (reader[s].cursor + 1 .. end) :
                 Found(s, end, msgs)'
    <2>1. PICK end \in Nat : \E msgs \in SUBSET (reader[s].cursor + 1 .. end) :
            Found(s, end, msgs)
      BY <1>5 DEF Reading
    <2>2. PICK msgs \in SUBSET (reader[s].cursor + 1 .. end) : Found(s, end, msgs)
      BY <2>1
    <2>3. Found(s, end, msgs)'
      BY <1>2, <2>2
    <2> QED BY <2>3
  <1> QED BY <1>3, <1>4, <1>5

\* The first row of a session's counter.
LEMMA EnsureSessionStep ==
  ASSUME IInv, NEW s \in Sessions, EnsureSession(s)
  PROVE  IInv'
  <1>1. UNCHANGED <<rows, tx, reader>> /\ next_seq[s] = 0
    BY DEF EnsureSession
  <1>2. \A r \in Sessions : next_seq'[r] = IF r = s THEN 1 ELSE next_seq[r]
    BY DEF EnsureSession, IInv, TypeOK
  <1>3. TypeOK'
    BY <1>1 DEF EnsureSession, IInv, TypeOK
  <1>4. \A r \in Sessions : /\ RowsOf(r)' = RowsOf(r)
                            /\ \A t \in Txs : WroteIn(t, r)' = WroteIn(t, r)
    BY <1>1 DEF RowsOf, WroteIn
  <1>5. Committed'
    <2> SUFFICES ASSUME NEW r \in Sessions PROVE Dense(RowsOf(r), 1, next_seq'[r] - 1)
      BY <1>4 DEF Committed, Dense
    <2>1. CASE r # s
      BY <1>2, <2>1 DEF IInv, Committed
    <2>2. CASE r = s
      BY <1>1, <1>2, <2>2 DEF IInv, Committed, Dense
    <2> QED BY <2>1, <2>2
  <1>8. Pending'
    <2> SUFFICES ASSUME NEW r \in Sessions, NEW t \in Txs
                 PROVE  /\ Dense(WroteIn(t, r), next_seq'[r],
                                 next_seq'[r] + Written(t, r) - 1)
                        /\ next_seq'[r] = 0 => WroteIn(t, r) = {}
      BY <1>4 DEF Pending, Written, Dense
    <2>1. CASE r # s
      BY <1>2, <2>1 DEF IInv, Pending
    <2>2. CASE r = s
      <3>1. WroteIn(t, r) = {} /\ Written(t, r) = 0
        BY <1>1, <2>2, FS_EmptySet DEF IInv, Pending, Written
      <3> QED BY <1>2, <2>2, <3>1 DEF Dense
    <2> QED BY <2>1, <2>2
  <1>6. Finite' /\ Exclusive' /\ OncePerKey' /\ OnlyRepliesStream' /\ Ordered' /\ Phases'
    BY <1>1, <1>4 DEF IInv, Finite, Exclusive, OncePerKey, OnlyRepliesStream, Ordered, Phases
  <1>7. Reading'
    BY <1>1, <1>2, CursorKept DEF IInv, TypeOK
  <1> QED BY <1>3, <1>5, <1>6, <1>7, <1>8 DEF IInv

LEMMA DraftType == \A d \in Draft : d.session \in Sessions
  BY DEF Draft

LEMMA TxType ==
  ASSUME TypeOK, NEW t \in Txs
  PROVE  /\ tx[t] \in Tx /\ tx[t].todo \subseteq Draft /\ tx[t].wrote \subseteq Row
         /\ \A r \in tx[t].wrote : r.draft.session \in Sessions
         /\ \A r \in tx[t].wrote : r.seq \in Nat \ {0}
  <1>1. tx[t] \in Tx /\ tx[t].todo \subseteq Draft /\ tx[t].wrote \subseteq Row
    BY DEF TypeOK, Tx
  <1>2. \A r \in Row : r.draft \in Draft /\ r.seq \in Nat \ {0}
    BY DEF Row
  <1> QED BY <1>1, <1>2, DraftType

\* The row that allocate_seq numbers.
NewRow(t, d) == [draft |-> d, seq |-> NextNumber(t, d.session),
                 status |-> IF d.kind = "assistant" THEN "streaming" ELSE "complete"]

LEMMA NumberStep ==
  ASSUME IInv, NEW t \in Txs, NEW d \in tx[t].todo, Number(t, d)
  PROVE  IInv'
  <1> DEFINE s == d.session
             row == NewRow(t, d)
             new == [tx[t] EXCEPT !.todo = @ \ {d}, !.wrote = @ \cup {row}]
  <1>1. /\ tx' = [tx EXCEPT ![t] = new]
        /\ UNCHANGED <<next_seq, rows, reader>>
        /\ IsNext(d, tx[t].todo) /\ ~SessionHeld(t, s) /\ next_seq[s] > 0
        /\ ~\E r \in rows : d.kind = "user" /\ r.draft = d
    <2>1. /\ UNCHANGED <<next_seq, rows, reader>>
          /\ IsNext(d, tx[t].todo) /\ ~SessionHeld(t, s) /\ next_seq[s] > 0
          /\ ~\E r \in rows : d.kind = "user" /\ r.draft = d
      BY DEF Number
    <2>2. tx' = [tx EXCEPT ![t].todo = @ \ {d}, ![t].wrote = @ \cup {row}]
      BY DEF Number, NewRow
    <2>3. tx \in [Txs -> Tx] /\ tx[t] \in Tx
      BY DEF IInv, TypeOK
    <2>4. tx' = [tx EXCEPT ![t] = new]
      <3> HIDE DEF row
      <3> QED BY <2>2, <2>3 DEF Tx
    <2> QED BY <2>1, <2>4
  <1>2. tx[t] \in Tx /\ d \in Draft /\ s \in Sessions /\ next_seq[s] \in Nat
    <2>1. tx[t] \in Tx /\ d \in Draft
      BY TxType DEF IInv
    <2> QED BY <2>1, DraftType DEF IInv, TypeOK
  <1>3. /\ IsFiniteSet(WroteIn(t, s)) /\ Written(t, s) \in Nat
        /\ row.seq = next_seq[s] + Written(t, s)
        /\ row.draft = d
    BY <1>2, WrittenType DEF IInv, NewRow, NextNumber, Written
  <1>4. row \in Row
    BY <1>1, <1>2, <1>3 DEF NewRow, Row
  <1>5. /\ new \in Tx /\ new.todo = tx[t].todo \ {d}
        /\ new.wrote = tx[t].wrote \cup {row}
    BY <1>2, <1>4 DEF Tx
  <1>6. TypeOK'
    BY <1>1, <1>5 DEF IInv, TypeOK
  <1>7. \A u \in Txs : tx'[u] = IF u = t THEN new ELSE tx[u]
    BY <1>1 DEF IInv, TypeOK
  <1>8. \A u \in Txs, r \in Sessions :
          WroteIn(u, r)' = IF u = t /\ r = s THEN WroteIn(t, s) \cup {row}
                           ELSE WroteIn(u, r)
    <2>1. ASSUME NEW u \in Txs, NEW r \in Sessions, u # t
          PROVE  WroteIn(u, r)' = WroteIn(u, r)
      BY <1>7, <2>1 DEF WroteIn
    <2>2. ASSUME NEW r \in Sessions
          PROVE  WroteIn(t, r)' = {q \in tx[t].wrote \cup {row} : q.draft.session = r}
      BY <1>5, <1>7 DEF WroteIn
    <2>3. ASSUME NEW r \in Sessions
          PROVE  {q \in tx[t].wrote \cup {row} : q.draft.session = r}
                   = IF r = s THEN WroteIn(t, s) \cup {row} ELSE WroteIn(t, r)
      <3> HIDE DEF row
      <3>1. row.draft.session = s
        BY <1>3
      <3>2. CASE r = s
        BY <3>1, <3>2 DEF WroteIn
      <3>3. CASE r # s
        BY <3>1, <3>3 DEF WroteIn
      <3> QED BY <3>2, <3>3
    <2> QED BY <2>1, <2>2, <2>3
  <1>9. Committed'
    <2>1. \A r \in Sessions : RowsOf(r)' = RowsOf(r)
      BY <1>1 DEF RowsOf
    <2> QED BY <1>1, <2>1 DEF IInv, Committed, Dense
  <1>10. Dense(WroteIn(t, s), next_seq[s], row.seq - 1)
    <2>1. Dense(WroteIn(t, s), next_seq[s], next_seq[s] + Written(t, s) - 1)
      BY <1>2 DEF IInv, Pending
    <2>2. row.seq - 1 = next_seq[s] + Written(t, s) - 1
      <3> HIDE DEF row
      <3> QED BY <1>2, <1>3
    <2> QED BY <2>1, <2>2, Zenon
  <1>11. row \notin WroteIn(t, s)
    <2>1. row.seq \notin next_seq[s]..(row.seq - 1)
      BY <1>2, <1>3
    <2> QED BY <1>10, <2>1 DEF Dense
  <1>12. Cardinality(WroteIn(t, s) \cup {row}) = Written(t, s) + 1
    BY <1>3, <1>11, FS_AddElement DEF Written
  <1>13. Pending'
    <2> SUFFICES ASSUME NEW r \in Sessions, NEW u \in Txs
                 PROVE  /\ Dense(WroteIn(u, r)', next_seq'[r],
                                 next_seq'[r] + Cardinality(WroteIn(u, r)') - 1)
                        /\ next_seq'[r] = 0 => WroteIn(u, r)' = {}
      BY DEF Pending, Written, Dense
    <2>1. CASE u = t /\ r = s
      <3>1. Dense({row}, row.seq, row.seq)
        BY <1>2, <1>3 DEF Dense
      <3>2. Dense(WroteIn(t, s) \cup {row}, next_seq[s], row.seq)
        <4> DEFINE b == row.seq - 1
        <4>1. /\ b \in Int /\ b + 1 = row.seq /\ next_seq[s] <= b + 1 /\ b <= row.seq
              /\ next_seq[s] \in Int /\ row.seq \in Int
          BY <1>2, <1>3
        <4>2. Dense(WroteIn(t, s), next_seq[s], b) /\ Dense({row}, b + 1, row.seq)
          BY <1>10, <3>1, <4>1
        <4> HIDE DEF b, row
        <4> QED BY <4>1, <4>2, DenseUnion
      <3>3. row.seq = next_seq'[s] + (Written(t, s) + 1) - 1
        BY <1>1, <1>2, <1>3
      <3>4. WroteIn(u, r)' = WroteIn(t, s) \cup {row}
        BY <1>2, <1>8, <2>1
      <3>5. next_seq'[s] = next_seq[s] /\ next_seq'[s] # 0
        BY <1>1, <1>2
      <3> HIDE DEF row
      <3>6. Dense(WroteIn(u, r)', next_seq'[s],
                  next_seq'[s] + Cardinality(WroteIn(u, r)') - 1)
        BY <1>12, <3>2, <3>3, <3>4, <3>5
      <3> QED BY <2>1, <3>5, <3>6
    <2>2. CASE ~(u = t /\ r = s)
      BY <1>1, <1>8, <2>2 DEF IInv, Pending, Written
    <2> QED BY <2>1, <2>2
  <1>14. Finite'
    <2>1. IsFiniteSet(new.wrote)
      BY <1>5, FS_AddElement DEF IInv, Finite
    <2> QED BY <1>7, <2>1 DEF IInv, Finite
  <1>15. Exclusive'
    <2> HIDE DEF row, s
    <2>1. \A u \in Txs \ {t} : WroteIn(u, s) = {}
      BY <1>1 DEF SessionHeld
    <2>2. ASSUME NEW r \in Sessions, NEW u \in Txs, NEW v \in Txs,
                 WroteIn(u, r)' # {}, WroteIn(v, r)' # {}
          PROVE  u = v
      <3>1. CASE r = s
        BY <1>8, <2>1, <2>2, <3>1
      <3>2. CASE r # s
        BY <1>8, <2>2, <3>2 DEF IInv, Exclusive
      <3> QED BY <3>1, <3>2
    <2> QED BY <2>2 DEF Exclusive
  <1>16. OncePerKey'
    <2> HIDE DEF row
    <2>1. \A u \in Txs : /\ tx'[u].todo \subseteq tx[u].todo
                         /\ u # t => tx'[u] = tx[u]
      BY <1>5, <1>7
    <2>2. \A r \in tx[t].wrote : r.draft # d
      BY DEF IInv, OncePerKey
    <2> QED BY <1>1, <1>3, <1>5, <1>7, <2>1, <2>2 DEF IInv, OncePerKey
  <1>20. Phases'
    <2>1. new.moves = tx[t].moves /\ tx[t].moves = {}
      <3> HIDE DEF row
      <3> QED BY <1>2 DEF Number, Tx
    <2> QED BY <1>7, <2>1 DEF IInv, Phases
  <1>17. Ordered'
    <2> HIDE DEF row
    <2>1. \A u \in Txs : \A e \in tx'[u].todo, r \in tx'[u].wrote :
            r.draft.session <= e.session
      BY <1>1, <1>3, <1>5, <1>7 DEF IInv, Ordered, IsNext
    <2>2. PICK last \in Nat : \A u \in Txs : \A r \in tx[u].wrote : r.draft.session <= last
      BY DEF IInv, Ordered
    <2>3. s \in Nat
      BY <1>2
    <2>4. PICK top \in Nat : last <= top /\ s <= top
      BY <2>3
    <2>5. ASSUME NEW u \in Txs, NEW r \in tx'[u].wrote
          PROVE  r.draft.session <= top
      <3>1. CASE r \in tx[u].wrote
        <4>1. r.draft.session \in Nat
          BY <3>1, TxType DEF IInv
        <4> QED BY <2>2, <2>4, <3>1, <4>1
      <3>2. CASE r = row
        BY <1>3, <2>4, <3>2
      <3> QED BY <1>5, <1>7, <3>1, <3>2
    <2> QED BY <2>1, <2>5 DEF Ordered
  <1>18. Reading'
    BY <1>1 DEF IInv, Reading, Found
  <1>19. OnlyRepliesStream'
    <2>1. row.draft.kind # "assistant" => row.status = "complete"
      BY DEF NewRow
    <2> HIDE DEF row
    <2> QED BY <1>1, <1>5, <1>7, <2>1 DEF IInv, OnlyRepliesStream
  <1> QED BY <1>6, <1>9, <1>13, <1>14, <1>15, <1>16, <1>17, <1>18, <1>19,
         <1>20 DEF IInv

\* A transaction that wrote in a session held its lock, so nobody else's numbers
\* depend on the counter that moves.
LEMMA CommitStep ==
  ASSUME IInv, NEW t \in Txs, Commit(t)
  PROVE  IInv'
  <1>1. /\ next_seq' = [s \in Sessions |-> next_seq[s] + Written(t, s)]
        /\ rows' = rows \cup tx[t].wrote
        /\ tx' = [tx EXCEPT ![t] = NoTx]
        /\ UNCHANGED reader
    BY DEF Commit, Written
  <1>2. \A s \in Sessions : next_seq[s] \in Nat /\ Written(t, s) \in Nat
    BY WrittenType DEF IInv, TypeOK
  <1>3. \A s \in Sessions : next_seq'[s] = next_seq[s] + Written(t, s)
    BY <1>1
  <1>4. TypeOK'
    <2>1. next_seq' \in [Sessions -> Nat]
      BY <1>1, <1>2
    <2>2. rows' \subseteq Row
      BY <1>1, TxType DEF IInv, TypeOK
    <2> QED BY <1>1, <2>1, <2>2, NoTxType DEF IInv, TypeOK
  <1>5. \A u \in Txs : tx'[u] = IF u = t THEN NoTx ELSE tx[u]
    BY <1>1 DEF IInv, TypeOK
  <1>6. \A u \in Txs, s \in Sessions :
          WroteIn(u, s)' = IF u = t THEN {} ELSE WroteIn(u, s)
    BY <1>5, NoTxType DEF WroteIn
  <1>7. \A s \in Sessions : RowsOf(s)' = RowsOf(s) \cup WroteIn(t, s)
    BY <1>1 DEF RowsOf, WroteIn
  <1>8. Committed'
    <2> SUFFICES ASSUME NEW s \in Sessions
                 PROVE  Dense(RowsOf(s)', 1, next_seq'[s] - 1)
      BY DEF Committed, Dense
    <2>1. Dense(RowsOf(s), 1, next_seq[s] - 1)
      BY DEF IInv, Committed
    <2>2. CASE WroteIn(t, s) = {}
      <3>1. Written(t, s) = 0
        BY <2>2, WrittenType DEF IInv
      <3>2. RowsOf(s)' = RowsOf(s) /\ next_seq'[s] = next_seq[s]
        BY <1>2, <1>3, <1>7, <2>2, <3>1
      <3> QED BY <2>1, <3>2
    <2>3. CASE WroteIn(t, s) # {}
      <3> DEFINE b == next_seq[s] - 1
                 c == next_seq'[s] - 1
      <3>1. Dense(WroteIn(t, s), next_seq[s], next_seq[s] + Written(t, s) - 1)
            /\ next_seq[s] # 0
        BY <2>3 DEF IInv, Pending
      <3>2. /\ b \in Int /\ c \in Int /\ 1 <= b + 1 /\ b <= c
            /\ b + 1 = next_seq[s] /\ c = next_seq[s] + Written(t, s) - 1
        BY <1>2, <1>3, <3>1
      <3>3. Dense(RowsOf(s), 1, b) /\ Dense(WroteIn(t, s), b + 1, c)
        BY <2>1, <3>1, <3>2, Zenon
      <3>4. Dense(RowsOf(s) \cup WroteIn(t, s), 1, c)
        <4> HIDE DEF b, c
        <4> QED BY <3>2, <3>3, DenseUnion
      <3> QED BY <1>7, <3>4
    <2> QED BY <2>2, <2>3
  <1>9. Pending'
    <2> SUFFICES ASSUME NEW s \in Sessions, NEW u \in Txs
                 PROVE  /\ Dense(WroteIn(u, s)', next_seq'[s],
                                 next_seq'[s] + Cardinality(WroteIn(u, s)') - 1)
                        /\ next_seq'[s] = 0 => WroteIn(u, s)' = {}
      BY DEF Pending, Written, Dense
    <2>1. CASE WroteIn(u, s)' = {}
      <3>1. Cardinality(WroteIn(u, s)') = 0 /\ next_seq'[s] \in Int
        BY <1>2, <1>3, <2>1, FS_EmptySet
      <3>2. Dense({}, next_seq'[s], next_seq'[s] - 1)
        BY <3>1, DenseEmpty
      <3>3. next_seq'[s] + 0 - 1 = next_seq'[s] - 1
        BY <3>1
      <3> QED BY <2>1, <3>1, <3>2, <3>3, Zenon
    <2>2. CASE WroteIn(u, s)' # {}
      <3>1. u # t /\ WroteIn(u, s)' = WroteIn(u, s)
        BY <1>6, <2>2
      <3>2. WroteIn(t, s) = {}
        BY <2>2, <3>1 DEF IInv, Exclusive
      <3>3. next_seq'[s] = next_seq[s]
        BY <1>2, <1>3, <3>2, WrittenType DEF IInv
      <3> QED BY <3>1, <3>3 DEF IInv, Pending, Written
    <2> QED BY <2>1, <2>2
  <1>10. Finite'
    BY <1>5, NoTxType, FS_EmptySet DEF IInv, Finite
  <1>11. Exclusive'
    BY <1>6 DEF IInv, Exclusive
  <1>12. OncePerKey'
    <2>1. ASSUME NEW u \in Txs
          PROVE  /\ \A r \in tx'[u].wrote : r.draft \notin tx'[u].todo
                 /\ \A q, r \in tx'[u].wrote : q.draft = r.draft => q = r
      BY <1>5, NoTxType DEF IInv, OncePerKey
    <2>2. ASSUME NEW u \in Txs, NEW r \in tx'[u].wrote, NEW q \in rows',
                 r.draft.kind = "user"
          PROVE  q.draft # r.draft
      <3>1. u # t /\ r \in tx[u].wrote
        BY <1>5, NoTxType
      <3>2. CASE q \in rows
        BY <2>2, <3>1, <3>2 DEF IInv, OncePerKey
      <3>3. CASE q \in tx[t].wrote
        <4> SUFFICES ASSUME q.draft = r.draft PROVE FALSE
          OBVIOUS
        <4>1. r \in WroteIn(u, r.draft.session) /\ q \in WroteIn(t, r.draft.session)
          BY <3>1, <3>3 DEF WroteIn
        <4>2. r.draft.session \in Sessions
          BY <3>1, TxType DEF IInv
        <4> QED BY <3>1, <4>1, <4>2 DEF IInv, Exclusive
      <3> QED BY <1>1, <3>2, <3>3
    <2>3. ASSUME NEW q \in rows', NEW r \in rows', q.draft.kind = "user", q.draft = r.draft
          PROVE  q = r
      BY <1>1, <2>3 DEF IInv, OncePerKey
    <2> QED BY <2>1, <2>2, <2>3 DEF OncePerKey
  <1>13. Ordered' /\ Phases'
    BY <1>5, NoTxType DEF IInv, Ordered, Phases, NoTx
  <1>14. Reading'
    <2>1. \A s \in Sessions : next_seq'[s] \in Nat /\ next_seq[s] <= next_seq'[s]
      BY <1>2, <1>3
    <2>2. UNCHANGED reader /\ TypeOK /\ Reading
      BY <1>1 DEF IInv
    <2> QED BY <2>1, <2>2, CursorKept
  <1>15. OnlyRepliesStream'
    BY <1>1, <1>5, NoTxType DEF IInv, OnlyRepliesStream
  <1> QED BY <1>4, <1>8, <1>9, <1>10, <1>11, <1>12, <1>13, <1>14, <1>15 DEF IInv

-----------------------------------------------------------------------------
(* Pages.                                                                  *)

\* A set of naturals has a least element.
LEMMA LeastNat ==
  ASSUME NEW S \in SUBSET Nat, S # {}
  PROVE  \E m \in S : \A k \in S : m <= k
  <1>1. PICK m \in S : \A k \in S : <<k, m>> \notin OpToRel(<, Nat)
    BY NatLessThanWellFounded, WFMin
  <1>2. \A k \in S : ~(k < m)
    BY <1>1 DEF OpToRel
  <1> QED BY <1>2

\* A bounded set of naturals has a greatest element.
LEMMA GreatestNat ==
  ASSUME NEW S \in SUBSET Nat, S # {}, NEW bound \in Nat, \A n \in S : n <= bound
  PROVE  \E m \in S : \A n \in S : n <= m
  <1> DEFINE T == {k \in Nat : \E n \in S : k = bound - n}
  <1>1. T \in SUBSET Nat /\ T # {}
    <2>1. PICK n \in S : TRUE
      OBVIOUS
    <2>2. bound - n \in T
      OBVIOUS
    <2> QED BY <2>2
  <1>2. PICK k \in T : \A j \in T : k <= j
    <2> HIDE DEF T
    <2> QED BY <1>1, LeastNat
  <1>3. PICK m \in S : k = bound - m
    BY <1>2
  <1>4. ASSUME NEW n \in S PROVE n <= m
    <2>1. bound - n \in T
      OBVIOUS
    <2> QED BY <1>2, <1>3, <2>1
  <1> QED BY <1>4

\* Before an element of the page of two pages, no element of either was cut off.
LEMMA NothingCut ==
  ASSUME NEW n \in Nat, NEW E \in SUBSET Nat, NEW U, IsFiniteSet(U), IsFiniteSet(E),
         First(n, E) \subseteq U, NEW i \in Nat, i \in First(n, U)
  PROVE  {k \in E : k < i} \subseteq First(n, E)
  <1> DEFINE cut == {k \in E : k < i /\ k \notin First(n, E)}
             under == {k \in U : k < i}
  <1>1. IsFiniteSet(under) /\ Cardinality(under) \in Nat /\ Cardinality(under) < n
    <2>1. IsFiniteSet(under)
      BY FS_Subset
    <2> QED BY <2>1, FS_CardinalityType DEF First
  <1> SUFFICES ASSUME cut # {} PROVE FALSE
    OBVIOUS
  <1>2. PICK m \in cut : \A k \in cut : m <= k
    <2> cut \in SUBSET Nat
      OBVIOUS
    <2> HIDE DEF cut
    <2> QED BY LeastNat
  <1> DEFINE before == {k \in E : k < m}
  <1>3. m \in E /\ m \in Nat /\ m < i /\ m \notin First(n, E)
    BY <1>2
  <1>4. before \subseteq under
    <2> SUFFICES ASSUME NEW k \in E, k < m PROVE k \in U /\ k < i
      OBVIOUS
    <2>1. k \in Nat /\ k < i
      BY <1>3
    <2>2. k \in First(n, E)
      BY <1>2, <1>3, <2>1
    <2> QED BY <2>1, <2>2
  <1>5. Cardinality(before) <= Cardinality(under)
    BY <1>1, <1>4, FS_Subset
  <1>6. IsFiniteSet(before) /\ Cardinality(before) \in Nat
    BY <1>1, <1>4, FS_Subset, FS_CardinalityType
  <1>7. ~(Cardinality(before) < n)
    BY <1>3 DEF First
  <1> QED BY <1>1, <1>5, <1>6, <1>7

\* The page of two pages is the page of the whole.
LEMMA FirstOfTwo ==
  ASSUME NEW n \in Nat, NEW M \in SUBSET Nat, NEW E \in SUBSET Nat,
         IsFiniteSet(M), IsFiniteSet(E)
  PROVE  First(n, First(n, M) \cup First(n, E)) = First(n, M \cup E)
  <1> DEFINE U == First(n, M) \cup First(n, E)
  <1>1. First(n, M) \subseteq M /\ First(n, E) \subseteq E
    BY DEF First
  <1>2. U \subseteq M \cup E /\ U \subseteq Nat
    BY <1>1
  <1>3. IsFiniteSet(M \cup E) /\ IsFiniteSet(U)
    BY <1>2, FS_Union, FS_Subset
  <1>4. ASSUME NEW i \in First(n, M \cup E)
        PROVE  i \in First(n, U)
    <2> DEFINE all == {k \in M \cup E : k < i}
    <2>1. IsFiniteSet(all) /\ Cardinality(all) \in Nat /\ Cardinality(all) < n
          /\ i \in M \cup E
      <3>1. IsFiniteSet(all)
        BY <1>3, FS_Subset
      <3> QED BY <3>1, FS_CardinalityType DEF First
    <2>2. \A S \in SUBSET all : /\ Cardinality(S) < n
      <3> HIDE DEF all
      <3> SUFFICES ASSUME NEW S \in SUBSET all PROVE Cardinality(S) < n
        OBVIOUS
      <3>1. IsFiniteSet(S) /\ Cardinality(S) <= Cardinality(all)
        BY <2>1, FS_Subset
      <3>2. Cardinality(S) \in Nat
        BY <3>1, FS_CardinalityType
      <3> QED BY <2>1, <3>1, <3>2
    <2>3. i \in U
      <3>1. CASE i \in M
        <4>1. Cardinality({k \in M : k < i}) < n
          BY <2>2
        <4> QED BY <3>1, <4>1 DEF First
      <3>2. CASE i \in E
        <4>1. Cardinality({k \in E : k < i}) < n
          BY <2>2
        <4> QED BY <3>2, <4>1 DEF First
      <3> QED BY <2>1, <3>1, <3>2
    <2>4. Cardinality({k \in U : k < i}) < n
      <3>1. {k \in U : k < i} \in SUBSET all
        BY <1>2
      <3> HIDE DEF all, U
      <3> QED BY <2>2, <3>1
    <2> HIDE DEF U
    <2> QED BY <2>3, <2>4 DEF First
  <1>5. ASSUME NEW i \in First(n, U)
        PROVE  i \in First(n, M \cup E)
    <2>1. i \in U /\ Cardinality({k \in U : k < i}) < n
      <3> HIDE DEF U
      <3> QED BY DEF First
    <2>2. i \in Nat
      BY <1>2, <2>1
    <2>3. {k \in E : k < i} \subseteq First(n, E)
      <3>1. First(n, E) \subseteq U
        OBVIOUS
      <3> HIDE DEF U
      <3> QED BY <1>3, <2>2, <3>1, NothingCut
    <2>4. {k \in M : k < i} \subseteq First(n, M)
      <3>1. First(n, M) \subseteq U
        OBVIOUS
      <3> HIDE DEF U
      <3> QED BY <1>3, <2>2, <3>1, NothingCut
    <2>5. {k \in M \cup E : k < i} = {k \in U : k < i}
      BY <1>2, <2>3, <2>4
    <2>6. i \in M \cup E
      BY <1>2, <2>1
    <2> HIDE DEF U
    <2> QED BY <2>1, <2>5, <2>6 DEF First
  <1> QED BY <1>4, <1>5

\* A page of consecutive numbers.
LEMMA FirstInterval ==
  ASSUME NEW n \in Nat, NEW a \in Nat, NEW b \in Nat
  PROVE  First(n, a + 1 .. b) = a + 1 .. (IF a + n < b THEN a + n ELSE b)
  <1>1. ASSUME NEW i \in a + 1 .. b
        PROVE  i \in First(n, a + 1 .. b) <=> i <= a + n
    <2>1. {k \in a + 1 .. b : k < i} = a + 1 .. i - 1
      OBVIOUS
    <2>2. Cardinality(a + 1 .. i - 1) = i - 1 - a
      <3>1. Cardinality(a + 1 .. i - 1) = IF a + 1 > i - 1 THEN 0 ELSE (i - 1) - (a + 1) + 1
        BY FS_Interval
      <3> QED BY <3>1
    <2>3. i \in First(n, a + 1 .. b) <=> Cardinality(a + 1 .. i - 1) < n
      BY <2>1, Zenon DEF First
    <2> QED BY <2>2, <2>3
  <1>2. \A i \in First(n, a + 1 .. b) : i \in a + 1 .. b
    BY DEF First
  <1>3. CASE a + n < b
    <2>1. \A i : i \in First(n, a + 1 .. b) <=> i \in a + 1 .. a + n
      BY <1>1, <1>2, <1>3
    <2> QED BY <1>3, <2>1
  <1>4. CASE ~(a + n < b)
    <2>1. \A i : i \in First(n, a + 1 .. b) <=> i \in a + 1 .. b
      BY <1>1, <1>2, <1>4
    <2> QED BY <1>4, <2>1
  <1> QED BY <1>3, <1>4

-----------------------------------------------------------------------------
(* The reader, and what the invariant gives.                               *)

\* The last number of a session.
Last(s) == IF next_seq[s] = 0 THEN 0 ELSE next_seq[s] - 1

LEMMA LastType ==
  ASSUME TypeOK, NEW s \in Sessions
  PROVE  Last(s) \in Nat /\ 1..Last(s) = 1..next_seq[s] - 1
  BY DEF TypeOK, Last

LEMMA ReaderStep ==
  ASSUME IInv, UNCHANGED <<next_seq, rows, tx>>, TypeOK', Reading'
  PROVE  IInv'
  <1>1. \A s \in Sessions : /\ RowsOf(s)' = RowsOf(s)
                            /\ \A t \in Txs : WroteIn(t, s)' = WroteIn(t, s)
    BY DEF RowsOf, WroteIn
  <1>2. Committed'
    BY <1>1 DEF IInv, Committed, Dense
  <1>3. Pending'
    BY <1>1 DEF IInv, Pending, Dense, Written
  <1>4. Finite' /\ Exclusive' /\ OncePerKey' /\ OnlyRepliesStream' /\ Ordered' /\ Phases'
    BY <1>1 DEF IInv, Finite, Exclusive, OncePerKey, OnlyRepliesStream, Ordered, Phases
  <1> QED BY <1>2, <1>3, <1>4 DEF IInv

LEMMA MessagesSinceStep ==
  ASSUME IInv, NEW s \in Sessions, MessagesSince(s)
  PROVE  IInv'
  <1> DEFINE c == reader[s].cursor
             Seqs(kinds) == {r.seq : r \in {q \in RowsOf(s) : q.draft.kind \in kinds /\ q.seq > c}}
             msgs == Seqs(Messages)
             new == [reader[s] EXCEPT !.reading = TRUE, !.page = Since(s, Messages),
                                      !.snapshot = Since(s, {"event"})]
  <1>1. reader[s] \in Reader /\ c \in Nat /\ next_seq[s] \in Nat
    BY DEF IInv, TypeOK, Reader
  <1>2. reader' = [reader EXCEPT ![s] = new] /\ UNCHANGED <<next_seq, rows, tx>>
    BY <1>1 DEF MessagesSince, IInv, TypeOK, Reader
  <1>3. Since(s, Messages) = First(Limit, msgs) /\ Since(s, {"event"}) = First(Limit, Seqs({"event"}))
    BY DEF Since
  <1>4. \A kinds : Since(s, kinds) \subseteq Nat
    <2>1. \A r \in RowsOf(s) : r.seq \in Nat
      BY DEF RowsOf, Row, IInv, TypeOK
    <2> QED BY <2>1 DEF Since, First
  <1>5. new \in Reader
    BY <1>1, <1>4 DEF Reader
  <1>6. TypeOK'
    BY <1>2, <1>5 DEF IInv, TypeOK
  <1>7. Dense(RowsOf(s), 1, Last(s))
    BY <1>1, LastType DEF IInv, Committed, Dense
  <1>8. c <= Last(s) /\ Last(s) \in Nat /\ (Last(s) = 0 \/ Last(s) < next_seq[s])
    BY <1>1 DEF IInv, Reading, Last
  <1>9. msgs \in SUBSET (c + 1 .. Last(s))
    BY <1>1, <1>7, <1>8 DEF Dense
  <1>10. Seqs({"event"}) = (c + 1 .. Last(s)) \ msgs
    <2>1. \A r \in RowsOf(s) : r.draft.kind = "event" <=> r.draft.kind \notin Messages
      BY DEF RowsOf, Row, Draft, Messages, IInv, TypeOK
    <2>2. Seqs({"event"}) \subseteq (c + 1 .. Last(s)) \ msgs
      <3> SUFFICES ASSUME NEW r \in RowsOf(s), r.draft.kind = "event", r.seq > c
                   PROVE  r.seq \in (c + 1 .. Last(s)) \ msgs
        OBVIOUS
      <3>1. r.seq \in c + 1 .. Last(s)
        BY <1>1, <1>7, <1>8 DEF Dense
      <3>2. r.seq \notin msgs
        BY <1>7, <2>1 DEF Dense
      <3> QED BY <3>1, <3>2
    <2>3. ASSUME NEW i \in c + 1 .. Last(s), i \notin msgs
          PROVE  i \in Seqs({"event"})
      <3>1. i \in 1 .. Last(s) /\ i > c
        BY <1>1, <1>8
      <3>2. PICK r \in RowsOf(s) : r.seq = i
        BY <1>7, <3>1 DEF Dense
      <3> QED BY <2>1, <2>3, <3>1, <3>2
    <2> QED BY <2>2, <2>3
  <1>15. PICK end \in Nat : end = Last(s)
    BY <1>8
  <1>11. PICK found \in SUBSET (c + 1 .. end) : end = Last(s) /\ found = msgs
    <2> HIDE DEF msgs
    <2> QED BY <1>9, <1>15
  <1>13. /\ reader'[s].cursor = c /\ reader'[s].got = reader[s].got
         /\ reader'[s].page = First(Limit, found)
         /\ reader'[s].snapshot = First(Limit, (c + 1 .. end) \ found)
    <2>1. /\ reader'[s].cursor = c /\ reader'[s].got = reader[s].got
          /\ reader'[s].page = Since(s, Messages)
          /\ reader'[s].snapshot = Since(s, {"event"})
      BY <1>1, <1>2 DEF IInv, TypeOK, Reader
    <2> QED BY <1>3, <1>10, <1>11, <2>1
  <1>14. Found(s, end, found)'
    BY <1>2, <1>8, <1>11, <1>13 DEF Found
  <1>12. Reading'
    <2> SUFFICES ASSUME NEW r \in Sessions
                 PROVE  /\ reader'[r].got = 1..reader'[r].cursor
                        /\ reader'[r].cursor = 0 \/ reader'[r].cursor < next_seq[r]
                        /\ reader'[r].reading =>
                             \E last \in Nat : \E m \in SUBSET (reader'[r].cursor + 1 .. last) :
                               Found(r, last, m)'
      BY <1>2 DEF Reading
    <2>1. CASE r = s
      <3>1. c = 0 \/ c < next_seq[s]
        BY DEF IInv, Reading
      <3>2. reader[s].got = 1..c
        BY DEF IInv, Reading
      <3> QED BY <1>13, <1>14, <2>1, <3>1, <3>2
    <2>2. CASE r # s
      <3>1. reader'[r] = reader[r]
        BY <1>2, <2>2 DEF IInv, TypeOK
      <3>2. \A last, m : Found(r, last, m) => Found(r, last, m)'
        BY <1>2, <3>1 DEF Found
      <3> QED BY <3>1, <3>2 DEF IInv, Reading
    <2> QED BY <2>1, <2>2
  <1> QED BY <1>2, <1>6, <1>12, ReaderStep

\* What the reader is handed: the next numbers, as many as the page has room for.
LEMMA NextPage ==
  ASSUME IInv, NEW s \in Sessions, reader[s].reading
  PROVE  \E top \in Nat :
           /\ reader[s].cursor <= top
           /\ top = 0 \/ top < next_seq[s]
           /\ First(Limit, reader[s].page \cup reader[s].snapshot) = reader[s].cursor + 1 .. top
  <1> DEFINE c == reader[s].cursor
  <1>1. c \in Nat /\ next_seq[s] \in Nat
    BY DEF IInv, TypeOK, Reader
  <1>10. PICK end \in Nat : \E msgs \in SUBSET (c + 1 .. end) : Found(s, end, msgs)
    BY DEF IInv, Reading
  <1>2. PICK msgs \in SUBSET (c + 1 .. end) : Found(s, end, msgs)
    BY <1>10
  <1> DEFINE all == c + 1 .. end
             top == IF c + Limit < end THEN c + Limit ELSE end
  <1>3. all \in SUBSET Nat /\ IsFiniteSet(all)
    <2>1. c + 1 \in Int /\ end \in Int
      BY <1>1
    <2>2. IsFiniteSet(c + 1 .. end)
      BY <2>1, FS_Interval
    <2> QED BY <1>1, <2>2
  <1>4. /\ msgs \in SUBSET Nat /\ all \ msgs \in SUBSET Nat
        /\ IsFiniteSet(msgs) /\ IsFiniteSet(all \ msgs)
    BY <1>3, FS_Subset
  <1>5. msgs \cup (all \ msgs) = all
    OBVIOUS
  <1>6. First(Limit, First(Limit, msgs) \cup First(Limit, all \ msgs)) = First(Limit, all)
    <2> HIDE DEF all
    <2> QED BY <1>4, <1>5, FirstOfTwo
  <1>7. First(Limit, all) = c + 1 .. top
    BY <1>1, FirstInterval
  <1>8. top \in Nat /\ c <= top /\ (top = 0 \/ top < next_seq[s])
    BY <1>1, <1>2 DEF Found
  <1>9. First(Limit, reader[s].page \cup reader[s].snapshot) = c + 1 .. top
    <2>1. reader[s].page = First(Limit, msgs) /\ reader[s].snapshot = First(Limit, all \ msgs)
      BY <1>2 DEF Found
    <2> HIDE DEF all, top
    <2> QED BY <1>6, <1>7, <2>1
  <1> HIDE DEF top
  <1> QED BY <1>8, <1>9

\* EventsSince moves one reader to the end of its page.
LEMMA EventsSinceMoves ==
  ASSUME IInv, NEW s \in Sessions, EventsSince(s)
  PROVE  \E top \in Nat :
           /\ reader[s].cursor <= top
           /\ top = 0 \/ top < next_seq[s]
           /\ reader' = [reader EXCEPT ![s] = [NoReader EXCEPT !.got = 1..top, !.cursor = top]]
  <1> DEFINE c == reader[s].cursor
             page == First(Limit, reader[s].page \cup reader[s].snapshot)
  <1>1. reader[s].reading /\ Handed(s, page)
    BY DEF EventsSince
  <1>2. PICK top \in Nat : /\ c <= top /\ (top = 0 \/ top < next_seq[s])
                           /\ page = c + 1 .. top
    BY <1>1, NextPage
  <1> HIDE DEF page
  <1>3. c \in Nat /\ reader[s].got = 1..c
    BY DEF IInv, TypeOK, Reader, Reading
  <1>4. reader[s].got \cup page = 1..top
    BY <1>2, <1>3
  <1> DEFINE last == IF page = {} THEN c ELSE CHOOSE n \in page : \A i \in page : i <= n
  <1>5. last = top
    <2>1. CASE c = top
      <3>1. page = {}
        BY <1>2, <1>3, <2>1
      <3> QED BY <2>1, <3>1
    <2>2. CASE c < top
      <3>1. top \in page /\ \A n \in page : (\A i \in page : i <= n) <=> n = top
        BY <1>2, <1>3, <2>2
      <3> QED BY <3>1
    <2> QED BY <1>2, <1>3, <2>1, <2>2
  <1>6. reader' = [reader EXCEPT ![s] = [NoReader EXCEPT !.got = 1..top, !.cursor = top]]
    <2>1. reader' = [reader EXCEPT ![s] = [NoReader EXCEPT !.got = reader[s].got \cup page,
                                                           !.cursor = last]]
      BY <1>1 DEF Handed
    <2> HIDE DEF last
    <2> QED BY <1>4, <1>5, <2>1
  <1> QED BY <1>2, <1>6

LEMMA EventsSinceStep ==
  ASSUME IInv, NEW s \in Sessions, EventsSince(s)
  PROVE  IInv'
  <1>1. PICK top \in Nat :
           /\ top = 0 \/ top < next_seq[s]
           /\ reader' = [reader EXCEPT ![s] = [NoReader EXCEPT !.got = 1..top, !.cursor = top]]
    BY EventsSinceMoves
  <1> DEFINE new == [NoReader EXCEPT !.got = 1..top, !.cursor = top]
  <1>2. UNCHANGED <<next_seq, rows, tx>>
    BY DEF EventsSince
  <1>3. new \in Reader /\ new.cursor = top /\ new.got = 1..top /\ ~new.reading
    <2>1. 1..top \in SUBSET Nat
      OBVIOUS
    <2> QED BY <2>1 DEF NoReader, Reader
  <1>4. \A r \in Sessions : reader'[r] = IF r = s THEN new ELSE reader[r]
    BY <1>1 DEF IInv, TypeOK
  <1> HIDE DEF new
  <1>5. TypeOK'
    BY <1>1, <1>2, <1>3, <1>4 DEF IInv, TypeOK, new
  <1>6. Reading'
    <2> SUFFICES ASSUME NEW r \in Sessions
                 PROVE  /\ reader'[r].got = 1..reader'[r].cursor
                        /\ reader'[r].cursor = 0 \/ reader'[r].cursor < next_seq[r]
                        /\ reader'[r].reading =>
                             \E end \in Nat : \E m \in SUBSET (reader'[r].cursor + 1 .. end) :
                               Found(r, end, m)'
      BY <1>2 DEF Reading
    <2>1. CASE r = s
      BY <1>1, <1>3, <1>4, <2>1
    <2>2. CASE r # s
      <3>1. reader'[r] = reader[r]
        BY <1>4, <2>2
      <3>2. \A end, m : Found(r, end, m) => Found(r, end, m)'
        BY <1>2, <3>1 DEF Found
      <3> QED BY <3>1, <3>2 DEF IInv, Reading
    <2> QED BY <2>1, <2>2
  <1> QED BY <1>2, <1>5, <1>6, ReaderStep

\* A reply is finished in its place.
LEMMA FinishMoves ==
  ASSUME IInv, NEW r \in rows, NEW status \in {"complete", "failed"}, Finish(r, status)
  PROVE  \E new \in Row :
           /\ r.draft.kind = "assistant" /\ r \in Row
           /\ new.draft = r.draft /\ new.seq = r.seq /\ new.status = status
           /\ rows' = (rows \ {r}) \cup {new}
           /\ UNCHANGED <<next_seq, tx, reader>>
  <1> DEFINE new == [r EXCEPT !.status = status]
  <1>1. r \in Row
    BY DEF IInv, TypeOK
  <1>2. new \in Row /\ new.draft = r.draft /\ new.seq = r.seq /\ new.status = status
    BY <1>1 DEF Row
  <1>3. /\ r.draft.kind = "assistant" /\ rows' = (rows \ {r}) \cup {new}
        /\ UNCHANGED <<next_seq, tx, reader>>
    BY DEF Finish
  <1> HIDE DEF new
  <1> QED BY <1>1, <1>2, <1>3

LEMMA FinishStep ==
  ASSUME IInv, NEW r \in rows, NEW status \in {"complete", "failed"}, Finish(r, status)
  PROVE  IInv'
  <1>1. PICK new \in Row :
          /\ r.draft.kind = "assistant" /\ r \in Row
          /\ new.draft = r.draft /\ new.seq = r.seq
          /\ rows' = (rows \ {r}) \cup {new}
          /\ UNCHANGED <<next_seq, tx, reader>>
    BY FinishMoves
  <1>2. TypeOK'
    BY <1>1 DEF IInv, TypeOK
  <1>3. \A s \in Sessions, t \in Txs : WroteIn(t, s)' = WroteIn(t, s)
    BY <1>1 DEF WroteIn
  <1>4. Committed'
    <2> SUFFICES ASSUME NEW s \in Sessions
                 PROVE  Dense(RowsOf(s)', 1, next_seq[s] - 1)
      BY <1>1 DEF Committed, Dense
    <2> DEFINE b == next_seq[s] - 1
               R == RowsOf(s)
               Q == RowsOf(s)'
    <2>1. Dense(R, 1, b) /\ b \in Int
      BY DEF IInv, Committed, TypeOK
    <2>2. \A q \in Q : \E p \in R : q.seq = p.seq
      BY <1>1 DEF RowsOf
    <2>3. \A p \in R : \E q \in Q : q.seq = p.seq
      BY <1>1 DEF RowsOf
    <2>4. \A p, q \in Q : p.seq = q.seq => p = q
      <3>1. \A q \in Q : q # new => q \in R /\ q # r
        BY <1>1 DEF RowsOf
      <3>2. new \in Q => r \in R
        BY <1>1 DEF RowsOf
      <3> HIDE DEF Q, R
      <3> QED BY <1>1, <2>1, <3>1, <3>2 DEF Dense
    <2> HIDE DEF R, Q, b
    <2>5. Dense(Q, 1, b)
      BY <2>1, <2>2, <2>3, <2>4, DenseMap
    <2> QED BY <2>5 DEF Q, b
  <1>5. Pending'
    BY <1>1, <1>3 DEF IInv, Pending, Dense, Written
  <1>6. Finite' /\ Exclusive' /\ Ordered' /\ Phases'
    BY <1>1, <1>3 DEF IInv, Finite, Exclusive, Ordered, Phases
  <1>7. OncePerKey'
    <2>1. \A t \in Txs : \A w \in tx[t].wrote, q \in rows' :
            w.draft.kind = "user" => q.draft # w.draft
      BY <1>1 DEF IInv, OncePerKey
    <2>2. \A p, q \in rows' : p.draft.kind = "user" /\ p.draft = q.draft => p = q
      <3>1. \A q \in rows' : q.draft.kind = "user" => q \in rows
        BY <1>1
      <3> QED BY <3>1 DEF IInv, OncePerKey
    <2> QED BY <1>1, <2>1, <2>2 DEF IInv, OncePerKey
  <1>8. Reading'
    BY <1>1 DEF IInv, Reading, Found
  <1>9. OnlyRepliesStream'
    BY <1>1 DEF IInv, OnlyRepliesStream
  <1> QED BY <1>2, <1>4, <1>5, <1>6, <1>7, <1>8, <1>9 DEF IInv

LEMMA StutterInv ==
  ASSUME IInv, UNCHANGED vars
  PROVE  IInv'
  <1>1. UNCHANGED <<next_seq, rows, tx, reader>>
    BY DEF vars
  <1>2. TypeOK' /\ Reading'
    BY <1>1 DEF IInv, TypeOK, Reading, Found
  <1> QED BY <1>1, <1>2, ReaderStep

\* The invariant of the log.
THEOREM InvHolds == Spec => []IInv
  <1>1. Init => IInv
    BY InitInv
  <1>2. ASSUME IInv, Next PROVE IInv'
    BY <1>2, NextCases, RestartStep, EnsureSessionStep, NumberStep, CommitStep,
       MessagesSinceStep, EventsSinceStep, FinishStep
  <1>3. IInv /\ [Next]_vars => IInv'
    BY <1>2, StutterInv
  <1> QED BY <1>1, <1>3, PTL DEF Spec

\* Every action of a transaction, a reader or a reply keeps the types.
THEOREM TypeCorrect == Spec => []TypeOK
  <1>1. IInv => TypeOK
    BY DEF IInv
  <1> QED BY <1>1, InvHolds, PTL

\* The numbers of a session have no gap and none is given twice, whatever was
\* rolled back, refused or lost a race: allocate_seq counts under the row lock.
THEOREM GapFreeHolds == Spec => []GapFree
  <1>1. ASSUME IInv PROVE GapFree
    <2> SUFFICES ASSUME NEW s \in Sessions
                 PROVE  /\ {r.seq : r \in RowsOf(s)} = 1..next_seq[s] - 1
                        /\ \A q, r \in RowsOf(s) : q.seq = r.seq => q = r
      BY DEF GapFree
    <2>1. Dense(RowsOf(s), 1, next_seq[s] - 1)
      BY <1>1 DEF IInv, Committed
    <2> QED BY <2>1 DEF Dense
  <1>2. IInv => GapFree
    BY <1>1
  <1> QED BY <1>2, InvHolds, PTL

\* Two transactions that each wait for the other's row lock, or longer cycles:
\* only the rows of retire_lapsed's update, which nothing orders, can close one.
\* Who has not come to a job yet is waited for by nobody; and of those that have
\* all their jobs, the one that waits for the last of the sessions waits for one
\* that waits for none, because the events are recorded sorted by session.
THEOREM OnlySweepsDeadlockHolds == Spec => []OnlySweepsDeadlock
  <1>1. ASSUME IInv, NEW t \in Txs, NEW u \in Txs, WaitsForSession(t, u)
        PROVE  tx[u].moves = {} /\ tx[u].wrote # {}
    BY <1>1 DEF WaitsForSession, WroteIn, IInv, Phases
  <1>2. ASSUME IInv, NEW late \in SUBSET Txs, late # {},
               \A t \in late : \E u \in late : t # u /\ WaitsForSession(t, u)
        PROVE  FALSE
    <2> DEFINE Wants(t, u, n) == /\ t # u /\ WroteIn(u, n) # {}
                                 /\ \E d \in tx[t].todo : n = d.session /\ IsNext(d, tx[t].todo)
               wanted == {n \in Sessions : \E t, u \in late : Wants(t, u, n)}
    <2>1. ASSUME NEW t \in late
          PROVE  \E u \in late, n \in wanted : Wants(t, u, n)
      <3>1. PICK u \in late : t # u /\ WaitsForSession(t, u)
        BY <1>2
      <3>2. PICK d \in tx[t].todo : IsNext(d, tx[t].todo) /\ WroteIn(u, d.session) # {}
        BY <3>1 DEF WaitsForSession
      <3>3. d.session \in Sessions
        BY <1>2, TxType, DraftType DEF IInv
      <3>4. Wants(t, u, d.session)
        BY <3>1, <3>2
      <3> QED BY <3>3, <3>4
    <2>2. wanted \in SUBSET Nat /\ wanted # {}
      BY <1>2, <2>1
    <2>3. PICK last \in Nat : \A t \in Txs : \A r \in tx[t].wrote : r.draft.session <= last
      BY <1>2 DEF IInv, Ordered
    <2>4. \A n \in wanted : n <= last
      BY <2>3 DEF WroteIn
    <2>5. PICK m \in wanted : \A n \in wanted : n <= m
      <3> HIDE DEF wanted
      <3> QED BY <2>2, <2>3, <2>4, GreatestNat
    <2>6. PICK t \in late, u \in late : Wants(t, u, m)
      BY <2>5
    <2>7. PICK v \in late, n \in wanted : Wants(u, v, n)
      BY <2>1
    <2>8. PICK d \in tx[u].todo : n = d.session
      BY <2>7
    <2>9. PICK r \in tx[u].wrote : r.draft.session = m
      BY <2>6 DEF WroteIn
    <2>10. m <= n
      BY <1>2, <2>8, <2>9 DEF IInv, Ordered
    <2>11. m = n
      BY <2>2, <2>5, <2>7, <2>10
    <2>12. WroteIn(u, m) # {} /\ WroteIn(v, m) # {} /\ u # v /\ m \in Sessions
      BY <2>5, <2>6, <2>7, <2>11
    <2> QED BY <1>2, <2>12 DEF IInv, Exclusive
  <1>3. ASSUME IInv, NEW some \in SUBSET {t \in Txs : tx[t].open},
               \A t \in some : /\ \E u \in some : WaitsFor(t, u)
                               /\ \E u \in some : WaitsFor(u, t),
               NEW t \in some, ~MidSweep(t)
        PROVE  FALSE
    <2> DEFINE late == {u \in some : tx[u].moves = {}}
    <2>1. tx[t].moves = {}
      <3>1. PICK u \in some : WaitsFor(u, t)
        BY <1>3
      <3>2. CASE WaitsForJob(u, t)
        BY <1>3, <3>2 DEF WaitsForJob, MidSweep
      <3>3. CASE WaitsForSession(u, t)
        BY <1>1, <1>3, <3>3
      <3> QED BY <3>1, <3>2, <3>3 DEF WaitsFor
    <2>2. ASSUME NEW u \in late
          PROVE  \E v \in late : u # v /\ WaitsForSession(u, v)
      <3>1. PICK v \in some : WaitsFor(u, v)
        BY <1>3
      <3>2. u # v /\ WaitsForSession(u, v)
        BY <3>1 DEF WaitsFor, WaitsForJob
      <3>3. v \in late
        BY <1>1, <1>3, <3>2
      <3> QED BY <3>2, <3>3
    <2>3. late \in SUBSET Txs /\ late # {}
      BY <1>3, <2>1
    <2> HIDE DEF late
    <2> QED BY <1>2, <1>3, <2>2, <2>3
  <1>4. IInv => OnlySweepsDeadlock
    BY <1>3 DEF OnlySweepsDeadlock
  <1> QED BY <1>4, InvHolds, PTL

-----------------------------------------------------------------------------
(* The refinement of ChatLog.                                              *)

EntryOf(r) == [kind |-> r.draft.kind, of |-> r.draft.of, status |-> r.status]

\* The log of a session has one entry for each number, that of the row with it.
EntriesAreRows(s) ==
  /\ Last(s) \in Nat /\ Len(LogOf(s)) = Last(s) /\ DOMAIN LogOf(s) = 1..Last(s)
  /\ LogOf(s) = [n \in 1..Last(s) |-> LogOf(s)[n]]
  /\ \A r \in RowsOf(s) : r.seq \in 1..Last(s) /\ LogOf(s)[r.seq] = EntryOf(r)
  /\ \A n \in 1..Last(s) : \E r \in RowsOf(s) : r.seq = n /\ LogOf(s)[n] = EntryOf(r)

LogIsRows == \A s \in Sessions : EntriesAreRows(s)

LEMMA LogIs == IInv => LogIsRows
  <1> SUFFICES ASSUME IInv, NEW s \in Sessions PROVE EntriesAreRows(s)
    BY DEF LogIsRows
  <1>1. Last(s) \in Nat /\ Dense(RowsOf(s), 1, Last(s))
    BY LastType DEF IInv, Committed, Dense
  <1>2. Cardinality(RowsOf(s)) = Last(s)
    <2>1. Cardinality(RowsOf(s)) = IF 1 > Last(s) THEN 0 ELSE Last(s) - 1 + 1
      BY <1>1, DenseCard
    <2> QED BY <1>1, <2>1
  <1>3. LogOf(s) = [n \in 1..Last(s) |-> EntryAt(s, n)]
    BY <1>2 DEF LogOf
  <1>4. ASSUME NEW r \in RowsOf(s)
        PROVE  r.seq \in 1..Last(s) /\ LogOf(s)[r.seq] = EntryOf(r)
    <2>1. r.seq \in 1..Last(s)
      BY <1>1 DEF Dense
    <2>2. \A q \in RowsOf(s) : q.seq = r.seq <=> q = r
      BY <1>1 DEF Dense
    <2>3. (CHOOSE q \in RowsOf(s) : q.seq = r.seq) = r
      BY <2>2
    <2>4. EntryAt(s, r.seq) = EntryOf(r)
      BY <2>3 DEF EntryAt, EntryOf
    <2> QED BY <1>3, <2>1, <2>4
  <1>5. \A n \in 1..Last(s) : \E r \in RowsOf(s) : r.seq = n
    BY <1>1 DEF Dense
  <1>6. Len(LogOf(s)) = Last(s) /\ DOMAIN LogOf(s) = 1..Last(s)
    BY <1>1, <1>3
  <1>7. LogOf(s) = [n \in 1..Last(s) |-> LogOf(s)[n]]
    BY <1>3
  <1> HIDE DEF LogOf
  <1> QED BY <1>1, <1>4, <1>5, <1>6, <1>7 DEF EntriesAreRows

LEMMA LogIsNext == IInv' => LogIsRows'
  BY LogIs, PTL

\* The mapped variables.
logs == [s \in Sessions |-> LogOf(s)]
reads == [s \in Sessions |-> reader[s].got]

LEMMA RowsSame == UNCHANGED rows => UNCHANGED logs
  BY DEF logs, LogOf, EntryAt, RowsOf

LEMMA ReadsSame == UNCHANGED reader => UNCHANGED reads
  BY DEF reads

LEMMA InitMaps == Init => Log!Init
  <1> SUFFICES ASSUME Init PROVE Log!Init
    OBVIOUS
  <1>1. \A s \in Sessions : RowsOf(s) = {}
    BY DEF Init, RowsOf
  <1>2. ASSUME NEW s \in Sessions PROVE LogOf(s) = <<>>
    <2>1. Cardinality(RowsOf(s)) = 0
      BY <1>1, FS_EmptySet
    <2>2. LogOf(s) = [n \in 1..0 |-> EntryAt(s, n)]
      BY <2>1 DEF LogOf
    <2>3. 1..0 = {}
      OBVIOUS
    <2>4. [n \in 1..0 |-> EntryAt(s, n)] = [n \in {} |-> EntryAt(s, n)]
      BY <2>3
    <2>5. [n \in {} |-> EntryAt(s, n)] = <<>>
      OBVIOUS
    <2> QED BY <2>2, <2>4, <2>5
  <1>3. \A s \in Sessions : reader[s].got = {}
    BY DEF Init, NoReader
  <1> QED BY <1>2, <1>3 DEF Log!Init

\* A read that ends hands out a beginning of the log.
LEMMA EventsSinceMaps ==
  ASSUME IInv, NEW s \in Sessions, EventsSince(s)
  PROVE  Log!Next
  <1>1. PICK top \in Nat :
           /\ reader[s].cursor <= top
           /\ top = 0 \/ top < next_seq[s]
           /\ reader' = [reader EXCEPT ![s] = [NoReader EXCEPT !.got = 1..top, !.cursor = top]]
    BY EventsSinceMoves
  <1>2. next_seq[s] \in Nat /\ reader[s].cursor \in Nat /\ reader[s].got = 1..reader[s].cursor
    BY DEF IInv, TypeOK, Reading, Reader
  <1>3. top \in 0..Len(LogOf(s))
    BY <1>1, <1>2, LogIs DEF Last, LogIsRows, EntriesAreRows
  <1>4. reads' = [reads EXCEPT ![s] = 1..top]
    BY <1>1 DEF reads, IInv, TypeOK, NoReader
  <1>5. reads[s] \subseteq reads'[s]
    BY <1>1, <1>2, <1>4 DEF reads
  <1>6. UNCHANGED logs
    BY RowsSame DEF EventsSince
  <1>7. Log!Read(s, top)
    BY <1>4, <1>5, <1>6 DEF Log!Read, logs, reads
  <1>8. top \in 0..Len(logs[s])
    BY <1>3 DEF logs
  <1> QED BY <1>7, <1>8 DEF Log!Next, logs

\* A reply that is finished changes its entry and no other.
LEMMA FinishMaps ==
  ASSUME IInv, NEW r \in rows, NEW status \in {"complete", "failed"}, Finish(r, status)
  PROVE  Log!Next
  <1>1. PICK new \in Row :
          /\ r.draft.kind = "assistant" /\ r \in Row
          /\ new.draft = r.draft /\ new.seq = r.seq /\ new.status = status
          /\ rows' = (rows \ {r}) \cup {new}
          /\ UNCHANGED <<next_seq, tx, reader>>
    BY FinishMoves
  <1>2. PICK s \in Sessions : s = r.draft.session
    BY <1>1, DraftType DEF Row
  <1>3. PICK i : i = r.seq
    OBVIOUS
  <1>4. LogIsRows /\ LogIsRows'
    BY FinishStep, LogIs, LogIsNext
  <1>5. \A q \in Sessions : Last(q)' = Last(q)
    BY <1>1 DEF Last
  <1>6. RowsOf(s)' = (RowsOf(s) \ {r}) \cup {new} /\ r \in RowsOf(s)
    BY <1>1, <1>2 DEF RowsOf
  <1>7. \A q \in Sessions : q # s => LogOf(q)' = LogOf(q)
    <2>1. \A q \in Sessions : q # s => RowsOf(q)' = RowsOf(q)
      BY <1>1, <1>2 DEF RowsOf
    <2> QED BY <2>1 DEF LogOf, EntryAt
  <1>8. i \in 1..Last(s) /\ LogOf(s)[i] = EntryOf(r) /\ LogOf(s)'[i] = EntryOf(new)
    BY <1>1, <1>2, <1>3, <1>4, <1>5, <1>6 DEF LogIsRows, EntriesAreRows
  <1>9. \A n \in 1..Last(s) : n # i => LogOf(s)'[n] = LogOf(s)[n]
    <2> SUFFICES ASSUME NEW n \in 1..Last(s), n # i
                 PROVE  LogOf(s)'[n] = LogOf(s)[n]
      OBVIOUS
    <2>1. PICK q \in RowsOf(s) : q.seq = n /\ LogOf(s)[n] = EntryOf(q)
      BY <1>4 DEF LogIsRows, EntriesAreRows
    <2>2. q \in RowsOf(s)'
      BY <1>3, <1>6, <2>1
    <2> QED BY <1>4, <2>1, <2>2 DEF LogIsRows, EntriesAreRows
  <1>10. LogOf(s)' = [LogOf(s) EXCEPT ![i].status = status]
    <2> DEFINE old == LogOf(s)
               now == LogOf(s)'
    <2>1. /\ old = [n \in 1..Last(s) |-> old[n]]
          /\ now = [n \in 1..Last(s) |-> now[n]]
      BY <1>4, <1>5 DEF LogIsRows, EntriesAreRows
    <2>2. now[i] = [old[i] EXCEPT !.status = status]
      <3> HIDE DEF old, now
      <3>1. EntryOf(new) = [EntryOf(r) EXCEPT !.status = status]
        BY <1>1 DEF EntryOf
      <3> QED BY <1>8, <3>1 DEF old, now
    <2>3. \A n \in 1..Last(s) : n # i => now[n] = old[n]
      BY <1>9
    <2> HIDE DEF old, now
    <2>4. now = [old EXCEPT ![i] = [old[i] EXCEPT !.status = status]]
      BY <1>8, <2>1, <2>2, <2>3
    <2> QED BY <2>4 DEF old, now
  <1>11. logs' = [logs EXCEPT ![s][i].status = status]
    BY <1>7, <1>10 DEF logs
  <1>12. i \in DOMAIN logs[s] /\ logs[s][i].kind = "assistant"
    BY <1>1, <1>4, <1>8 DEF LogIsRows, EntriesAreRows, logs, EntryOf
  <1>13. UNCHANGED reads
    BY <1>1, ReadsSame
  <1>14. Log!Finish(s, i, status)
    BY <1>11, <1>12, <1>13 DEF Log!Finish, logs, reads
  <1> QED BY <1>12, <1>14 DEF Log!Next, logs

LEMMA AtMostOne ==
  ASSUME NEW S, \A x, y \in S : x = y
  PROVE  Cardinality(S) <= 1
  <1>1. CASE S = {}
    BY <1>1, FS_EmptySet
  <1>2. CASE S # {}
    <2>1. PICK x \in S : TRUE
      BY <1>2
    <2>2. S = {x}
      BY <2>1
    <2>3. Cardinality({x}) = 1
      BY FS_Singleton
    <2> QED BY <2>2, <2>3
  <1> QED BY <1>1, <1>2

\* What a row may be as an entry.
LEMMA EntryType ==
  ASSUME NEW r \in Row, r.draft.kind # "assistant" => r.status = "complete"
  PROVE  /\ EntryOf(r) \in Log!Entry
         /\ \A q \in Row : /\ q.draft.session = r.draft.session
                           /\ EntryOf(q).kind = "user" /\ EntryOf(r).kind = "user"
                           /\ EntryOf(q).of = EntryOf(r).of
                           => q.draft = r.draft /\ r.draft.kind = "user"
  <1>1. r.draft \in Draft /\ r.status \in {"streaming", "complete", "failed"}
    BY DEF Row
  <1>2. EntryOf(r) \in Log!Entry
    <2>1. CASE r.draft \in [session : Sessions, kind : {"user"}, of : Keys]
      BY <1>1, <2>1 DEF EntryOf, Log!Entry
    <2>2. CASE r.draft \in [session : Sessions, kind : {"assistant"}, of : {"reply"}]
      BY <1>1, <2>2 DEF EntryOf, Log!Entry
    <2>3. CASE r.draft \in [session : Sessions, kind : {"event"}, of : Jobs]
      BY <1>1, <2>3 DEF EntryOf, Log!Entry
    <2> QED BY <1>1, <2>1, <2>2, <2>3 DEF Draft
  <1>3. \A q \in Row : /\ q.draft.session = r.draft.session
                       /\ EntryOf(q).kind = "user" /\ EntryOf(r).kind = "user"
                       /\ EntryOf(q).of = EntryOf(r).of
                       => q.draft = r.draft /\ r.draft.kind = "user"
    <2>1. \A c, d \in Draft : /\ c.session = d.session /\ c.kind = "user" /\ d.kind = "user"
                              /\ c.of = d.of
                              => c = d
      BY DEF Draft
    <2>2. \A q \in Row : q.draft \in Draft
      BY DEF Row
    <2> QED BY <2>1, <2>2 DEF EntryOf
  <1> QED BY <1>2, <1>3

LEMMA SameCardinality == ASSUME NEW S PROVE Log!Cardinality(S) = Cardinality(S)
  BY Zenon DEF Log!Cardinality, Cardinality

\* A commit adds to the end of the logs it wrote in.
LEMMA CommitMaps ==
  ASSUME IInv, NEW t \in Txs, Commit(t)
  PROVE  Log!Next
  <1>1. /\ next_seq' = [s \in Sessions |-> next_seq[s] + Written(t, s)]
        /\ rows' = rows \cup tx[t].wrote
        /\ UNCHANGED reader
    BY DEF Commit, Written
  <1>2. IInv' /\ LogIsRows /\ LogIsRows'
    BY CommitStep, LogIs, LogIsNext
  <1>3. ASSUME NEW s \in Sessions
        PROVE  /\ Log!IsPrefix(LogOf(s), LogOf(s)')
               /\ Log!Range(LogOf(s)') \subseteq Log!Entry
               /\ \A k \in Keys :
                    Cardinality({i \in DOMAIN LogOf(s)' :
                                   LogOf(s)'[i].kind = "user" /\ LogOf(s)'[i].of = k}) <= 1
    <2> DEFINE old == LogOf(s)
               now == LogOf(s)'
    <2>1. \A r \in RowsOf(s) : r \in RowsOf(s)'
      BY <1>1 DEF RowsOf
    <2>2. PICK m \in Nat, n \in Nat : m = Last(s) /\ n = Last(s)'
      BY <1>2 DEF LogIsRows, EntriesAreRows
    <2>3. m <= n
      BY <1>1, <2>2, WrittenType DEF IInv, TypeOK, Last
    <2>4. /\ Len(old) = m /\ DOMAIN old = 1..m /\ old = [i \in 1..m |-> old[i]]
          /\ Len(now) = n /\ DOMAIN now = 1..n /\ now = [i \in 1..n |-> now[i]]
      BY <1>2, <2>2 DEF LogIsRows, EntriesAreRows
    <2>5. \A i \in 1..n : \E r \in RowsOf(s)' : r.seq = i /\ now[i] = EntryOf(r)
      BY <1>2, <2>2 DEF LogIsRows, EntriesAreRows
    <2>6. \A i \in 1..m : old[i] = now[i]
      <3> SUFFICES ASSUME NEW i \in 1..m PROVE old[i] = now[i]
        OBVIOUS
      <3>1. PICK r \in RowsOf(s) : r.seq = i /\ old[i] = EntryOf(r)
        BY <1>2, <2>2 DEF LogIsRows, EntriesAreRows
      <3>2. now[r.seq] = EntryOf(r)
        BY <1>2, <2>1 DEF LogIsRows, EntriesAreRows
      <3> QED BY <3>1, <3>2
    <2>7. \A r \in RowsOf(s)' : /\ r \in Row /\ r.draft.session = s
                                /\ r.draft.kind # "assistant" => r.status = "complete"
      BY <1>2 DEF IInv, TypeOK, RowsOf, OnlyRepliesStream
    <2>8. \A q, r \in RowsOf(s)' : q.draft.kind = "user" /\ q.draft = r.draft => q = r
      BY <1>2 DEF IInv, OncePerKey, RowsOf
    <2> HIDE DEF old, now
    <2>9. Log!IsPrefix(old, now)
      <3>1. SubSeq(old, 1, m) = [i \in 1..m |-> old[i]]
        BY <2>4
      <3>2. SubSeq(now, 1, m) = [i \in 1..m |-> now[i]]
        BY <2>3, <2>4
      <3> QED BY <2>3, <2>4, <2>6, <3>1, <3>2 DEF Log!IsPrefix
    <2>10. Log!Range(now) \subseteq Log!Entry
      <3>1. \A i \in 1..n : now[i] \in Log!Entry
        BY <2>5, <2>7, EntryType
      <3> QED BY <2>4, <3>1 DEF Log!Range
    <2>11. ASSUME NEW k \in Keys
           PROVE  Cardinality({i \in DOMAIN now : now[i].kind = "user" /\ now[i].of = k}) <= 1
      <3>1. ASSUME NEW i \in 1..n, NEW j \in 1..n, now[i].kind = "user", now[j].kind = "user",
                   now[i].of = k, now[j].of = k
            PROVE  i = j
        <4>1. PICK q \in RowsOf(s)' : q.seq = i /\ now[i] = EntryOf(q)
          BY <2>5
        <4>2. PICK r \in RowsOf(s)' : r.seq = j /\ now[j] = EntryOf(r)
          BY <2>5
        <4>3. q.draft = r.draft /\ r.draft.kind = "user"
          BY <2>7, <3>1, <4>1, <4>2, EntryType
        <4> QED BY <2>8, <4>1, <4>2, <4>3
      <3> QED BY <2>4, <3>1, AtMostOne
    <2> QED BY <2>9, <2>10, <2>11 DEF old, now
  <1>4. UNCHANGED reads
    BY <1>1, ReadsSame
  <1>5. \A s \in Sessions : logs[s] = LogOf(s) /\ logs'[s] = LogOf(s)'
    BY DEF logs
  <1>6. ASSUME NEW s \in Sessions
        PROVE  /\ Log!IsPrefix(logs[s], logs'[s])
               /\ Log!Range(logs'[s]) \subseteq Log!Entry
               /\ \A k \in Keys :
                    Cardinality({i \in DOMAIN logs'[s] :
                                   logs'[s][i].kind = "user" /\ logs'[s][i].of = k}) <= 1
    <2>1. logs[s] = LogOf(s) /\ logs'[s] = LogOf(s)'
      BY <1>5
    <2> QED BY <1>3, <2>1, Zenon
  <1>7. Log!Write
    BY <1>4, <1>6, SameCardinality DEF Log!Write, logs, reads
  <1> QED BY <1>7 DEF Log!Next

\* What is open is in no log, and a read is given nothing before it ends.
LEMMA NothingMaps ==
  ASSUME IInv, Next, \A s \in Sessions : ~EventsSince(s), \A t \in Txs : ~Commit(t),
         \A r \in rows, status \in {"complete", "failed"} : ~Finish(r, status)
  PROVE  UNCHANGED <<logs, reads>>
  <1>1. CASE \E s \in Sessions : EnsureSession(s)
    BY <1>1, RowsSame, ReadsSame DEF EnsureSession
  <1>2. ASSUME NEW s \in Sessions, MessagesSince(s) PROVE UNCHANGED <<logs, reads>>
    <2>1. \A r \in Sessions : reader'[r].got = reader[r].got
      BY <1>2 DEF MessagesSince, IInv, TypeOK, Reader
    <2> QED BY <1>2, <2>1, RowsSame DEF MessagesSince, reads
  <1>3. CASE \E t \in Txs : Restart(t) \/ \E d \in tx[t].todo : Number(t, d)
    BY <1>3, RowsSame, ReadsSame DEF Restart, Number
  <1> QED BY <1>1, <1>2, <1>3, NextCases

\* The log of rows, counters and locks is the log that chat_repository.py describes:
\* whatever two tables, open transactions and pages do, each session is one sequence
\* that grows at its end, only a reply changes, a key is told once, and a client that
\* resumes has a beginning of it.
THEOREM LogImplementsChatLog == Spec => ImplementsChatLog
  <1>1. Init => Log!Init
    BY InitMaps
  <1>2. ASSUME IInv, [Next]_vars PROVE Log!Next \/ UNCHANGED Log!vars
    <2>1. CASE Next
      BY <1>2, <2>1, EventsSinceMaps, FinishMaps, CommitMaps, NothingMaps DEF Log!vars, logs, reads
    <2>2. CASE UNCHANGED vars
      BY <2>2, RowsSame, ReadsSame DEF vars, Log!vars, logs, reads
    <2> QED BY <1>2, <2>1, <2>2
  <1>3. IInv /\ [Next]_vars => [Log!Next]_(Log!vars)
    BY <1>2
  <1> QED BY <1>1, <1>3, InvHolds, PTL DEF Spec, ImplementsChatLog, Log!Spec

=============================================================================
