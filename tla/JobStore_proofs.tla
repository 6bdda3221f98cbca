-------------------------- MODULE JobStore_proofs --------------------------
(***************************************************************************)
(* The table's invariants for any set of jobs and any attempt limits, and  *)
(* the proof that the table implements the job life cycle.                 *)
(***************************************************************************)
EXTENDS JobStore, TLAPS

\* What is true of one row, the number of claims made on it and the lease ids
\* whose ack() returned.  Every conjunct is about one job, so each statement is
\* checked on the row it writes.
RowInv(r, m, a) ==
  /\ r \in Row /\ m \in Nat /\ a \in SUBSET Nat
  /\ r.state = "absent" => r = AbsentRow /\ m = 0
  /\ r.state # "absent" => r.max_attempts > 0
  /\ (r.state = "running") <=> (r.lease_id # NoLease)
  /\ r.lease_id \in {NoLease, m}
  /\ r.attempts = m
  /\ r.attempts <= r.max_attempts
  /\ r.state \in {"queued", "failed"} => r.attempts < r.max_attempts
  /\ r.cancel_requested => r.state \in {"running", "done", "cancelled"}
  /\ r.state = "cancelled" => r.cancel_requested
  /\ r.error = "lease_expired" => r.state = "dead"
  /\ \A l \in a : r.state = "done" /\ r.result_ref = l /\ l = m

IInv == /\ rows \in [Jobs -> Row]
        /\ minted \in [Jobs -> Nat]
        /\ acked \in [Jobs -> SUBSET Nat]
        /\ \A j \in Jobs : RowInv(rows[j], minted[j], acked[j])

USE DEF NoLease, JobState, Terminal, RunAfter, ErrorText

-----------------------------------------------------------------------------
(* Each statement keeps the row's invariant.                               *)

\* A job that was never enqueued satisfies the row invariant.
LEMMA AbsentOK == RowInv(AbsentRow, 0, {})
  BY DEF RowInv, AbsentRow, Row

\* insert_or_get writes a row that satisfies the invariant of a job never
\* claimed.
LEMMA InsertedOK ==
  ASSUME NEW r, NEW a, RowInv(r, 0, a), ~Exists(r),
         NEW max \in Nat \ {0}, NEW delay \in BOOLEAN
  PROVE  RowInv(Inserted(max, delay), 0, a)
  <1>1. a = {}
    BY DEF RowInv, Exists
  <1> DEFINE c == Inserted(max, delay)
  <1>2. AbsentRow \in Row
    BY DEF AbsentRow, Row
  <1>3. /\ c \in Row /\ c.state = "queued" /\ c.max_attempts = max
        /\ c.attempts = AbsentRow.attempts /\ c.lease_id = AbsentRow.lease_id
        /\ c.cancel_requested = AbsentRow.cancel_requested
        /\ c.error = AbsentRow.error
    BY <1>2 DEF Inserted, Delayed, Row
  <1>4. /\ AbsentRow.attempts = 0 /\ AbsentRow.lease_id = 0
        /\ ~AbsentRow.cancel_requested /\ AbsentRow.error = "none"
    BY DEF AbsentRow
  <1>5. QED
    BY <1>1, <1>3, <1>4 DEF RowInv

\* mark_published touches nothing the row invariant speaks of.
LEMMA MarkedPublishedOK ==
  ASSUME NEW r, NEW m, NEW a, RowInv(r, m, a), Exists(r)
  PROVE  RowInv(MarkedPublished(r), m, a)
  BY DEF RowInv, MarkedPublished, Row, Exists

\* cancel moves a waiting row to cancelled and only flags a running one; both
\* keep the row invariant.
LEMMA CancelledOK ==
  ASSUME NEW r, NEW m, NEW a, RowInv(r, m, a), Exists(r),
         r.state \notin Terminal
  PROVE  RowInv(CancelledRow(r), m, a)
  BY DEF RowInv, CancelledRow, Row, Exists

\* claim counts the hand-out and gives the row the lease it just drew.
LEMMA ClaimedOK ==
  ASSUME NEW r, NEW m, NEW a, RowInv(r, m, a), Claimable(r)
  PROVE  RowInv(Claimed(r, m + 1), m + 1, a)
  <1> DEFINE c == Claimed(r, m + 1)
  <1>1. a = {} /\ m \in Nat /\ r \in Row /\ r.attempts = m
    BY DEF RowInv, Claimable, Waiting, Lapsed
  <1>2. /\ r.attempts < r.max_attempts /\ ~r.cancel_requested
        /\ r.error # "lease_expired" /\ r.max_attempts > 0
    BY DEF RowInv, Claimable, Waiting, Lapsed
  <1>3. /\ c \in Row /\ c.state = "running" /\ c.attempts = m + 1
        /\ c.lease_id = m + 1 /\ c.max_attempts = r.max_attempts
        /\ c.cancel_requested = r.cancel_requested /\ c.error = r.error
    <2>1. PICK n \in Nat : n = m + 1 /\ n = r.attempts + 1
      BY <1>1
    <2>2. c = [r EXCEPT !.state = "running", !.attempts = n,
                        !.lease_id = n, !.expired = FALSE]
      BY <2>1 DEF Claimed
    <2>3. QED
      BY <1>1, <2>1, <2>2 DEF Row
  <1>4. r.max_attempts \in Nat
    BY <1>1 DEF Row
  <1>5. QED
    BY <1>1, <1>2, <1>3, <1>4 DEF RowInv

\* extend moves the deadline alone.
LEMMA ExtendedOK ==
  ASSUME NEW r, NEW m, NEW a, RowInv(r, m, a), NEW l, Fenced(r, l)
  PROVE  RowInv(Extended(r), m, a)
  BY DEF RowInv, Extended, Row, Fenced, Exists

\* ack, let through the fence, makes the caller the owner of the result.
LEMMA AckedOK ==
  ASSUME NEW r, NEW m, NEW a, RowInv(r, m, a), NEW l \in Nat, Fenced(r, l)
  PROVE  RowInv(Acked(r, l), m, a \cup {l})
  BY DEF RowInv, Acked, Released, Row, Fenced, Exists

\* nack, let through the fence, gives the job back, up to its attempts.
LEMMA NackedOK ==
  ASSUME NEW r, NEW m, NEW a, RowInv(r, m, a), NEW l, Fenced(r, l),
         NEW delay \in BOOLEAN
  PROVE  RowInv(Nacked(r, delay), m, a)
  <1> DEFINE c == Nacked(r, delay)
  <1>1. /\ a = {} /\ r \in Row /\ r.state = "running"
        /\ r.error # "lease_expired" /\ r.max_attempts > 0
    BY DEF RowInv, Fenced, Exists
  <1>2. Released(r) \in Row /\ Released(r).lease_id = 0
        /\ \A f \in {"attempts", "max_attempts", "cancel_requested"} :
              Released(r)[f] = r[f]
    BY <1>1 DEF Released, Row
  <1>3. NackedState(r) \in JobState
    BY DEF NackedState
  <1>4. (r.published /\ ~ReturnsToQueue(r)) \in BOOLEAN
    BY <1>1 DEF Row
  <1>5. /\ c \in Row /\ c.state = NackedState(r) /\ c.error = "reported"
        /\ \A f \in {"lease_id", "attempts", "max_attempts",
                      "cancel_requested"} : c[f] = Released(r)[f]
    BY <1>2, <1>3, <1>4 DEF Nacked, Delayed, Row
  <1>6. /\ c.lease_id = 0 /\ c.attempts = r.attempts
        /\ c.max_attempts = r.max_attempts
        /\ c.cancel_requested = r.cancel_requested
    BY <1>2, <1>5
  <1>7. QED
    BY <1>1, <1>5, <1>6 DEF RowInv, NackedState, Row

\* retire_lapsed finishes a row without calling a cancelled job a failure.
LEMMA RetiredOK ==
  ASSUME NEW r, NEW m, NEW a, RowInv(r, m, a), Retirable(r)
  PROVE  RowInv(Retired(r), m, a)
  BY DEF RowInv, Retired, Released, Row, Retirable

\* The passing of a deadline or of run_after keeps the row invariant.
LEMMA ClockOK ==
  ASSUME NEW r, NEW m, NEW a, RowInv(r, m, a)
  PROVE  /\ r.state = "running" => RowInv(DeadlinePassed(r), m, a)
         /\ r.state \in {"queued", "failed"} => RowInv(RunAfterPassed(r), m, a)
  <1>1. r.state = "running" => RowInv(DeadlinePassed(r), m, a)
    BY DEF RowInv, Row, DeadlinePassed
  <1>2. r.state \in {"queued", "failed"} => RowInv(RunAfterPassed(r), m, a)
    BY DEF RowInv, Row, RunAfterPassed
  <1>3. QED
    BY <1>1, <1>2

-----------------------------------------------------------------------------
(* Each transaction keeps the table's invariant.                           *)

\* A transaction that writes one row, and leaves every other row, count and
\* answer alone, keeps the invariant when the row it writes does.
LEMMA WriteOK ==
  ASSUME IInv, NEW j \in Jobs, NEW r, NEW m, NEW a,
         rows' = [rows EXCEPT ![j] = r],
         minted' = [minted EXCEPT ![j] = m],
         acked' = [acked EXCEPT ![j] = a],
         RowInv(r, m, a)
  PROVE  IInv'
  BY DEF IInv, RowInv

\* Every transaction of the store keeps the invariant of every row.
THEOREM InvInductive == IInv /\ [Next]_vars => IInv'
  <1> SUFFICES ASSUME IInv, [Next]_vars PROVE IInv'
    OBVIOUS
  <1>1. CASE UNCHANGED vars
    BY <1>1 DEF vars, IInv
  <1>2. CASE RetireLapsed
    <2>1. ASSUME NEW j \in Jobs PROVE RowInv(rows'[j], minted'[j], acked'[j])
      <3>1. RowInv(rows[j], minted[j], acked[j])
        BY DEF IInv
      <3>2. rows'[j] \in {rows[j], Retired(rows[j])} /\ UNCHANGED <<minted, acked>>
        BY <1>2 DEF RetireLapsed
      <3>3. CASE Retirable(rows[j])
        BY <1>2, <3>1, <3>2, <3>3, RetiredOK DEF RetireLapsed
      <3>4. CASE ~Retirable(rows[j])
        BY <1>2, <3>1, <3>2, <3>4 DEF RetireLapsed
      <3>5. QED
        BY <3>3, <3>4
    <2>2. rows' \in [Jobs -> Row]
      <3>1. \A j \in Jobs : rows'[j] \in Row
        BY <2>1 DEF RowInv
      <3>2. QED
        BY <1>2, <3>1 DEF RetireLapsed
    <2>3. QED
      BY <1>2, <2>1, <2>2 DEF RetireLapsed, IInv
  <1>3. ASSUME NEW j \in Jobs, JobStep(j) PROVE IInv'
    <2> DEFINE r == rows[j]
               m == minted[j]
               a == acked[j]
    <2>0. /\ RowInv(r, m, a) /\ r \in Row /\ m \in Nat /\ a \in SUBSET Nat
          /\ minted = [minted EXCEPT ![j] = m]
          /\ acked = [acked EXCEPT ![j] = a]
      BY DEF IInv
    <2>1. ASSUME NEW max \in Limits, NEW delay \in BOOLEAN,
                 InsertOrGet(j, max, delay)
          PROVE  IInv'
      <3>1. max \in Nat \ {0} /\ m = 0
        BY <2>0, <2>1, StoreAssumption DEF InsertOrGet, Exists, RowInv
      <3>2. RowInv(Inserted(max, delay), m, a)
        BY <2>0, <2>1, <3>1, InsertedOK DEF InsertOrGet
      <3>3. QED
        BY <2>0, <2>1, <3>2, WriteOK
        DEF InsertOrGet, WriteAndRecord, Write
    <2>2. CASE MarkPublished(j)
      <3>1. RowInv(MarkedPublished(r), m, a)
        BY <2>0, <2>2, MarkedPublishedOK DEF MarkPublished
      <3>2. QED
        BY <2>0, <2>2, <3>1, WriteOK DEF MarkPublished, Write
    <2>3. CASE Cancel(j)
      <3>1. RowInv(CancelledRow(r), m, a)
        BY <2>0, <2>3, CancelledOK DEF Cancel
      <3>2. QED
        BY <2>0, <2>3, <3>1, WriteOK DEF Cancel, WriteAndRecord, Write
    <2>4. CASE Claim(j)
      <3>1. RowInv(Claimed(r, m + 1), m + 1, a)
        BY <2>0, <2>4, ClaimedOK DEF Claim
      <3>2. QED
        BY <2>0, <2>4, <3>1, WriteOK DEF Claim, WriteAndRecord, Write
    <2>5. ASSUME NEW l \in 1..minted[j], Extend(j, l) PROVE IInv'
      <3>1. RowInv(Extended(r), m, a)
        BY <2>0, <2>5, ExtendedOK DEF Extend
      <3>2. QED
        BY <2>0, <2>5, <3>1, WriteOK DEF Extend, Write
    <2>6. ASSUME NEW l \in 1..minted[j], Ack(j, l) PROVE IInv'
      <3>1. RowInv(Acked(r, l), m, a \cup {l})
        BY <2>0, <2>6, AckedOK DEF Ack
      <3>2. QED
        BY <2>0, <2>6, <3>1, WriteOK DEF Ack, WriteAndRecord, Write
    <2>7. ASSUME NEW l \in 1..minted[j], NEW delay \in BOOLEAN,
                 Nack(j, l, delay)
          PROVE  IInv'
      <3>1. RowInv(Nacked(r, delay), m, a)
        BY <2>0, <2>7, NackedOK DEF Nack
      <3>2. QED
        BY <2>0, <2>7, <3>1, WriteOK DEF Nack, WriteAndRecord, Write
    <2>8. CASE LeaseExpires(j)
      <3>1. RowInv(DeadlinePassed(r), m, a)
        BY <2>0, <2>8, ClockOK DEF LeaseExpires
      <3>2. QED
        BY <2>0, <2>8, <3>1, WriteOK DEF LeaseExpires, Write
    <2>9. CASE RunAfterPasses(j)
      <3>1. RowInv(RunAfterPassed(r), m, a)
        BY <2>0, <2>9, ClockOK DEF RunAfterPasses
      <3>2. QED
        BY <2>0, <2>9, <3>1, WriteOK DEF RunAfterPasses, Write
    <2>10. QED
      BY <1>3, <2>1, <2>2, <2>3, <2>4, <2>5, <2>6, <2>7, <2>8, <2>9 DEF JobStep
  <1>4. QED
    BY <1>1, <1>2, <1>3 DEF Next

-----------------------------------------------------------------------------
(* What follows for every behaviour of the table.                          *)

\* The inductive invariant holds in every reachable state of the table.
THEOREM InvHolds == Spec => []IInv
  <1>1. Init => IInv
    <2>1. AbsentRow \in Row
      BY AbsentOK DEF RowInv
    <2>2. QED
      BY <2>1, AbsentOK DEF Init, IInv
  <1>2. QED
    BY <1>1, InvInductive, PTL DEF Spec

\* A superseded consumer can never be let through the fence, whatever the order
\* of claims, lapses, cancels and late calls.
THEOREM LiveLeaseIsNewestHolds == Spec => []LiveLeaseIsNewest
  <1>1. IInv => LiveLeaseIsNewest
    BY DEF IInv, RowInv, LiveLeaseIsNewest
  <1>2. QED
    BY <1>1, InvHolds, PTL

\* At most one consumer is ever told that it finished a job, and its result
\* stays the job's.
THEOREM AckedOwnsResultHolds == Spec => []AckedOwnsResult
  <1>1. IInv => AckedOwnsResult
    BY DEF IInv, RowInv, AckedOwnsResult
  <1>2. QED
    BY <1>1, InvHolds, PTL

\* A job is handed out at most max_attempts times, crashes included.
THEOREM HandOutsBounded == Spec => []HandOutsCountedAndBounded
  <1>1. IInv => HandOutsCountedAndBounded
    BY DEF IInv, RowInv, HandOutsCountedAndBounded
  <1>2. QED
    BY <1>1, InvHolds, PTL

\* No path reports a job as a failure once its cancellation was asked for.
THEOREM CancelNeverFailureHolds == Spec => []CancelNeverFailure
  <1>1. IInv => CancelNeverFailure
    BY DEF IInv, RowInv, CancelNeverFailure
  <1>2. QED
    BY <1>1, InvHolds, PTL

-----------------------------------------------------------------------------
(* What one step may do to one row, for the action properties.             *)

RowMoves(r, q) ==
  \/ ~Exists(r) /\ \E max \in Limits, delay \in BOOLEAN : q = Inserted(max, delay)
  \/ Exists(r) /\ q = MarkedPublished(r)
  \/ Exists(r) /\ r.state \notin Terminal /\ q = CancelledRow(r)
  \/ Claimable(r) /\ \E n \in Nat : q = Claimed(r, n)
  \/ \E l \in Nat : Fenced(r, l) /\ q \in {Extended(r), Acked(r, l),
                                        Nacked(r, TRUE), Nacked(r, FALSE)}
  \/ Retirable(r) /\ q = Retired(r)
  \/ r.state = "running" /\ q = DeadlinePassed(r)
  \/ r.state \in {"queued", "failed"} /\ q = RunAfterPassed(r)

\* What a transaction that writes one row leaves in the table.
LEMMA WrittenRow ==
  ASSUME IInv, NEW j \in Jobs, NEW r, Write(j, r), NEW k \in Jobs
  PROVE  rows'[k] = IF k = j THEN r ELSE rows[k]
  BY DEF IInv, Write

\* Every step moves every row along one of the statements, or leaves it.
LEMMA NextMovesRows ==
  ASSUME IInv, Next, NEW k \in Jobs
  PROVE  rows'[k] = rows[k] \/ RowMoves(rows[k], rows'[k])
  <1>1. CASE RetireLapsed
    BY <1>1 DEF RetireLapsed, RowMoves
  <1>2. ASSUME NEW j \in Jobs, JobStep(j)
        PROVE  rows'[k] = rows[k] \/ RowMoves(rows[k], rows'[k])
    <2>1. minted[j] \in Nat
      BY DEF IInv
    <2>2. ASSUME NEW r, Write(j, r), RowMoves(rows[j], r)
          PROVE  rows'[k] = rows[k] \/ RowMoves(rows[k], rows'[k])
      BY <2>2, WrittenRow
    <2>3. ASSUME NEW max \in Limits, NEW delay \in BOOLEAN,
                 InsertOrGet(j, max, delay)
          PROVE  RowMoves(rows[j], Inserted(max, delay))
                   /\ Write(j, Inserted(max, delay))
      BY <2>3 DEF InsertOrGet, WriteAndRecord, RowMoves
    <2>4. CASE MarkPublished(j)
      BY <2>2, <2>4 DEF MarkPublished, RowMoves
    <2>5. CASE Cancel(j)
      BY <2>2, <2>5 DEF Cancel, WriteAndRecord, RowMoves
    <2>6. CASE Claim(j)
      <3>1. minted[j] + 1 \in Nat
        BY <2>1
      <3>2. RowMoves(rows[j], Claimed(rows[j], minted[j] + 1))
        BY <2>6, <3>1 DEF Claim, RowMoves
      <3>3. QED
        BY <2>2, <2>6, <3>2 DEF Claim, WriteAndRecord
    <2>7. ASSUME NEW l \in 1..minted[j],
                 Extend(j, l) \/ Ack(j, l) \/ Nack(j, l, TRUE) \/ Nack(j, l, FALSE)
          PROVE  \E r : Write(j, r) /\ RowMoves(rows[j], r)
      <3>1. l \in Nat
        BY <2>1
      <3>2. CASE Extend(j, l)
        BY <3>1, <3>2 DEF Extend, RowMoves
      <3>3. CASE Ack(j, l)
        BY <3>1, <3>3 DEF Ack, WriteAndRecord, RowMoves
      <3>4. CASE Nack(j, l, TRUE)
        BY <3>1, <3>4 DEF Nack, WriteAndRecord, RowMoves
      <3>5. CASE Nack(j, l, FALSE)
        BY <3>1, <3>5 DEF Nack, WriteAndRecord, RowMoves
      <3>6. QED
        BY <2>7, <3>2, <3>3, <3>4, <3>5
    <2>8. CASE LeaseExpires(j)
      BY <2>2, <2>8 DEF LeaseExpires, RowMoves
    <2>9. CASE RunAfterPasses(j)
      BY <2>2, <2>9 DEF RunAfterPasses, RowMoves
    <2>10. QED
      BY <1>2, <2>2, <2>3, <2>4, <2>5, <2>6, <2>7, <2>8, <2>9 DEF JobStep
  <1>3. QED
    BY <1>1, <1>2 DEF Next

\* A finished row moves only by being marked published.
LEMMA FinishedMoves ==
  ASSUME NEW r, NEW m, NEW a, RowInv(r, m, a), NEW q, RowMoves(r, q),
         r.state \in Terminal
  PROVE  q = MarkedPublished(r)
  BY DEF RowMoves, RowInv, Exists, Claimable, Waiting, Lapsed, Fenced, Retirable

\* A late consumer, a second cancel and a sweep leave a finished job's outcome
\* alone.
THEOREM FinishedStaysFinishedHolds == Spec => FinishedStaysFinished
  <1>1. ASSUME IInv, Next, NEW j \in Jobs, rows[j].state \in Terminal
        PROVE  /\ rows'[j].state = rows[j].state
               /\ rows'[j].result_ref = rows[j].result_ref
               /\ rows'[j].error = rows[j].error
               /\ rows'[j].attempts = rows[j].attempts
               /\ rows'[j].cancel_requested = rows[j].cancel_requested
    <2>1. RowInv(rows[j], minted[j], acked[j]) /\ rows[j] \in Row
      BY <1>1 DEF IInv
    <2>2. rows'[j] = rows[j] \/ rows'[j] = MarkedPublished(rows[j])
      BY <1>1, <2>1, NextMovesRows, FinishedMoves
    <2>3. QED
      BY <2>1, <2>2 DEF MarkedPublished, Row
  <1>2. IInv /\ [Next]_vars =>
          [\A j \in Jobs :
             rows[j].state \in Terminal =>
               /\ rows'[j].state = rows[j].state
               /\ rows'[j].result_ref = rows[j].result_ref
               /\ rows'[j].error = rows[j].error
               /\ rows'[j].attempts = rows[j].attempts
               /\ rows'[j].cancel_requested = rows[j].cancel_requested]_vars
    BY <1>1
  <1>3. QED
    BY <1>2, InvHolds, PTL DEF Spec, FinishedStaysFinished

-----------------------------------------------------------------------------
(* The table implements the life cycle.                                    *)

\* The fields of a row's stage in the life cycle.
LEMMA LifeFields ==
  ASSUME NEW r
  PROVE  /\ Life(r).state = r.state
         /\ Life(r).attempts = r.attempts
         /\ Life(r).limit = r.max_attempts
         /\ Life(r).stop = r.cancel_requested
  BY DEF Life

\* A move of a row is an edge of the life cycle, or invisible there.
LEMMA RowMovesAreEdges ==
  ASSUME NEW r, NEW m, NEW a, RowInv(r, m, a), NEW q, RowMoves(r, q)
  PROVE  Lifecycle!Edge(Life(r), Life(q)) \/ Life(q) = Life(r)
  <1>0. /\ r \in Row
        /\ r.attempts \in Nat /\ r.max_attempts \in Nat
    BY DEF RowInv, Row
  <1>1. ASSUME ~Exists(r), NEW max \in Limits, NEW delay \in BOOLEAN,
               q = Inserted(max, delay)
        PROVE  Lifecycle!Enqueued(Life(r), Life(q))
    <2>1. max > 0 /\ Life(r) = Lifecycle!Unborn
      <3>1. max > 0 /\ r = AbsentRow
        BY <1>1, StoreAssumption DEF RowInv, Exists
      <3>2. Life(AbsentRow) = Lifecycle!Unborn
        BY DEF Life, AbsentRow, Lifecycle!Unborn, Lifecycle!Stage
      <3>3. QED
        BY <3>1, <3>2
    <2>2. /\ q.state = "queued" /\ q.attempts = 0 /\ q.max_attempts = max
          /\ ~q.cancel_requested
      <3>1. /\ AbsentRow \in Row /\ AbsentRow.attempts = 0
            /\ ~AbsentRow.cancel_requested
        BY DEF AbsentRow, Row
      <3>2. QED
        BY <1>1, <3>1 DEF Inserted, Row
    <2>3. QED
      BY <2>1, <2>2, LifeFields DEF Lifecycle!Enqueued
  <1>2. CASE q = MarkedPublished(r)
    BY <1>0, <1>2 DEF MarkedPublished, Row, Life
  <1>3. CASE Exists(r) /\ r.state \notin Terminal /\ q = CancelledRow(r)
    <2>1. r.state \in {"queued", "failed", "running"}
      BY <1>0, <1>3 DEF Row, Exists
    <2>2. /\ q.state = IF r.state = "running" THEN "running" ELSE "cancelled"
          /\ q.attempts = r.attempts /\ q.max_attempts = r.max_attempts
          /\ q.cancel_requested = TRUE
      BY <1>0, <1>3 DEF CancelledRow, Row
    <2>3. Lifecycle!StopRequested(Life(r), Life(q))
      BY <2>1, <2>2, LifeFields DEF Life, Lifecycle!StopRequested, Lifecycle!Stage
    <2>4. QED
      BY <2>3 DEF Lifecycle!Edge
  <1>4. ASSUME Claimable(r), NEW n \in Nat, q = Claimed(r, n)
        PROVE  Lifecycle!HandedOut(Life(r), Life(q))
    <2>1. /\ r.state \in {"queued", "failed", "running"}
          /\ ~r.cancel_requested /\ r.attempts < r.max_attempts
      BY <1>4 DEF RowInv, Claimable, Waiting, Lapsed
    <2>2. /\ q.state = "running" /\ q.attempts = r.attempts + 1
          /\ q.max_attempts = r.max_attempts
          /\ q.cancel_requested = r.cancel_requested
      <3>1. PICK k \in Nat : k = r.attempts + 1
        BY <1>0
      <3>2. q = [r EXCEPT !.state = "running", !.attempts = k,
                          !.lease_id = n, !.expired = FALSE]
        BY <1>4, <3>1 DEF Claimed
      <3>3. QED
        BY <1>0, <3>1, <3>2 DEF Row
    <2>3. QED
      BY <2>1, <2>2, LifeFields DEF Life, Lifecycle!HandedOut, Lifecycle!Stage
  <1>5. ASSUME NEW l \in Nat, Fenced(r, l)
        PROVE  /\ r.state = "running"
               /\ Life(Extended(r)) = Life(r)
               /\ Lifecycle!Finished(Life(r), Life(Acked(r, l)))
               /\ \A delay \in BOOLEAN :
                     Lifecycle!GivenBack(Life(r), Life(Nacked(r, delay)))
    <2>1. r.state = "running"
      BY <1>5 DEF RowInv, Fenced
    <2>2. Life(Extended(r)) = Life(r)
      BY <1>0 DEF Extended, Row, Life
    <2>3. Lifecycle!Finished(Life(r), Life(Acked(r, l)))
      BY <1>0, <2>1, LifeFields
      DEF Acked, Released, Row, Life, Lifecycle!Finished, Lifecycle!Stage
    <2>4. ASSUME NEW delay \in BOOLEAN
          PROVE  Lifecycle!GivenBack(Life(r), Life(Nacked(r, delay)))
      <3>1. Life(Nacked(r, delay)) =
              Lifecycle!Stage(NackedState(r), r.attempts, r.max_attempts,
                              r.cancel_requested)
        BY <1>0 DEF Nacked, Released, Row, Life, Lifecycle!Stage
      <3>2. QED
        BY <1>0, <2>1, <3>1, LifeFields
        DEF NackedState, Lifecycle!GivenBack, Lifecycle!Stage, Row
    <2>5. QED
      BY <2>1, <2>2, <2>3, <2>4
  <1>6. CASE Retirable(r) /\ q = Retired(r)
    <2>1. Life(q) =
            Lifecycle!Stage(IF r.cancel_requested THEN "cancelled" ELSE "dead",
                            r.attempts, r.max_attempts, r.cancel_requested)
      BY <1>0, <1>6 DEF Retired, Released, Row, Life, Lifecycle!Stage
    <2>2. Lifecycle!GivenBack(Life(r), Life(q))
      BY <1>0, <1>6, <2>1, LifeFields
      DEF Retirable, Lifecycle!GivenBack, Lifecycle!Stage, Row
    <2>3. QED
      BY <2>2 DEF Lifecycle!Edge
  <1>7. CASE q = DeadlinePassed(r) \/ q = RunAfterPassed(r)
    BY <1>0, <1>7 DEF DeadlinePassed, RunAfterPassed, Row, Life
  <1>8. QED
    BY <1>1, <1>2, <1>3, <1>4, <1>5, <1>6, <1>7 DEF RowMoves, Lifecycle!Edge

\* Every behaviour of the table is, with leases, deadlines and the outbox
\* column left out, a behaviour of the life cycle of core/jobs.py.
THEOREM TableImplementsLifecycle == Spec => ImplementsLifecycle
  <1>1. Init => Lifecycle!Init
    BY DEF Init, Lifecycle!Init, Lifecycle!Unborn, Lifecycle!Stage, Life,
           AbsentRow
  <1>2. IInv /\ [Next]_vars => [Lifecycle!Next]_([j \in Jobs |-> Life(rows[j])])
    <2> SUFFICES ASSUME IInv, [Next]_vars
                 PROVE  [Lifecycle!Next]_([j \in Jobs |-> Life(rows[j])])
      OBVIOUS
    <2>1. CASE UNCHANGED vars
      BY <2>1 DEF vars
    <2>2. CASE Next
      <3>1. ASSUME NEW j \in Jobs
            PROVE  \/ Lifecycle!Edge(Life(rows[j]), Life(rows'[j]))
                   \/ Life(rows'[j]) = Life(rows[j])
        <4>1. RowInv(rows[j], minted[j], acked[j])
          BY DEF IInv
        <4>2. QED
          BY <2>2, <4>1, NextMovesRows, RowMovesAreEdges
      <3>2. QED
        BY <3>1 DEF Lifecycle!Next
    <2>3. QED
      BY <2>1, <2>2
  <1>3. QED
    BY <1>1, <1>2, InvHolds, PTL DEF Spec, ImplementsLifecycle, Lifecycle!Spec

-----------------------------------------------------------------------------
(* The session's log.                                                      *)

SameStage(r, q) == r.state = q.state /\ r.attempts = q.attempts

\* A job's log grows by the state written when its row changes stage.
LogMoves(j, r, q) ==
  IF j \in InSession /\ ~SameStage(r, q)
  THEN events'[j] = Append(events[j], q.state)
  ELSE events'[j] = events[j]

LogType == events \in [Jobs -> Seq(JobState)]

\* Which statements change a row's stage.
LEMMA Stages ==
  ASSUME NEW r, NEW m, NEW a, RowInv(r, m, a)
  PROVE  /\ SameStage(r, MarkedPublished(r)) /\ SameStage(r, Extended(r))
         /\ SameStage(r, DeadlinePassed(r)) /\ SameStage(r, RunAfterPassed(r))
         /\ r.state = "running" => SameStage(r, CancelledRow(r))
         /\ r.state # "running" => CancelledRow(r).state = "cancelled"
         /\ \A n \in Nat : /\ ~SameStage(r, Claimed(r, n))
                          /\ Claimed(r, n).state = "running"
         /\ \A l \in Nat : Acked(r, l).state = "done"
         /\ \A d \in BOOLEAN :
              Nacked(r, d).state \in {"cancelled", "dead", "failed"}
         /\ Retired(r).state \in {"cancelled", "dead"}
  <1>0. r \in Row /\ r.attempts \in Nat
    BY DEF RowInv, Row
  <1>1. /\ SameStage(r, MarkedPublished(r)) /\ SameStage(r, Extended(r))
        /\ SameStage(r, DeadlinePassed(r)) /\ SameStage(r, RunAfterPassed(r))
        /\ r.state = "running" => SameStage(r, CancelledRow(r))
        /\ r.state # "running" => CancelledRow(r).state = "cancelled"
    BY <1>0 DEF SameStage, MarkedPublished, Extended, DeadlinePassed,
                RunAfterPassed, CancelledRow, Row
  <1>2. ASSUME NEW n \in Nat
        PROVE  ~SameStage(r, Claimed(r, n)) /\ Claimed(r, n).state = "running"
    <2>1. PICK k \in Nat : k = r.attempts + 1
      BY <1>0
    <2>2. Claimed(r, n) = [r EXCEPT !.state = "running", !.attempts = k,
                                    !.lease_id = n, !.expired = FALSE]
      BY <2>1 DEF Claimed
    <2>3. Claimed(r, n).state = "running" /\ Claimed(r, n).attempts = k
      BY <1>0, <2>2 DEF Row
    <2>4. QED
      BY <1>0, <2>1, <2>3 DEF SameStage
  <1>3. ASSUME NEW l \in Nat PROVE Acked(r, l).state = "done"
    BY <1>0 DEF Acked, Released, Row
  <1>4. ASSUME NEW d \in BOOLEAN
        PROVE  Nacked(r, d).state \in {"cancelled", "dead", "failed"}
    BY <1>0 DEF Nacked, NackedState, Released, Row
  <1>5. Retired(r).state \in {"cancelled", "dead"}
    BY <1>0 DEF Retired, Released, Row
  <1>6. QED
    BY <1>1, <1>2, <1>3, <1>4, <1>5

\* The row that insert_or_get writes is queued.
LEMMA InsertedState ==
  ASSUME NEW max \in Nat, NEW delay \in BOOLEAN
  PROVE  Inserted(max, delay).state = "queued"
  BY DEF Inserted, AbsentRow

\* What a transaction that records one event leaves in the log.
LEMMA LogWritten ==
  ASSUME IInv, LogType, NEW j \in Jobs, NEW r, Write(j, r), NEW k \in Jobs,
         IF SameStage(rows[j], r) THEN events' = events
                                  ELSE events' = Recorded(j, r.state)
  PROVE  LogMoves(k, rows[k], rows'[k])
  <1>1. CASE k = j
    BY <1>1, WrittenRow DEF LogMoves, LogType, Recorded
  <1>2. CASE k # j
    <2>1. rows'[k] = rows[k] /\ events'[k] = events[k]
      BY <1>2, WrittenRow DEF LogType, Recorded
    <2>2. QED
      BY <2>1 DEF LogMoves, SameStage
  <1>3. QED
    BY <1>1, <1>2

\* Every step records each change of stage once, and nothing else.
LEMMA NextMovesLog ==
  ASSUME IInv, LogType, Next, NEW k \in Jobs
  PROVE  LogMoves(k, rows[k], rows'[k])
  <1>0. \A j \in Jobs : RowInv(rows[j], minted[j], acked[j]) /\ minted[j] \in Nat
    BY DEF IInv
  <1>1. CASE RetireLapsed
    <2>1. CASE Retirable(rows[k])
      <3>1. /\ rows'[k] = Retired(rows[k]) /\ rows[k].state = "running"
            /\ events'[k] = IF k \in InSession
                            THEN Append(events[k], Retired(rows[k]).state)
                            ELSE events[k]
        BY <1>1, <2>1 DEF RetireLapsed, Retirable
      <3>2. ~SameStage(rows[k], rows'[k])
        BY <1>0, <3>1, Stages DEF SameStage
      <3>3. QED
        BY <3>1, <3>2 DEF LogMoves
    <2>2. CASE ~Retirable(rows[k])
      BY <1>1, <2>2 DEF RetireLapsed, LogMoves, SameStage
    <2>3. QED
      BY <2>1, <2>2
  <1>2. ASSUME NEW j \in Jobs, JobStep(j) PROVE LogMoves(k, rows[k], rows'[k])
    <2>0. RowInv(rows[j], minted[j], acked[j]) /\ minted[j] \in Nat
      BY <1>0
    <2> DEFINE Quiet(r) == Write(j, r) /\ SameStage(rows[j], r) /\ events' = events
               Told(r)  == /\ Write(j, r) /\ ~SameStage(rows[j], r)
                           /\ events' = Recorded(j, r.state)
    <2>1. ASSUME \E r : Quiet(r) \/ Told(r) PROVE LogMoves(k, rows[k], rows'[k])
      BY <2>1, LogWritten
    <2>2. ASSUME NEW max \in Limits, NEW delay \in BOOLEAN,
                 InsertOrGet(j, max, delay)
          PROVE  Told(Inserted(max, delay))
      <3>1. max \in Nat
        BY StoreAssumption
      <3>2. rows[j].state # "queued"
        BY <2>2 DEF InsertOrGet, Exists
      <3>3. QED
        BY <2>2, <3>1, <3>2, InsertedState DEF InsertOrGet, WriteAndRecord, SameStage
    <2>3. CASE MarkPublished(j)
      <3>1. Quiet(MarkedPublished(rows[j]))
        BY <2>0, <2>3, Stages DEF MarkPublished
      <3>2. QED
        BY <2>1, <3>1
    <2>4. CASE Cancel(j)
      <3>1. Quiet(CancelledRow(rows[j])) \/ Told(CancelledRow(rows[j]))
        BY <2>0, <2>4, Stages DEF Cancel, WriteAndRecord, SameStage
      <3>2. QED
        BY <2>1, <3>1
    <2>5. CASE Claim(j)
      <3>1. minted[j] + 1 \in Nat
        BY <2>0
      <3>2. Told(Claimed(rows[j], minted[j] + 1))
        BY <2>0, <2>5, <3>1, Stages DEF Claim, WriteAndRecord
      <3>3. QED
        BY <2>1, <3>2
    <2>6. ASSUME NEW l \in 1..minted[j], Extend(j, l)
          PROVE  Quiet(Extended(rows[j]))
      BY <2>0, <2>6, Stages DEF Extend
    <2>7. ASSUME NEW l \in 1..minted[j], Fenced(rows[j], l)
          PROVE  l \in Nat /\ rows[j].state = "running"
      BY <2>0, <2>7 DEF Fenced, RowInv
    <2>8. ASSUME NEW l \in 1..minted[j], Ack(j, l)
          PROVE  Told(Acked(rows[j], l))
      BY <2>0, <2>7, <2>8, Stages DEF Ack, WriteAndRecord, SameStage
    <2>9. ASSUME NEW l \in 1..minted[j], NEW delay \in BOOLEAN, Nack(j, l, delay)
          PROVE  Told(Nacked(rows[j], delay))
      BY <2>0, <2>7, <2>9, Stages DEF Nack, WriteAndRecord, SameStage
    <2>10. CASE LeaseExpires(j)
      <3>1. Quiet(DeadlinePassed(rows[j]))
        BY <2>0, <2>10, Stages DEF LeaseExpires
      <3>2. QED
        BY <2>1, <3>1
    <2>11. CASE RunAfterPasses(j)
      <3>1. Quiet(RunAfterPassed(rows[j]))
        BY <2>0, <2>11, Stages DEF RunAfterPasses
      <3>2. QED
        BY <2>1, <3>1
    <2>12. QED
      BY <1>2, <2>1, <2>2, <2>3, <2>4, <2>5, <2>6, <2>8, <2>9, <2>10, <2>11
      DEF JobStep
  <1>3. QED
    BY <1>1, <1>2 DEF Next

\* No statement deletes a row.
LEMMA ExistingStays ==
  ASSUME NEW r, NEW m, NEW a, RowInv(r, m, a), Exists(r), NEW q, RowMoves(r, q)
  PROVE  Exists(q)
  <1>1. CASE q = MarkedPublished(r) \/ q = DeadlinePassed(r)
               \/ q = RunAfterPassed(r) \/ q = Extended(r)
    BY <1>1, Stages DEF SameStage, Exists
  <1>2. CASE q = CancelledRow(r)
    BY <1>2, Stages DEF SameStage, Exists
  <1>3. CASE \E n \in Nat : q = Claimed(r, n) \/ q = Acked(r, n)
    BY <1>3, Stages DEF Exists
  <1>4. CASE q = Nacked(r, TRUE) \/ q = Nacked(r, FALSE) \/ q = Retired(r)
    BY <1>4, Stages DEF Exists
  <1>5. QED
    BY <1>1, <1>2, <1>3, <1>4 DEF RowMoves

\* The log's inductive invariant: a row that exists has been announced, and the
\* last announcement is its state.
LogInv == LogType /\ LogTellsState

\* Recording an event leaves the first event of the log in place.
LEMMA AppendKeepsFirst ==
  ASSUME NEW S, NEW s \in Seq(S), NEW x \in S, Len(s) >= 1
  PROVE  /\ Append(s, x) # <<>>
         /\ Append(s, x)[Len(Append(s, x))] = x
         /\ Append(s, x)[1] = s[1]
  OBVIOUS

\* Every transaction keeps the log's last event equal to the row's state.
LEMMA LogInductive == IInv /\ LogInv /\ [Next]_vars => LogInv'
  <1> SUFFICES ASSUME IInv, LogInv, [Next]_vars PROVE LogInv'
    OBVIOUS
  <1>1. CASE UNCHANGED vars
    BY <1>1 DEF vars, LogInv, LogType, LogTellsState
  <1>2. CASE Next
    <2>1. IInv'
      BY InvInductive
    <2>2. ASSUME NEW k \in Jobs
          PROVE  /\ LogMoves(k, rows[k], rows'[k])
                 /\ events[k] \in Seq(JobState)
                 /\ RowInv(rows'[k], minted'[k], acked'[k])
                 /\ rows[k] \in Row /\ rows'[k] \in Row
      BY <1>2, <2>1, NextMovesLog DEF IInv, LogInv, LogType
    <2>3. ASSUME NEW k \in Jobs, k \in InSession, ~SameStage(rows[k], rows'[k])
          PROVE  rows'[k].state \in JobState /\ Exists(rows'[k])
      <3>1. rows'[k] = rows[k] \/ RowMoves(rows[k], rows'[k])
        BY <1>2, NextMovesRows
      <3>2. RowInv(rows[k], minted[k], acked[k])
        BY DEF IInv
      <3>3. rows'[k].state # "absent"
        <4>1. CASE rows[k].state = "absent"
          <5>1. rows[k] = AbsentRow
            BY <3>2, <4>1 DEF RowInv
          <5>2. rows'[k].state = "absent" => rows'[k] = AbsentRow
            BY <2>2 DEF RowInv
          <5>3. QED
            BY <2>3, <5>1, <5>2 DEF SameStage
        <4>2. CASE rows[k].state # "absent"
          <5>1. RowMoves(rows[k], rows'[k])
            BY <2>3, <3>1 DEF SameStage
          <5>2. QED
            BY <3>2, <4>2, <5>1, ExistingStays DEF Exists
        <4>3. QED
          BY <4>1, <4>2
      <3>4. QED
        BY <2>2, <3>3 DEF Row, Exists
    <2>4. LogType'
      <3>1. \A k \in Jobs : events'[k] \in Seq(JobState)
        <4> SUFFICES ASSUME NEW k \in Jobs PROVE events'[k] \in Seq(JobState)
          OBVIOUS
        <4>1. CASE k \in InSession /\ ~SameStage(rows[k], rows'[k])
          BY <2>2, <2>3, <4>1 DEF LogMoves
        <4>2. CASE ~(k \in InSession /\ ~SameStage(rows[k], rows'[k]))
          BY <2>2, <4>2 DEF LogMoves
        <4>3. QED
          BY <4>1, <4>2
      <3>2. DOMAIN events' = Jobs /\ events' = [k \in Jobs |-> events'[k]]
        BY <1>2 DEF LogInv, LogType, Next, JobStep, RetireLapsed, InsertOrGet,
                    MarkPublished, Cancel, Claim, Extend, Ack, Nack,
                    LeaseExpires, RunAfterPasses, WriteAndRecord, Recorded
      <3>3. QED
        BY <3>1, <3>2 DEF LogType
    <2>5. LogTellsState'
      <3> SUFFICES ASSUME NEW k \in InSession
                   PROVE  IF Exists(rows'[k])
                          THEN /\ events'[k] # <<>>
                               /\ events'[k][Len(events'[k])] = rows'[k].state
                               /\ events'[k][1] = "queued"
                          ELSE events'[k] = <<>>
        BY DEF LogTellsState
      <3>1. k \in Jobs
        BY StoreAssumption
      <3>2. IF Exists(rows[k])
            THEN /\ events[k] # <<>>
                 /\ events[k][Len(events[k])] = rows[k].state
                 /\ events[k][1] = "queued"
            ELSE events[k] = <<>>
        BY DEF LogInv, LogTellsState
      <3>3. CASE SameStage(rows[k], rows'[k])
        BY <2>2, <3>1, <3>2, <3>3 DEF LogMoves, SameStage, Exists
      <3>4. CASE ~SameStage(rows[k], rows'[k])
        <4>1. events'[k] = Append(events[k], rows'[k].state) /\ Exists(rows'[k])
          BY <2>2, <2>3, <3>1, <3>4 DEF LogMoves
        <4>2. CASE Exists(rows[k])
          <5>1. Len(events[k]) >= 1
            BY <2>2, <3>1, <3>2, <4>2
          <5>2. events[k] \in Seq(JobState) /\ rows'[k].state \in JobState
            BY <2>2, <2>3, <3>1, <3>4
          <5>3. /\ events'[k] # <<>>
                /\ events'[k][Len(events'[k])] = rows'[k].state
                /\ events'[k][1] = events[k][1]
            BY <4>1, <5>1, <5>2, AppendKeepsFirst
          <5>4. QED
            BY <3>2, <4>1, <4>2, <5>3
        <4>3. CASE ~Exists(rows[k])
          <5>1. rows'[k].state = "queued"
            <6>1. RowMoves(rows[k], rows'[k])
              BY <1>2, <3>1, <3>4, NextMovesRows DEF SameStage
            <6>2. \E max \in Limits, delay \in BOOLEAN :
                     rows'[k] = Inserted(max, delay)
              <7>1. RowInv(rows[k], minted[k], acked[k])
                BY <3>1 DEF IInv
              <7>2. QED
                BY <4>3, <6>1, <7>1
                DEF RowMoves, RowInv, Exists, Claimable, Waiting, Lapsed, Fenced,
                    Retirable
            <6>3. QED
              BY <6>2, StoreAssumption, InsertedState
          <5>2. events[k] = <<>>
            BY <3>2, <4>3
          <5>3. QED
            BY <4>1, <5>1, <5>2
        <4>4. QED
          BY <4>2, <4>3
      <3>5. QED
        BY <3>3, <3>4
    <2>6. QED
      BY <2>4, <2>5 DEF LogInv
  <1>3. QED
    BY <1>1, <1>2

\* The log tells the state of the row in every reachable state of the table.
LEMMA LogInvHolds == Spec => [](IInv /\ LogInv)
  <1>1. Init => LogInv
    BY StoreAssumption
    DEF Init, LogInv, LogType, LogTellsState, Exists, AbsentRow
  <1>2. QED
    BY <1>1, InvHolds, LogInductive, PTL DEF Spec

\* Every variable keeps its type.
THEOREM TypeCorrect == Spec => []TypeOK
  <1>1. IInv /\ LogInv => TypeOK
    BY DEF IInv, LogInv, LogType, TypeOK
  <1>2. QED
    BY <1>1, LogInvHolds, PTL

\* What resume replays of a job ends in the state its row has.
THEOREM LogTellsStateHolds == Spec => []LogTellsState
  <1>1. LogInv => LogTellsState
    BY DEF LogInv
  <1>2. QED
    BY <1>1, LogInvHolds, PTL

\* Every transition is announced once, with the state that was committed.
THEOREM EachTransitionRecorded == Spec => EachTransitionRecordedOnce
  <1>1. ASSUME IInv, LogInv, Next, NEW j \in Jobs
        PROVE  IF /\ j \in InSession
                  /\ \/ rows[j].state # rows'[j].state
                     \/ rows[j].attempts # rows'[j].attempts
               THEN events'[j] = Append(events[j], rows'[j].state)
               ELSE events'[j] = events[j]
    BY <1>1, NextMovesLog DEF LogInv, LogMoves, SameStage
  <1>2. IInv /\ LogInv /\ [Next]_vars =>
          [\A j \in Jobs :
             IF /\ j \in InSession
                /\ \/ rows[j].state # rows'[j].state
                   \/ rows[j].attempts # rows'[j].attempts
             THEN events'[j] = Append(events[j], rows'[j].state)
             ELSE events'[j] = events[j]]_vars
    BY <1>1
  <1>3. QED
    BY <1>2, LogInvHolds, PTL DEF Spec, EachTransitionRecordedOnce

=============================================================================
