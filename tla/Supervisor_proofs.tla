------------------------- MODULE Supervisor_proofs --------------------------
(***************************************************************************)
(* Proofs about Supervisor, for any jobs, workers, attempt limits and      *)
(* failures.  What the table keeps is cited from JobStore_proofs: every    *)
(* step of a worker is one of the table's statements or leaves it alone.   *)
(***************************************************************************)
EXTENDS Supervisor, TLAPS

Table == INSTANCE JobStore_proofs

USE SupervisorAssumption
USE DEF NoLease, Store!NoLease, Table!NoLease,
        Store!JobState, Store!RunAfter, Store!ErrorText, Store!Terminal,
        Table!JobState, Table!RunAfter, Table!ErrorText, Table!Terminal

-----------------------------------------------------------------------------
(* The inductive invariant.                                                *)

\* The bytes an attempt writes.
Bytes(j, l) == [key |-> ArtifactKey(j, l), by |-> l]

\* What is in the bucket was written by an attempt, under its own key.
Bucket == \A o \in objects : \E j \in Jobs : \E l \in 1..minted[j] : o = Bytes(j, l)

\* Where a turn is says whether the supervisor has decided, and what.
Deciding(t) ==
  /\ t.pc \in {"spawn", "watch", "extend"} => t.ending = "none"
  /\ t.pc \in {"put", "ack"} => t.ending = "completed"
  /\ t.pc \in {"term", "kill"} => t.ending \notin {"none", "completed"}
  /\ t.pc = "discard" => t.ending = "stale"
  /\ t.pc \in {"nack", "close"} => t.ending # "none"

\* A turn keeps its job and its lease until the next claim.
Holding(t) ==
  /\ t.job \in Jobs => t.lease \in 1..minted[t.job]
  /\ t.job = NoJob => t.ending = "none" /\ t.pc \in {"idle", "reserve", "halted"}

\* Unless the child was heard, the attempt has neither written nor answered.
Unheard(t) ==
  t.job \in Jobs /\ t.ending # "completed" =>
    /\ t.lease \notin acked[t.job]
    /\ Bytes(t.job, t.lease) \notin objects

\* The bytes are there before the row is told.
Stored(t) == t.pc = "ack" => Bytes(t.job, t.lease) \in objects

\* A lease that was lost does not come back.
Lost(t) == t.ending = "stale" => ~Fenced(rows[t.job], t.lease)

\* The collector has ended before the turn is finished.
Reaped(t, c) ==
  /\ t.pc \in {"put", "ack", "nack", "discard", "close"} => ~c.alive \/ c.said = "garbled"
  /\ t.pc \in {"idle", "reserve", "halted", "spawn"}
       => ~c.alive \/ (c.deaf /\ c.said = "garbled")

\* StoppedForCause of one turn.
Cause(w, t) ==
  t.pc \in {"term", "kill"} =>
    \/ w \in stopping
    \/ t.capped
    \/ t.spent
    \/ rows[t.job].cancel_requested
    \/ ~Fenced(rows[t.job], t.lease)

\* What is true of a worker, its turn and its child.
WorkerInv(w, t, c) ==
  /\ t \in Turn /\ c \in Child
  /\ Deciding(t) /\ Holding(t) /\ Unheard(t) /\ Stored(t) /\ Lost(t)
  /\ Reaped(t, c) /\ Cause(w, t)

\* No two turns have the same lease.
Apart ==
  \A v, w \in Workers :
    v # w /\ turn[v].job = turn[w].job /\ turn[v].job \in Jobs
      => turn[v].lease # turn[w].lease

Types == /\ turn \in [Workers -> Turn]
         /\ child \in [Workers -> Child]
         /\ stopping \subseteq Workers
         /\ faults \in [FaultKinds -> Nat]

IInv == /\ Table!IInv /\ Table!LogInv
        /\ Types /\ Bucket /\ Apart /\ ResultIsOwn
        /\ \A w \in Workers : WorkerInv(w, turn[w], child[w])

-----------------------------------------------------------------------------
(* What a statement of the table does to a row.                            *)

\* It is not an ack: nothing is done that was not, a request to cancel stands, and
\* a lease that the fence refused stays refused.
Quietly(r, q, m) ==
  /\ r.cancel_requested => q.cancel_requested
  /\ \A l \in 1..m : Fenced(q, l) => Fenced(r, l)
  /\ q.state = "done" => r.state = "done" /\ q.result_ref = r.result_ref

LEMMA QuietRows ==
  ASSUME NEW r, NEW m, NEW a, Table!RowInv(r, m, a)
  PROVE  /\ Quietly(r, r, m)
         /\ \A max \in Limits : ~Store!Exists(r) => Quietly(r, Store!Inserted(max, FALSE), m)
         /\ r.state # "done" => Quietly(r, Store!CancelledRow(r), m)
         /\ Quietly(r, Store!Claimed(r, m + 1), m)
         /\ Quietly(r, Store!Extended(r), m)
         /\ \A d \in BOOLEAN : Quietly(r, Store!Nacked(r, d), m)
                               /\ \A l \in 1..m : ~Fenced(Store!Nacked(r, d), l)
         /\ Quietly(r, Store!Retired(r), m)
         /\ Quietly(r, Store!DeadlinePassed(r), m)
         /\ Quietly(r, Store!RunAfterPassed(r), m)
  <1>1. /\ r \in Store!Row /\ m \in Nat /\ r.lease_id \in {0, m} /\ r.attempts \in Nat
        /\ r.lease_id # 0 => r.state = "running"
    BY DEF Table!RowInv, Store!Row, Table!Row
  <1>2. r.state = "absent" => ~r.cancel_requested /\ r.state # "done"
    BY DEF Table!RowInv, Table!AbsentRow
  <1>3. \A max \in Limits : ~Store!Exists(r) => Quietly(r, Store!Inserted(max, FALSE), m)
    BY <1>2 DEF Quietly, Store!Exists, Store!Inserted, Store!AbsentRow, Fenced
  <1>4. r.state # "done" => Quietly(r, Store!CancelledRow(r), m)
    BY <1>1 DEF Quietly, Store!CancelledRow, Store!Row, Fenced, Exists
  <1>5. Quietly(r, Store!Claimed(r, m + 1), m)
    <2>1. PICK n \in Nat : n = m + 1
      BY <1>1
    <2>4. PICK k \in Nat : k = r.attempts + 1
      BY <1>1
    <2>2. Store!Claimed(r, m + 1) = [r EXCEPT !.state = "running", !.attempts = k,
                                             !.lease_id = n, !.expired = FALSE]
      BY <2>1, <2>4 DEF Store!Claimed
    <2>3. \A l \in 1..m : l # n
      BY <1>1, <2>1
    <2>5. LET q == Store!Claimed(r, m + 1)
          IN  q.lease_id = n /\ q.state = "running" /\ q.cancel_requested = r.cancel_requested
      BY <1>1, <2>1, <2>2, <2>4 DEF Store!Row
    <2> QED BY <2>3, <2>5 DEF Quietly, Fenced
  <1>6. Quietly(r, Store!Extended(r), m) /\ Quietly(r, r, m)
    BY <1>1 DEF Quietly, Store!Extended, Store!Row, Fenced, Exists
  <1>7. ASSUME NEW d \in BOOLEAN
        PROVE  Quietly(r, Store!Nacked(r, d), m) /\ \A l \in 1..m : ~Fenced(Store!Nacked(r, d), l)
    BY <1>1 DEF Quietly, Store!Nacked, Store!Released, Store!NackedState, Store!Row, Fenced, Exists
  <1>8. Quietly(r, Store!Retired(r), m)
    BY <1>1 DEF Quietly, Store!Retired, Store!Released, Store!Row, Fenced, Exists
  <1>9. Quietly(r, Store!DeadlinePassed(r), m) /\ Quietly(r, Store!RunAfterPassed(r), m)
    BY <1>1 DEF Quietly, Store!DeadlinePassed, Store!RunAfterPassed, Store!Row, Fenced, Exists
  <1> QED BY <1>3, <1>4, <1>5, <1>6, <1>7, <1>8, <1>9

\* A statement that is not an ack.
TableQuiet ==
  /\ acked' = acked
  /\ \A j \in Jobs : /\ minted'[j] \in Nat /\ minted'[j] >= minted[j]
                     /\ Quietly(rows[j], rows'[j], minted[j])

\* A statement of one row.
LEMMA QuietWrite ==
  ASSUME Table!IInv, NEW j \in Jobs, NEW q, Store!Write(j, q),
         Quietly(rows[j], q, minted[j]),
         minted' = minted \/ minted' = [minted EXCEPT ![j] = @ + 1], acked' = acked
  PROVE  TableQuiet
  <1>1. \A k \in Jobs : rows'[k] = IF k = j THEN q ELSE rows[k]
    BY DEF Store!Write, Table!IInv
  <1>2. \A k \in Jobs : Table!RowInv(rows[k], minted[k], acked[k]) /\ minted[k] \in Nat
    BY DEF Table!IInv
  <1>3. \A k \in Jobs : minted'[k] \in Nat /\ minted'[k] >= minted[k]
    BY <1>2 DEF Table!IInv
  <1> QED BY <1>1, <1>2, <1>3, QuietRows DEF TableQuiet

LEMMA QuietSteps ==
  ASSUME Table!IInv
  PROVE  /\ UNCHANGED tableVars => TableQuiet
         /\ Store!RetireLapsed => TableQuiet
         /\ \A j \in Jobs :
              /\ \A max \in Limits : Store!InsertOrGet(j, max, FALSE) => TableQuiet
              /\ Store!Cancel(j) => TableQuiet
              /\ Store!Claim(j) => TableQuiet /\ minted'[j] = minted[j] + 1
              /\ \A l : Store!Extend(j, l) => TableQuiet
              /\ \A l : \A d \in BOOLEAN :
                   Store!Nack(j, l, d) =>
                     TableQuiet /\ \A i \in 1..minted[j] : ~Fenced(rows'[j], i)
              /\ Store!LeaseExpires(j) => TableQuiet
              /\ Store!RunAfterPasses(j) => TableQuiet
  <1>1. \A k \in Jobs : Table!RowInv(rows[k], minted[k], acked[k]) /\ minted[k] \in Nat
    BY DEF Table!IInv
  <1>2. ASSUME UNCHANGED tableVars PROVE TableQuiet
    <2>1. \A k \in Jobs : Quietly(rows[k], rows[k], minted[k])
      BY <1>1, QuietRows
    <2> QED BY <1>1, <1>2, <2>1 DEF TableQuiet, tableVars
  <1>3. ASSUME Store!RetireLapsed PROVE TableQuiet
    <2>1. \A k \in Jobs : /\ Quietly(rows[k], rows[k], minted[k])
                         /\ Quietly(rows[k], Store!Retired(rows[k]), minted[k])
      BY <1>1, QuietRows
    <2>2. \A k \in Jobs : rows'[k] \in {rows[k], Store!Retired(rows[k])}
      BY <1>3 DEF Store!RetireLapsed
    <2>3. minted' = minted /\ acked' = acked
      BY <1>3 DEF Store!RetireLapsed
    <2> QED BY <1>1, <2>1, <2>2, <2>3 DEF TableQuiet
  <1>4. ASSUME NEW j \in Jobs, NEW max \in Limits, Store!InsertOrGet(j, max, FALSE)
        PROVE  TableQuiet
    <2>1. Quietly(rows[j], Store!Inserted(max, FALSE), minted[j])
      BY <1>1, <1>4, QuietRows DEF Store!InsertOrGet
    <2>2. /\ Store!Write(j, Store!Inserted(max, FALSE))
          /\ minted' = minted /\ acked' = acked
      BY <1>4 DEF Store!InsertOrGet, Store!WriteAndRecord
    <2> QED BY <2>1, <2>2, QuietWrite
  <1>5. ASSUME NEW j \in Jobs, Store!Cancel(j)
        PROVE  TableQuiet
    <2>1. Quietly(rows[j], Store!CancelledRow(rows[j]), minted[j])
      BY <1>1, <1>5, QuietRows DEF Store!Cancel
    <2>2. /\ Store!Write(j, Store!CancelledRow(rows[j]))
          /\ minted' = minted /\ acked' = acked
      BY <1>5 DEF Store!Cancel, Store!WriteAndRecord
    <2> QED BY <2>1, <2>2, QuietWrite
  <1>6. ASSUME NEW j \in Jobs, Store!Claim(j)
        PROVE  TableQuiet /\ minted'[j] = minted[j] + 1
    <2>1. minted'[j] = minted[j] + 1
      BY <1>6 DEF Store!Claim, Table!IInv
    <2> QED BY <1>1, <1>6, <2>1, QuietRows, QuietWrite DEF Store!Claim, Store!WriteAndRecord
  <1>7. ASSUME NEW j \in Jobs, NEW l, Store!Extend(j, l)
        PROVE  TableQuiet
    BY <1>1, <1>7, QuietRows, QuietWrite DEF Store!Extend
  <1>8. ASSUME NEW j \in Jobs, NEW l, NEW d \in BOOLEAN, Store!Nack(j, l, d)
        PROVE  TableQuiet /\ \A i \in 1..minted[j] : ~Fenced(rows'[j], i)
    <2>1. rows'[j] = Store!Nacked(rows[j], d)
      BY <1>8 DEF Store!Nack, Store!WriteAndRecord, Store!Write, Table!IInv
    <2> QED BY <1>1, <1>8, <2>1, QuietRows, QuietWrite DEF Store!Nack, Store!WriteAndRecord
  <1>9. ASSUME NEW j \in Jobs, Store!LeaseExpires(j) \/ Store!RunAfterPasses(j)
        PROVE  TableQuiet
    BY <1>1, <1>9, QuietRows, QuietWrite DEF Store!LeaseExpires, Store!RunAfterPasses
  <1> QED BY <1>2, <1>3, <1>4, <1>5, <1>6, <1>7, <1>8, <1>9

\* An ack that the fence lets through.
TableAcked(j, l) ==
  /\ acked' = [acked EXCEPT ![j] = @ \cup {l}]
  /\ minted' = minted
  /\ \A k \in Jobs \ {j} : rows'[k] = rows[k]
  /\ rows'[j].state = "done" /\ rows'[j].result_ref = l
  /\ rows'[j].cancel_requested = rows[j].cancel_requested
  /\ \A i \in 1..minted[j] : ~Fenced(rows'[j], i)

LEMMA AckedStep ==
  ASSUME Table!IInv, NEW j \in Jobs, NEW l, Store!Ack(j, l)
  PROVE  TableAcked(j, l)
  <1>1. rows[j] \in Store!Row
    BY DEF Table!IInv, Table!Row, Store!Row
  <1>2. rows' = [rows EXCEPT ![j] = Store!Acked(rows[j], l)]
    BY DEF Store!Ack, Store!WriteAndRecord, Store!Write
  <1>3. \A k \in Jobs : rows'[k] = IF k = j THEN Store!Acked(rows[j], l) ELSE rows[k]
    BY <1>2 DEF Table!IInv
  <1>4. LET q == Store!Acked(rows[j], l)
        IN  /\ q.state = "done" /\ q.result_ref = l /\ q.lease_id = 0
            /\ q.cancel_requested = rows[j].cancel_requested
    BY <1>1 DEF Store!Acked, Store!Released, Store!Row
  <1> QED BY <1>3, <1>4 DEF TableAcked, Store!Ack, Fenced

-----------------------------------------------------------------------------
(* Every step of the workers is one of the table's statements or leaves it *)
(* alone.                                                                  *)

\* The two ways of naming a statement.
LEMMA SameStatements ==
  ASSUME NEW j, NEW l, NEW d
  PROVE  /\ Store!InsertOrGet(j, l, d) => Table!InsertOrGet(j, l, d)
         /\ Store!Cancel(j) => Table!Cancel(j)
         /\ Store!Claim(j) => Table!Claim(j)
         /\ Store!Extend(j, l) => Table!Extend(j, l)
         /\ Store!Ack(j, l) => Table!Ack(j, l)
         /\ Store!Nack(j, l, d) => Table!Nack(j, l, d)
         /\ Store!RetireLapsed => Table!RetireLapsed
         /\ Store!LeaseExpires(j) => Table!LeaseExpires(j)
         /\ Store!RunAfterPasses(j) => Table!RunAfterPasses(j)
  BY DEF Store!InsertOrGet, Store!Cancel, Store!Claim, Store!Extend, Store!Ack, Store!Nack,
         Store!RetireLapsed, Store!LeaseExpires, Store!RunAfterPasses,
         Table!InsertOrGet, Table!Cancel, Table!Claim, Table!Extend, Table!Ack, Table!Nack,
         Table!RetireLapsed, Table!LeaseExpires, Table!RunAfterPasses,
         Store!Write, Store!WriteAndRecord, Store!Recorded,
         Table!Write, Table!WriteAndRecord, Table!Recorded,
         Store!Exists, Store!Waiting, Store!Lapsed, Store!Claimable, Store!Retirable, Store!Fenced,
         Table!Exists, Table!Waiting, Table!Lapsed, Table!Claimable, Table!Retirable, Table!Fenced,
         Store!Inserted, Store!AbsentRow, Store!Delayed, Store!Claimed, Store!Extended,
         Store!Released, Store!Acked, Store!Nacked, Store!NackedState, Store!ReturnsToQueue,
         Store!CancelledRow, Store!Retired, Store!DeadlinePassed, Store!RunAfterPassed,
         Table!Inserted, Table!AbsentRow, Table!Delayed, Table!Claimed, Table!Extended,
         Table!Released, Table!Acked, Table!Nacked, Table!NackedState, Table!ReturnsToQueue,
         Table!CancelledRow, Table!Retired, Table!DeadlinePassed, Table!RunAfterPassed

\* The statement that a step runs, and under which lease.
Statement ==
  \/ UNCHANGED tableVars
  \/ Store!RetireLapsed
  \/ \E j \in Jobs : \/ Store!Claim(j) \/ Store!Cancel(j)
                     \/ Store!LeaseExpires(j) \/ Store!RunAfterPasses(j)
                     \/ \E max \in Limits : Store!InsertOrGet(j, max, FALSE)
  \/ \E j \in Jobs : \E l \in 1..minted[j] :
       Store!Extend(j, l) \/ Store!Ack(j, l) \/ \E d \in BOOLEAN : Store!Nack(j, l, d)

LEMMA Held ==
  ASSUME IInv, NEW w \in Workers, turn[w].pc \notin {"idle", "reserve", "halted"}
  PROVE  turn[w].job \in Jobs /\ turn[w].lease \in 1..minted[turn[w].job]
  <1>1. turn[w] \in Turn /\ Holding(turn[w])
    BY DEF IInv, WorkerInv
  <1> QED BY <1>1 DEF Turn, Holding

LEMMA StepIsStatement ==
  ASSUME IInv, Next
  PROVE  Statement
  <1>1. ASSUME NEW w \in Workers, Turning(w) PROVE Statement
    <2>1. CASE \/ RunHalts(w) \/ RunOnce(w) \/ ReservedNothing(w) \/ Spawn(w)
               \/ WakeReported(w) \/ WakeStopping(w) \/ WakeCapped(w) \/ WakeBeat(w)
               \/ RenewalStale(w) \/ KillBegins(w) \/ GraceOver(w) \/ Killed(w)
               \/ Discard(w) \/ Put(w) \/ Close(w)
      BY <2>1 DEF RunHalts, RunOnce, ReservedNothing, Spawn, WakeReported, WakeStopping,
                  WakeCapped, WakeBeat, RenewalStale, KillBegins, GraceOver, Killed, Discard,
                  Put, Close, Statement
    <2>2. CASE \E j \in Jobs : Reserved(w, j)
      BY <2>2 DEF Reserved, Statement
    <2>3. CASE Renewed(w)
      BY <2>3, Held DEF Renewed, At, Statement
    <2>4. CASE Nack(w)
      <3>1. Backoff(w) \in BOOLEAN
        BY DEF Backoff
      <3> QED BY <2>4, <3>1, Held DEF Nack, At, Statement
    <2>5. CASE Ack(w)
      BY <2>5, Held DEF Ack, At, Statement
    <2> QED BY <1>1, <2>1, <2>2, <2>3, <2>4, <2>5 DEF Turning
  <1>2. ASSUME NEW w \in Workers, Failing(w) PROVE Statement
    <2>1. CASE SpawnFails(w) \/ PutFails(w) \/ Crash(w)
      BY <2>1 DEF SpawnFails, PutFails, Crash, Statement
    <2>2. CASE ReserveFails(w)
      BY <2>2 DEF ReserveFails, Statement
    <2>3. CASE Unreachable(w)
      BY <2>3, Held DEF Unreachable, At, Statement
    <2>4. CASE NackFails(w)
      <3>1. Backoff(w) \in BOOLEAN
        BY DEF Backoff
      <3> QED BY <2>4, <3>1, Held DEF NackFails, At, Statement
    <2>5. CASE AckFails(w)
      BY <2>5, Held DEF AckFails, At, Statement
    <2> QED BY <1>2, <2>1, <2>2, <2>3, <2>4, <2>5 DEF Failing
  <1>3. ASSUME NEW w \in Workers, Childs(w) \/ CapPasses(w) \/ DeadlinePasses(w) \/ Stop(w)
        PROVE  Statement
    BY <1>3 DEF Childs, ChildReports, ChildGarbles, ChildDies, ChildReaped, CapPasses,
                DeadlinePasses, Stop, Statement
  <1>4. ASSUME NEW j \in Jobs, Enqueue(j) \/ Environment(j)
        PROVE  Statement
    BY <1>4 DEF Enqueue, Environment, Statement
  <1> QED BY <1>1, <1>2, <1>3, <1>4 DEF Next

LEMMA TableStep ==
  ASSUME IInv, [Next]_vars
  PROVE  [Table!Next]_(Table!vars) /\ Table!IInv' /\ Table!LogInv'
  <1>1. UNCHANGED tableVars => UNCHANGED Table!vars
    BY DEF tableVars, Table!vars
  <1>2. Statement => [Table!Next]_(Table!vars)
    BY <1>1, SameStatements DEF Statement, Table!Next, Table!JobStep
  <1>3. [Table!Next]_(Table!vars)
    BY <1>1, <1>2, StepIsStatement DEF vars
  <1>4. Table!StoreAssumption
    BY DEF SupervisorAssumption, Table!StoreAssumption
  <1> QED BY <1>3, <1>4, Table!InvInductive, Table!LogInductive DEF IInv

-----------------------------------------------------------------------------
(* What a step of one worker leaves of the others.                         *)

\* Leases are only counted up, and neither a request to cancel nor a lost lease
\* is taken back.
Onward ==
  \A j \in Jobs :
    /\ minted'[j] \in Nat /\ minted'[j] >= minted[j]
    /\ rows[j].cancel_requested => rows'[j].cancel_requested
    /\ \A l \in 1..minted[j] : Fenced(rows'[j], l) => Fenced(rows[j], l)

LEMMA MintedType == ASSUME IInv, NEW j \in Jobs PROVE minted[j] \in Nat
  BY DEF IInv, Table!IInv

LEMMA QuietOnward == TableQuiet => Onward
  BY DEF TableQuiet, Onward, Quietly

LEMMA AckedOnward ==
  ASSUME IInv, NEW j \in Jobs, NEW l, TableAcked(j, l)
  PROVE  Onward
  BY MintedType DEF TableAcked, Onward

LEMMA WorkerFrame ==
  ASSUME IInv, Onward, objects \subseteq objects',
         NEW w, w \in stopping => w \in stopping', NEW t, NEW c,
         WorkerInv(w, t, c), Unheard(t)'
  PROVE  WorkerInv(w, t, c)'
  <1>1. t.job \in Jobs => t.lease \in 1..minted[t.job]
    BY DEF WorkerInv, Holding
  <1>2. t.job = NoJob => t.ending = "none" /\ t.pc \in {"idle", "reserve", "halted"}
    BY DEF WorkerInv, Holding
  <1>3. t \in Turn /\ t.job \in Jobs \cup {NoJob}
    BY DEF WorkerInv, Turn
  <1>4. Holding(t)'
    BY <1>1, <1>2, MintedType DEF Holding, Onward
  <1>5. Lost(t)'
    BY <1>1, <1>2, <1>3 DEF WorkerInv, Lost, Onward
  <1>6. Cause(w, t)'
    BY <1>1, <1>2, <1>3 DEF WorkerInv, Cause, Onward
  <1>7. Stored(t)'
    BY DEF WorkerInv, Stored, Bytes, ArtifactKey
  <1> QED BY <1>4, <1>5, <1>6, <1>7 DEF WorkerInv, Deciding, Reaped

\* What a step keeps of the table and the bucket, and for whom.
Kept(some) ==
  /\ Onward
  /\ objects \subseteq objects'
  /\ Bucket' /\ ResultIsOwn'
  /\ \A v \in some : \A t \in Turn : t = turn[v] => Unheard(t)'

LEMMA QuietKept ==
  ASSUME IInv, TableQuiet, objects' = objects
  PROVE  Kept(Workers)
  <1>1. Onward
    BY QuietOnward
  <1>2. Bucket'
    <2>1. \A j \in Jobs : 1..minted[j] \subseteq 1..minted'[j]
      BY <1>1, MintedType DEF Onward
    <2> QED BY <2>1 DEF IInv, Bucket, Bytes, ArtifactKey
  <1>3. ResultIsOwn'
    BY DEF IInv, ResultIsOwn, TableQuiet, Quietly, ArtifactKey
  <1>4. ASSUME NEW v \in Workers, NEW t \in Turn, t = turn[v] PROVE Unheard(t)'
    <2>1. Unheard(t)
      BY <1>4 DEF IInv, WorkerInv
    <2> QED BY <2>1 DEF Unheard, TableQuiet, Bytes, ArtifactKey
  <1> QED BY <1>1, <1>2, <1>3, <1>4 DEF Kept

\* The bytes of an attempt take the place of nothing but themselves.
LEMMA WrittenKept ==
  ASSUME IInv, TableQuiet, NEW w \in Workers, At(w, "put"), Written(w)
  PROVE  /\ Kept(Workers \ {w})
         /\ objects' = objects \cup {Bytes(turn[w].job, turn[w].lease)}
  <1>1. PICK j \in Jobs : \E l \in 1..minted[j] : j = turn[w].job /\ l = turn[w].lease
    BY Held DEF At
  <1>2. PICK l \in 1..minted[j] : j = turn[w].job /\ l = turn[w].lease
    BY <1>1
  <1>3. objects' = objects \cup {Bytes(j, l)}
    <2>1. objects' = {o \in objects : o.key # <<j, l>>} \cup {[key |-> <<j, l>>, by |-> l]}
      BY <1>2 DEF Written, ArtifactKey
    <2>2. ASSUME NEW o \in objects, o.key = <<j, l>> PROVE o = [key |-> <<j, l>>, by |-> l]
      <3>1. PICK i \in Jobs : \E k \in 1..minted[i] : o = Bytes(i, k)
        BY DEF IInv, Bucket
      <3>2. PICK k \in 1..minted[i] : o = Bytes(i, k)
        BY <3>1
      <3> QED BY <2>2, <3>2 DEF Bytes, ArtifactKey
    <2> QED BY <2>1, <2>2 DEF Bytes, ArtifactKey
  <1>4. Onward
    BY QuietOnward
  <1>5. Bucket'
    <2>1. \A i \in Jobs : 1..minted[i] \subseteq 1..minted'[i]
      BY <1>4, MintedType DEF Onward
    <2>2. \A o \in objects : \E i \in Jobs : \E k \in 1..minted'[i] : o = Bytes(i, k)
      BY <2>1 DEF IInv, Bucket
    <2>3. l \in 1..minted'[j]
      BY <2>1
    <2> QED BY <1>3, <2>2, <2>3 DEF Bucket, Bytes, ArtifactKey
  <1>6. ResultIsOwn'
    BY <1>3 DEF IInv, ResultIsOwn, TableQuiet, Quietly, ArtifactKey
  <1>7. ASSUME NEW v \in Workers \ {w}, NEW t \in Turn, t = turn[v] PROVE Unheard(t)'
    <2>1. Unheard(t)
      BY <1>7 DEF IInv, WorkerInv
    <2>2. ~(t.job = j /\ t.lease = l)
      BY <1>2, <1>7 DEF IInv, Apart
    <2>3. Bytes(t.job, t.lease) # Bytes(j, l)
      BY <2>2 DEF Bytes, ArtifactKey
    <2> QED BY <1>3, <2>1, <2>3 DEF Unheard, TableQuiet, Bytes, ArtifactKey
  <1> QED BY <1>2, <1>3, <1>4, <1>5, <1>6, <1>7 DEF Kept

LEMMA AckedKept ==
  ASSUME IInv, NEW w \in Workers, At(w, "ack"), objects' = objects,
         TableAcked(turn[w].job, turn[w].lease)
  PROVE  Kept(Workers \ {w})
  <1>1. PICK j \in Jobs : \E l \in 1..minted[j] : j = turn[w].job /\ l = turn[w].lease
    BY Held DEF At
  <1>2. PICK l \in 1..minted[j] : j = turn[w].job /\ l = turn[w].lease
    BY <1>1
  <1>3. TableAcked(j, l)
    BY <1>2
  <1>4. Onward
    BY <1>3, AckedOnward
  <1>5. Bucket'
    BY <1>3 DEF IInv, Bucket, TableAcked, Bytes, ArtifactKey
  <1>6. ResultIsOwn'
    <2>1. Bytes(j, l) \in objects
      BY <1>2 DEF IInv, WorkerInv, Stored, At
    <2>2. /\ rows'[j].result_ref = l
          /\ \A k \in Jobs \ {j} : rows'[k] = rows[k]
      BY <1>3 DEF TableAcked
    <2> QED BY <2>1, <2>2 DEF IInv, ResultIsOwn, Bytes, ArtifactKey
  <1>7. ASSUME NEW v \in Workers \ {w}, NEW t \in Turn, t = turn[v] PROVE Unheard(t)'
    <2>1. Unheard(t)
      BY <1>7 DEF IInv, WorkerInv
    <2>2. ~(t.job = j /\ t.lease = l)
      BY <1>2, <1>7 DEF IInv, Apart
    <2>3. t.job \in Jobs => (t.lease \in acked'[t.job] => t.lease \in acked[t.job])
      BY <1>3, <2>2 DEF TableAcked, IInv, Table!IInv
    <2> QED BY <2>1, <2>3 DEF Unheard, Bytes, ArtifactKey
  <1> QED BY <1>4, <1>5, <1>6, <1>7 DEF Kept

-----------------------------------------------------------------------------
(* The steps.                                                              *)

\* One worker's turn and child change.
LEMMA StepOK ==
  ASSUME IInv, [Next]_vars, NEW w \in Workers, NEW t, NEW c,
         Kept(Workers \ {w}),
         turn' = [turn EXCEPT ![w] = t],
         child' = [child EXCEPT ![w] = c],
         \A v \in Workers \ {w} : v \in stopping => v \in stopping',
         stopping' \subseteq Workers,
         faults' \in [FaultKinds -> Nat],
         \A v \in Workers \ {w} :
           turn[v].job = t.job /\ t.job \in Jobs => turn[v].lease # t.lease,
         WorkerInv(w, t, c)'
  PROVE  IInv'
  <1>1. /\ \A v \in Workers : turn'[v] = IF v = w THEN t ELSE turn[v]
        /\ \A v \in Workers : child'[v] = IF v = w THEN c ELSE child[v]
    BY DEF IInv, Types
  <1>2. ASSUME NEW v \in Workers
        PROVE  WorkerInv(v, turn[v], child[v])'
    <2>1. CASE v = w
      BY <1>1, <2>1
    <2>2. CASE v # w
      <3>1. PICK u, d : u = turn[v] /\ d = child[v]
        OBVIOUS
      <3>2. WorkerInv(v, u, d) /\ Unheard(u)' /\ (v \in stopping => v \in stopping')
        BY <2>2, <3>1 DEF IInv, Kept, WorkerInv
      <3>3. WorkerInv(v, u, d)'
        BY <3>2, WorkerFrame DEF Kept
      <3> QED BY <1>1, <2>2, <3>1, <3>3
    <2> QED BY <2>1, <2>2
  <1>3. Types'
    BY <1>1 DEF IInv, Types, WorkerInv
  <1>4. Apart'
    BY <1>1 DEF IInv, Apart
  <1> QED BY <1>2, <1>3, <1>4, TableStep DEF IInv, Kept

\* The turns stay where they are.
LEMMA EnvironmentOK ==
  ASSUME IInv, [Next]_vars, TableQuiet, UNCHANGED <<objects, turn, child, faults>>,
         stopping \subseteq stopping', stopping' \subseteq Workers
  PROVE  IInv'
  <1>1. Kept(Workers)
    BY QuietKept
  <1>2. ASSUME NEW v \in Workers
        PROVE  WorkerInv(v, turn[v], child[v])'
    <2>1. PICK u, d : u = turn[v] /\ d = child[v]
      OBVIOUS
    <2>2. WorkerInv(v, u, d) /\ Unheard(u)' /\ (v \in stopping => v \in stopping')
      BY <1>1, <2>1 DEF IInv, Kept, WorkerInv
    <2>3. WorkerInv(v, u, d)'
      BY <1>1, <2>2, WorkerFrame DEF Kept
    <2> QED BY <2>1, <2>3
  <1>3. Types' /\ Apart'
    BY DEF IInv, Types, Apart
  <1> QED BY <1>1, <1>2, <1>3, TableStep DEF IInv, Kept

\* A step that keeps the claim, puts nothing in the bucket and is no ack: what is
\* true of a worker's next turn before the statement is true after it.
LEMMA MoveOK ==
  ASSUME IInv, [Next]_vars, NEW w \in Workers, NEW t, NEW c, TableQuiet,
         UNCHANGED <<objects, stopping>>,
         turn' = [turn EXCEPT ![w] = t],
         child' = [child EXCEPT ![w] = c],
         faults' \in [FaultKinds -> Nat],
         t.job = turn[w].job, t.lease = turn[w].lease,
         WorkerInv(w, t, c)
  PROVE  IInv'
  <1>1. Kept(Workers)
    BY QuietKept
  <1>2. Unheard(t)'
    BY DEF WorkerInv, Unheard, TableQuiet, Bytes, ArtifactKey
  <1>3. WorkerInv(w, t, c)'
    BY <1>1, <1>2, WorkerFrame DEF Kept
  <1>4. stopping' \subseteq Workers /\ stopping' = stopping
    BY DEF IInv, Types
  <1>5. \A v \in Workers \ {w} :
          turn[v].job = t.job /\ t.job \in Jobs => turn[v].lease # t.lease
    BY DEF IInv, Apart
  <1>6. Kept(Workers \ {w})
    BY <1>1 DEF Kept
  <1> QED BY <1>3, <1>4, <1>5, <1>6, StepOK

LEMMA FaultType ==
  ASSUME IInv, NEW k \in FaultKinds, Fault(k)
  PROVE  faults' \in [FaultKinds -> Nat]
  BY DEF IInv, Types, Fault

\* A turn of w that differs from the one before in pc, ending and its clocks.
NextTurn(w, pc, ending, capped, spent) ==
  [pc |-> pc, job |-> turn[w].job, lease |-> turn[w].lease, ending |-> ending,
   capped |-> capped, spent |-> spent]

LEMMA TurnFields ==
  ASSUME IInv, NEW w \in Workers
  PROVE  /\ turn[w] = NextTurn(w, turn[w].pc, turn[w].ending, turn[w].capped, turn[w].spent)
         /\ child = [child EXCEPT ![w] = child[w]]
         /\ faults \in [FaultKinds -> Nat]
         /\ WorkerInv(w, turn[w], child[w])
         /\ turn[w] \in Turn /\ child[w] \in Child
         /\ \A pc : Goto(w, pc) <=>
              turn' = [turn EXCEPT ![w] = NextTurn(w, pc, turn[w].ending, turn[w].capped, turn[w].spent)]
         /\ \A ending, pc : Decide(w, ending, pc) <=>
              turn' = [turn EXCEPT ![w] = NextTurn(w, pc, ending, turn[w].capped, turn[w].spent)]
  BY DEF IInv, Types, WorkerInv, Turn, NextTurn, Goto, Decide

LEMMA ClockFields ==
  ASSUME IInv, NEW w \in Workers
  PROVE  /\ [turn EXCEPT ![w].capped = TRUE]
              = [turn EXCEPT ![w] = NextTurn(w, turn[w].pc, turn[w].ending, TRUE, turn[w].spent)]
         /\ [turn EXCEPT ![w].spent = TRUE]
              = [turn EXCEPT ![w] = NextTurn(w, turn[w].pc, turn[w].ending, turn[w].capped, TRUE)]
  <1>1. ASSUME NEW p, NEW j, NEW l, NEW e, NEW c, NEW s, NEW yes
        PROVE  LET t == [pc |-> p, job |-> j, lease |-> l, ending |-> e, capped |-> c, spent |-> s]
               IN  /\ [t EXCEPT !.capped = yes] = [pc |-> p, job |-> j, lease |-> l, ending |-> e,
                                                   capped |-> yes, spent |-> s]
                   /\ [t EXCEPT !.spent = yes] = [pc |-> p, job |-> j, lease |-> l, ending |-> e,
                                                  capped |-> c, spent |-> yes]
    OBVIOUS
  <1>2. turn[w] = NextTurn(w, turn[w].pc, turn[w].ending, turn[w].capped, turn[w].spent)
    BY TurnFields
  <1>3. PICK yes : yes = TRUE
    OBVIOUS
  <1>4. /\ [turn[w] EXCEPT !.capped = yes]
             = NextTurn(w, turn[w].pc, turn[w].ending, yes, turn[w].spent)
        /\ [turn[w] EXCEPT !.spent = yes]
             = NextTurn(w, turn[w].pc, turn[w].ending, turn[w].capped, yes)
    BY <1>1, <1>2 DEF NextTurn
  <1>5. /\ [turn EXCEPT ![w].capped = yes] = [turn EXCEPT ![w] = [turn[w] EXCEPT !.capped = yes]]
        /\ [turn EXCEPT ![w].spent = yes] = [turn EXCEPT ![w] = [turn[w] EXCEPT !.spent = yes]]
    OBVIOUS
  <1> QED BY <1>3, <1>4, <1>5

\* A turn goes on, and nobody else notices.
LEMMA GoOK ==
  ASSUME IInv, [Next]_vars, NEW w \in Workers, NEW pc, NEW ending, NEW capped, NEW spent,
         UNCHANGED <<tableVars, objects, child, stopping>>,
         turn' = [turn EXCEPT ![w] = NextTurn(w, pc, ending, capped, spent)],
         faults' \in [FaultKinds -> Nat],
         WorkerInv(w, NextTurn(w, pc, ending, capped, spent), child[w])
  PROVE  IInv'
  <1> DEFINE t == NextTurn(w, pc, ending, capped, spent)
  <1>1. TableQuiet
    BY QuietSteps DEF IInv
  <1>2. child' = [child EXCEPT ![w] = child[w]]
    BY TurnFields
  <1>3. t.job = turn[w].job /\ t.lease = turn[w].lease
    BY DEF NextTurn
  <1> HIDE DEF t
  <1> QED BY <1>1, <1>2, <1>3, MoveOK DEF t

\* The local steps of a turn.
LEMMA RunSteps ==
  ASSUME IInv, [Next]_vars, NEW w \in Workers,
         RunHalts(w) \/ RunOnce(w) \/ ReservedNothing(w) \/ SpawnFails(w) \/ Discard(w)
  PROVE  IInv'
  <1>1. PICK pc : /\ pc \in {"halted", "reserve", "idle", "close"}
                  /\ turn[w].pc \in {"idle", "reserve", "spawn", "discard"}
                  /\ pc = "close" <=> turn[w].pc = "discard"
                  /\ Goto(w, pc)
                  /\ UNCHANGED <<tableVars, objects, child, stopping>>
    BY DEF RunHalts, RunOnce, ReservedNothing, SpawnFails, Discard, At
  <1>2. faults' \in [FaultKinds -> Nat]
    BY TurnFields, FaultType DEF RunHalts, RunOnce, ReservedNothing, SpawnFails, Discard, FaultKinds
  <1>3. WorkerInv(w, NextTurn(w, pc, turn[w].ending, turn[w].capped, turn[w].spent), child[w])
    BY <1>1, TurnFields DEF WorkerInv, Deciding, Holding, Unheard, Stored, Lost, Reaped, Cause,
                            NextTurn, Turn
  <1> QED BY <1>1, <1>2, <1>3, TurnFields, GoOK

LEMMA WakeSteps ==
  ASSUME IInv, [Next]_vars, NEW w \in Workers,
         \/ WakeReported(w) \/ WakeStopping(w) \/ WakeCapped(w) \/ WakeBeat(w)
         \/ RenewalStale(w)
  PROVE  IInv'
  <1>1. PICK pc, ending :
          /\ turn[w].pc \in {"watch", "extend"}
          /\ \/ ending = "completed" /\ pc \in {"put", "nack"} /\ Collected(w)
             \/ ending = "released" /\ pc = "term" /\ w \in stopping
             \/ ending = "timed_out" /\ pc = "term" /\ turn[w].capped
             \/ ending = turn[w].ending /\ pc = "extend"
             \/ ending = "stale" /\ pc = "term" /\ ~Fenced(rows[turn[w].job], turn[w].lease)
          /\ Decide(w, ending, pc)
          /\ UNCHANGED <<tableVars, objects, child, stopping, faults>>
    <2>1. CASE WakeReported(w)
      BY <2>1 DEF WakeReported, Reported, At
    <2>2. CASE WakeStopping(w) \/ WakeCapped(w) \/ RenewalStale(w)
      BY <2>2 DEF WakeStopping, WakeCapped, RenewalStale, At
    <2>3. CASE WakeBeat(w)
      <3>1. Decide(w, turn[w].ending, "extend")
        BY <2>3, TurnFields DEF WakeBeat
      <3> QED BY <2>3, <3>1 DEF WakeBeat, At
    <2> QED BY <2>1, <2>2, <2>3
  <1>2. WorkerInv(w, NextTurn(w, pc, ending, turn[w].capped, turn[w].spent), child[w])
    BY <1>1, TurnFields DEF WorkerInv, Deciding, Holding, Unheard, Stored, Lost, Reaped, Cause,
                            NextTurn, Turn, Ending, Collected
  <1> QED BY <1>1, <1>2, TurnFields, GoOK

LEMMA ClockSteps ==
  ASSUME IInv, [Next]_vars, NEW w \in Workers, CapPasses(w) \/ DeadlinePasses(w)
  PROVE  IInv'
  <1>1. PICK capped \in BOOLEAN, spent \in BOOLEAN :
          /\ turn' = [turn EXCEPT ![w] = NextTurn(w, turn[w].pc, turn[w].ending, capped, spent)]
          /\ turn[w].pc \in {"watch", "extend"}
          /\ UNCHANGED <<tableVars, objects, child, stopping, faults>>
    <2>1. turn[w].capped \in BOOLEAN /\ turn[w].spent \in BOOLEAN
      BY TurnFields DEF Turn
    <2>2. CASE CapPasses(w)
      BY <2>1, <2>2, TurnFields, ClockFields DEF CapPasses, At
    <2>3. CASE DeadlinePasses(w)
      BY <2>1, <2>3, TurnFields, ClockFields DEF DeadlinePasses, At
    <2> QED BY <2>2, <2>3
  <1>2. WorkerInv(w, NextTurn(w, turn[w].pc, turn[w].ending, capped, spent), child[w])
    BY <1>1, TurnFields DEF WorkerInv, Deciding, Holding, Unheard, Stored, Lost, Reaped, Cause,
                            NextTurn, Turn
  <1> QED BY <1>1, <1>2, TurnFields, GoOK

LEMMA KilledStep ==
  ASSUME IInv, [Next]_vars, NEW w \in Workers, Killed(w)
  PROVE  IInv'
  <1>1. PICK pc : /\ Goto(w, pc)
                  /\ pc \in {"close", "discard", "nack"}
                  /\ pc = "discard" => turn[w].ending = "stale"
    BY DEF Killed
  <1>2. WorkerInv(w, NextTurn(w, pc, turn[w].ending, turn[w].capped, turn[w].spent), child[w])
    BY <1>1, TurnFields DEF WorkerInv, Deciding, Holding, Unheard, Stored, Lost, Reaped, Cause,
                            NextTurn, Turn, Killed, Collected, At
  <1> QED BY <1>1, <1>2, TurnFields, GoOK DEF Killed

\* What may become of a child: it says one thing at most, and does not come back.
Fades(d, c) ==
  /\ c \in Child /\ c.deaf = d.deaf
  /\ c.alive => d.alive
  /\ d.said # "nothing" => c.said = d.said
  /\ ~d.alive => c = d

LEMMA ReapedStays ==
  ASSUME NEW t, NEW d \in Child, NEW c, Fades(d, c), Reaped(t, d)
  PROVE  Reaped(t, c)
  BY DEF Fades, Reaped, Child

\* A child of w that differs from the one before in what it said and whether it
\* lives.
NextChild(w, alive, said) == [alive |-> alive, deaf |-> child[w].deaf, said |-> said]

Said == {"nothing", "solved", "failed", "garbled"}

LEMMA ChildFields ==
  ASSUME IInv, NEW w \in Workers
  PROVE  /\ [child EXCEPT ![w].alive = FALSE]
              = [child EXCEPT ![w] = NextChild(w, FALSE, child[w].said)]
         /\ \A said : [child EXCEPT ![w].said = said]
              = [child EXCEPT ![w] = NextChild(w, child[w].alive, said)]
         /\ \A said : [child EXCEPT ![w].alive = FALSE, ![w].said = said]
              = [child EXCEPT ![w] = NextChild(w, FALSE, said)]
         /\ \A alive \in BOOLEAN, said \in Said : NextChild(w, alive, said) \in Child
         /\ child[w] = NextChild(w, child[w].alive, child[w].said)
         /\ child[w].alive \in BOOLEAN /\ child[w].said \in Said /\ child[w].deaf \in BOOLEAN
  <1>1. child[w] \in Child
    BY TurnFields
  <1>2. child[w] = NextChild(w, child[w].alive, child[w].said)
    BY <1>1 DEF Child, NextChild
  <1>3. ASSUME NEW a, NEW d, NEW s, NEW no, NEW said
        PROVE  LET c == [alive |-> a, deaf |-> d, said |-> s]
               IN  /\ [c EXCEPT !.alive = no] = [alive |-> no, deaf |-> d, said |-> s]
                   /\ [c EXCEPT !.said = said] = [alive |-> a, deaf |-> d, said |-> said]
    OBVIOUS
  <1>4. PICK no : no = FALSE
    OBVIOUS
  <1>5. ASSUME NEW said
        PROVE  /\ [child[w] EXCEPT !.alive = no] = NextChild(w, no, child[w].said)
               /\ [child[w] EXCEPT !.said = said] = NextChild(w, child[w].alive, said)
               /\ [child[w] EXCEPT !.alive = no, !.said = said] = NextChild(w, no, said)
    <2>1. /\ [child[w] EXCEPT !.alive = no] = NextChild(w, no, child[w].said)
          /\ [child[w] EXCEPT !.said = said] = NextChild(w, child[w].alive, said)
          /\ [NextChild(w, no, child[w].said) EXCEPT !.said = said] = NextChild(w, no, said)
      BY <1>2, <1>3 DEF NextChild
    <2>2. [child[w] EXCEPT !.alive = no, !.said = said]
            = [[child[w] EXCEPT !.alive = no] EXCEPT !.said = said]
      OBVIOUS
    <2> QED BY <2>1, <2>2
  <1>6. ASSUME NEW said
        PROVE  /\ [child EXCEPT ![w].alive = no]
                    = [child EXCEPT ![w] = [child[w] EXCEPT !.alive = no]]
               /\ [child EXCEPT ![w].said = said]
                    = [child EXCEPT ![w] = [child[w] EXCEPT !.said = said]]
               /\ [child EXCEPT ![w].alive = no, ![w].said = said]
                    = [child EXCEPT ![w] = [child[w] EXCEPT !.alive = no, !.said = said]]
    <2>1. child \in [Workers -> Child]
      BY DEF IInv, Types
    <2>2. /\ [child EXCEPT ![w].alive = no]
               = [child EXCEPT ![w] = [child[w] EXCEPT !.alive = no]]
          /\ [child EXCEPT ![w].said = said]
               = [child EXCEPT ![w] = [child[w] EXCEPT !.said = said]]
      OBVIOUS
    <2>3. [child EXCEPT ![w].alive = no, ![w].said = said]
            = [child EXCEPT ![w] = [child[w] EXCEPT !.alive = no, !.said = said]]
      BY <2>1
    <2> QED BY <2>2, <2>3
  <1>7. \A alive \in BOOLEAN, said \in Said : NextChild(w, alive, said) \in Child
    BY <1>1 DEF Child, NextChild, Said
  <1>8. child[w].alive \in BOOLEAN /\ child[w].said \in Said /\ child[w].deaf \in BOOLEAN
    BY <1>1 DEF Child, Said
  <1>9. /\ [child EXCEPT ![w].alive = no] = [child EXCEPT ![w] = NextChild(w, no, child[w].said)]
        /\ \A said : [child EXCEPT ![w].alive = no, ![w].said = said]
             = [child EXCEPT ![w] = NextChild(w, no, said)]
    BY <1>5, <1>6
  <1>10. \A said : [child EXCEPT ![w].said = said]
           = [child EXCEPT ![w] = NextChild(w, child[w].alive, said)]
    BY <1>5, <1>6
  <1> QED BY <1>2, <1>4, <1>7, <1>8, <1>9, <1>10

LEMMA ChildFades ==
  ASSUME IInv, NEW w \in Workers, NEW alive \in BOOLEAN, NEW said \in Said,
         child[w].alive,
         said = child[w].said \/ child[w].said = "nothing"
  PROVE  /\ Fades(child[w], NextChild(w, alive, said))
         /\ NextChild(w, alive, said).alive = alive
  BY ChildFields DEF Fades, NextChild

LEMMA DiesMoves ==
  ASSUME IInv, NEW w \in Workers, Dies(w)
  PROVE  /\ \E c : child' = [child EXCEPT ![w] = c] /\ Fades(child[w], c) /\ ~c.alive
         /\ faults' \in [FaultKinds -> Nat]
  <1>1. PICK no \in BOOLEAN : no = FALSE
    OBVIOUS
  <1>2. PICK said \in Said : /\ child' = [child EXCEPT ![w] = NextChild(w, no, said)]
                             /\ said = child[w].said \/ child[w].said = "nothing"
    BY <1>1, ChildFields DEF Dies, Said
  <1>3. Fades(child[w], NextChild(w, no, said)) /\ ~NextChild(w, no, said).alive
    BY <1>1, <1>2, ChildFades DEF Dies
  <1>4. faults' \in [FaultKinds -> Nat]
    BY TurnFields, FaultType DEF Dies, FaultKinds
  <1> QED BY <1>2, <1>3, <1>4

LEMMA TerminateMoves ==
  ASSUME IInv, NEW w \in Workers, Terminate(w)
  PROVE  /\ \E c : /\ child' = [child EXCEPT ![w] = c] /\ Fades(child[w], c)
                   /\ c.alive => child[w].deaf
         /\ faults' \in [FaultKinds -> Nat]
  <1>1. CASE child[w].alive /\ ~child[w].deaf
    BY <1>1, DiesMoves DEF Terminate
  <1>2. CASE ~(child[w].alive /\ ~child[w].deaf)
    <2>1. child' = [child EXCEPT ![w] = child[w]] /\ faults' \in [FaultKinds -> Nat]
      BY <1>2, TurnFields DEF Terminate
    <2>2. Fades(child[w], child[w])
      BY TurnFields DEF Fades
    <2> QED BY <1>2, <2>1, <2>2
  <1> QED BY <1>1, <1>2

\* The child moves, the turn stays.
LEMMA ChildOK ==
  ASSUME IInv, [Next]_vars, NEW w \in Workers, NEW c,
         UNCHANGED <<tableVars, objects, turn, stopping>>,
         child' = [child EXCEPT ![w] = c], Fades(child[w], c),
         faults' \in [FaultKinds -> Nat]
  PROVE  IInv'
  <1>1. WorkerInv(w, turn[w], c)
    BY TurnFields, ReapedStays DEF WorkerInv, Fades
  <1>2. turn' = [turn EXCEPT ![w] = turn[w]]
    BY DEF IInv, Types
  <1>3. TableQuiet
    BY QuietSteps DEF IInv
  <1> QED BY <1>1, <1>2, <1>3, MoveOK

LEMMA ChildSteps ==
  ASSUME IInv, [Next]_vars, NEW w \in Workers, Childs(w) \/ GraceOver(w)
  PROVE  IInv'
  <1>1. CASE ChildDies(w) \/ GraceOver(w)
    BY <1>1, DiesMoves, ChildOK DEF ChildDies, GraceOver
  <1>2. CASE (\E outcome \in SolverOutcome : ChildReports(w, outcome)) \/ ChildGarbles(w)
    <2>1. PICK said \in Said : /\ child[w].alive /\ child[w].said = "nothing"
                               /\ child' = [child EXCEPT ![w].said = said]
                               /\ UNCHANGED <<tableVars, objects, turn, stopping>>
      BY <1>2 DEF ChildReports, ChildGarbles, SolverOutcome, Said
    <2>2. child' = [child EXCEPT ![w] = NextChild(w, child[w].alive, said)]
      BY <2>1, ChildFields
    <2>3. Fades(child[w], NextChild(w, child[w].alive, said))
      BY <2>1, ChildFields, ChildFades
    <2>4. faults' \in [FaultKinds -> Nat]
      BY <1>2, TurnFields, FaultType DEF ChildReports, ChildGarbles, FaultKinds
    <2> QED BY <2>1, <2>2, <2>3, <2>4, ChildOK
  <1>3. CASE ChildReaped(w)
    <2>1. PICK no \in BOOLEAN : no = FALSE
      OBVIOUS
    <2>2. child' = [child EXCEPT ![w] = NextChild(w, no, child[w].said)]
      BY <1>3, <2>1, ChildFields DEF ChildReaped
    <2>3. Fades(child[w], NextChild(w, no, child[w].said))
      BY <1>3, ChildFields, ChildFades DEF ChildReaped
    <2> QED BY <1>3, <2>2, <2>3, TurnFields, ChildOK DEF ChildReaped
  <1> QED BY <1>1, <1>2, <1>3 DEF Childs

-----------------------------------------------------------------------------
(* Steps of a turn with a statement, or with the child.                    *)

LEMMA RenewedFields ==
  ASSUME IInv, NEW w \in Workers, NEW pc, NEW ending
  PROVE  [turn EXCEPT ![w].spent = FALSE, ![w].pc = pc, ![w].ending = ending]
           = [turn EXCEPT ![w] = NextTurn(w, pc, ending, turn[w].capped, FALSE)]
  <1>1. PICK no : no = FALSE
    OBVIOUS
  <1>2. PICK t, p, j, l, e, c, s :
          /\ t = turn[w]
          /\ t = [pc |-> p, job |-> j, lease |-> l, ending |-> e,
                  capped |-> c, spent |-> s]
          /\ j = turn[w].job /\ l = turn[w].lease /\ e = turn[w].ending /\ c = turn[w].capped
    <2>1. turn[w] = [pc |-> turn[w].pc, job |-> turn[w].job, lease |-> turn[w].lease,
                     ending |-> turn[w].ending, capped |-> turn[w].capped,
                     spent |-> turn[w].spent]
      BY TurnFields, Zenon DEF NextTurn
    <2>2. WITNESS turn[w], turn[w].pc, turn[w].job, turn[w].lease, turn[w].ending,
                  turn[w].capped, turn[w].spent
    <2> QED BY <2>1, Zenon
  <1>3. PICK a : a = [t EXCEPT !.spent = no]
    OBVIOUS
  <1>r. t = [pc |-> p, job |-> j, lease |-> l, ending |-> e, capped |-> c, spent |-> s]
    BY <1>2
  <1>4. a = [pc |-> p, job |-> j, lease |-> l, ending |-> e,
             capped |-> c, spent |-> no]
    BY <1>r, <1>3
  <1>5. PICK b : b = [a EXCEPT !.pc = pc]
    OBVIOUS
  <1>6. b = [pc |-> pc, job |-> j, lease |-> l, ending |-> e,
             capped |-> c, spent |-> no]
    BY <1>4, <1>5
  <1>7. PICK d : d = [b EXCEPT !.ending = ending]
    OBVIOUS
  <1>8. d = [pc |-> pc, job |-> j, lease |-> l, ending |-> ending,
             capped |-> c, spent |-> no]
    BY <1>6, <1>7
  <1>9. [t EXCEPT !.spent = no, !.pc = pc, !.ending = ending] = d
    BY <1>3, <1>5, <1>7
  <1>10. [turn EXCEPT ![w].spent = no, ![w].pc = pc, ![w].ending = ending]
          = [turn EXCEPT ![w] = [turn[w] EXCEPT !.spent = no, !.pc = pc, !.ending = ending]]
    BY DEF IInv, Types
  <1>11. d = NextTurn(w, pc, ending, turn[w].capped, no)
    BY <1>2, <1>8 DEF NextTurn
  <1> QED BY <1>1, <1>2, <1>9, <1>10, <1>11

LEMMA ClosedFields ==
  ASSUME IInv, NEW w \in Workers
  PROVE  [turn EXCEPT ![w].pc = "idle", ![w].capped = FALSE, ![w].spent = FALSE]
           = [turn EXCEPT ![w] = NextTurn(w, "idle", turn[w].ending, FALSE, FALSE)]
  <1>1. PICK no : no = FALSE
    OBVIOUS
  <1>2. PICK t, p, j, l, e, c, s :
          /\ t = turn[w]
          /\ t = [pc |-> p, job |-> j, lease |-> l, ending |-> e,
                  capped |-> c, spent |-> s]
          /\ j = turn[w].job /\ l = turn[w].lease /\ e = turn[w].ending /\ c = turn[w].capped
    <2>1. turn[w] = [pc |-> turn[w].pc, job |-> turn[w].job, lease |-> turn[w].lease,
                     ending |-> turn[w].ending, capped |-> turn[w].capped,
                     spent |-> turn[w].spent]
      BY TurnFields, Zenon DEF NextTurn
    <2>2. WITNESS turn[w], turn[w].pc, turn[w].job, turn[w].lease, turn[w].ending,
                  turn[w].capped, turn[w].spent
    <2> QED BY <2>1, Zenon
  <1>3. PICK a : a = [t EXCEPT !.pc = "idle"]
    OBVIOUS
  <1>r. t = [pc |-> p, job |-> j, lease |-> l, ending |-> e, capped |-> c, spent |-> s]
    BY <1>2
  <1>4. a = [pc |-> "idle", job |-> j, lease |-> l, ending |-> e,
             capped |-> c, spent |-> s]
    BY <1>r, <1>3
  <1>5. PICK b : b = [a EXCEPT !.capped = no]
    OBVIOUS
  <1>6. b = [pc |-> "idle", job |-> j, lease |-> l, ending |-> e,
             capped |-> no, spent |-> s]
    BY <1>4, <1>5
  <1>7. PICK d : d = [b EXCEPT !.spent = no]
    OBVIOUS
  <1>8. d = [pc |-> "idle", job |-> j, lease |-> l, ending |-> e,
             capped |-> no, spent |-> no]
    BY <1>6, <1>7
  <1>9. [t EXCEPT !.pc = "idle", !.capped = no, !.spent = no] = d
    BY <1>3, <1>5, <1>7
  <1>10. [turn EXCEPT ![w].pc = "idle", ![w].capped = no, ![w].spent = no]
          = [turn EXCEPT ![w] = [turn[w] EXCEPT !.pc = "idle", !.capped = no, !.spent = no]]
    BY DEF IInv, Types
  <1>11. d = NextTurn(w, "idle", turn[w].ending, no, no)
    BY <1>2, <1>8 DEF NextTurn
  <1> QED BY <1>1, <1>2, <1>9, <1>10, <1>11

\* A turn goes on after a statement that is not an ack.
LEMMA StatementOK ==
  ASSUME IInv, [Next]_vars, NEW w \in Workers, NEW pc, NEW ending, NEW capped, NEW spent, NEW c,
         TableQuiet, UNCHANGED <<objects, stopping>>,
         turn' = [turn EXCEPT ![w] = NextTurn(w, pc, ending, capped, spent)],
         child' = [child EXCEPT ![w] = c],
         faults' \in [FaultKinds -> Nat],
         WorkerInv(w, NextTurn(w, pc, ending, capped, spent), c)
  PROVE  IInv'
  <1>1. PICK t : t = NextTurn(w, pc, ending, capped, spent)
    OBVIOUS
  <1>2. t.job = turn[w].job /\ t.lease = turn[w].lease
    BY <1>1 DEF NextTurn
  <1> QED BY <1>1, <1>2, MoveOK

LEMMA SpawnStep ==
  ASSUME IInv, [Next]_vars, NEW w \in Workers, Spawn(w)
  PROVE  IInv'
  <1>1. PICK yes \in BOOLEAN : yes = TRUE
    OBVIOUS
  <1>2. PICK deaf \in BOOLEAN :
          child' = [child EXCEPT ![w] = [alive |-> TRUE, deaf |-> deaf, said |-> "nothing"]]
    BY DEF Spawn
  <1>3. PICK c : c = [alive |-> yes, deaf |-> deaf, said |-> "nothing"]
    OBVIOUS
  <1>4. child' = [child EXCEPT ![w] = c] /\ c \in Child
    BY <1>1, <1>2, <1>3 DEF Child
  <1>5. WorkerInv(w, NextTurn(w, "watch", turn[w].ending, turn[w].capped, turn[w].spent), c)
    BY <1>4, TurnFields DEF WorkerInv, Deciding, Holding, Unheard, Stored, Lost, Reaped, Cause,
                            NextTurn, Turn, Spawn, At
  <1>6. TableQuiet
    BY QuietSteps DEF IInv, Spawn
  <1> QED BY <1>4, <1>5, <1>6, TurnFields, StatementOK DEF Spawn

LEMMA ReserveFailsStep ==
  ASSUME IInv, [Next]_vars, NEW w \in Workers, ReserveFails(w)
  PROVE  IInv'
  <1>1. TableQuiet
    BY QuietSteps DEF IInv, ReserveFails
  <1>2. WorkerInv(w, NextTurn(w, "idle", turn[w].ending, turn[w].capped, turn[w].spent), child[w])
    BY TurnFields DEF WorkerInv, Deciding, Holding, Unheard, Stored, Lost, Reaped, Cause,
                      NextTurn, Turn, ReserveFails, At
  <1>3. faults' \in [FaultKinds -> Nat]
    BY FaultType DEF ReserveFails, FaultKinds
  <1> QED BY <1>1, <1>2, <1>3, TurnFields, StatementOK DEF ReserveFails

LEMMA ExtendSteps ==
  ASSUME IInv, [Next]_vars, NEW w \in Workers, Renewed(w) \/ Unreachable(w)
  PROVE  IInv'
  <1>1. PICK j \in Jobs : j = turn[w].job
    BY Held DEF Renewed, Unreachable, At
  <1>2. TableQuiet
    BY <1>1, QuietSteps DEF IInv, Renewed, Unreachable
  <1>3. CASE Renewed(w)
    <2>1. PICK pc, ending :
            /\ turn' = [turn EXCEPT ![w].spent = FALSE, ![w].pc = pc, ![w].ending = ending]
            /\ \/ pc = "watch" /\ ending = turn[w].ending
               \/ pc = "term" /\ ending = "cancelled" /\ rows[j].cancel_requested
      <3>1. CASE rows[j].cancel_requested
        BY <1>1, <1>3, <3>1 DEF Renewed
      <3>2. CASE ~rows[j].cancel_requested
        BY <1>1, <1>3, <3>2 DEF Renewed
      <3> QED BY <3>1, <3>2
    <2>2. PICK no \in BOOLEAN : no = FALSE
      OBVIOUS
    <2>3. turn' = [turn EXCEPT ![w] = NextTurn(w, pc, ending, turn[w].capped, no)]
      BY <2>1, <2>2, RenewedFields
    <2>4. WorkerInv(w, NextTurn(w, pc, ending, turn[w].capped, no), child[w])
      BY <1>1, <1>3, <2>1, TurnFields DEF WorkerInv, Deciding, Holding, Unheard, Stored, Lost,
                        Reaped, Cause, NextTurn, Turn, Ending, Renewed, At
    <2>5. UNCHANGED <<objects, child, stopping, faults>>
      BY <1>3 DEF Renewed
    <2>6. child' = [child EXCEPT ![w] = child[w]] /\ faults' \in [FaultKinds -> Nat]
      BY <2>5, TurnFields
    <2> QED BY <1>2, <2>3, <2>4, <2>5, <2>6, StatementOK
  <1>4. CASE Unreachable(w)
    <2>1. PICK pc, ending :
            /\ Decide(w, ending, pc)
            /\ \/ pc = "watch" /\ ending = turn[w].ending
               \/ pc = "term" /\ ending = "undefendable" /\ turn[w].spent
      <3>1. CASE turn[w].spent
        BY <1>4, <3>1 DEF Unreachable
      <3>2. CASE ~turn[w].spent
        <4>1. Decide(w, turn[w].ending, "watch")
          BY <1>4, <3>2, TurnFields DEF Unreachable
        <4> QED BY <4>1
      <3> QED BY <3>1, <3>2
    <2>2. WorkerInv(w, NextTurn(w, pc, ending, turn[w].capped, turn[w].spent), child[w])
      BY <1>1, <1>4, <2>1, TurnFields DEF WorkerInv, Deciding, Holding, Unheard, Stored, Lost,
                        Reaped, Cause, NextTurn, Turn, Ending, Unreachable, At
    <2>3. faults' \in [FaultKinds -> Nat]
      BY <1>4, FaultType DEF Unreachable, FaultKinds
    <2> QED BY <1>2, <1>4, <2>1, <2>2, <2>3, TurnFields, StatementOK DEF Unreachable
  <1> QED BY <1>3, <1>4

\* SIGTERM, at the beginning of the grace and at the end of the turn.
LEMMA StopSteps ==
  ASSUME IInv, [Next]_vars, NEW w \in Workers, KillBegins(w) \/ Close(w)
  PROVE  IInv'
  <1>1. /\ TableQuiet /\ Terminate(w)
        /\ UNCHANGED <<objects, stopping>>
    BY QuietSteps DEF IInv, KillBegins, Close
  <1>2. PICK c : /\ child' = [child EXCEPT ![w] = c] /\ Fades(child[w], c)
                 /\ c.alive => child[w].deaf
    BY <1>1, TerminateMoves
  <1>3. faults' \in [FaultKinds -> Nat]
    BY <1>1, TerminateMoves
  <1>4. CASE KillBegins(w)
    <2>1. WorkerInv(w, NextTurn(w, "kill", turn[w].ending, turn[w].capped, turn[w].spent), c)
      BY <1>2, <1>4, TurnFields DEF WorkerInv, Deciding, Holding, Unheard, Stored, Lost, Reaped,
                        Cause, NextTurn, Turn, KillBegins, At, Fades
    <2> QED BY <1>1, <1>2, <1>3, <1>4, <2>1, TurnFields, StatementOK DEF KillBegins
  <1>5. CASE Close(w)
    <2>1. PICK no \in BOOLEAN : no = FALSE
      OBVIOUS
    <2>2. turn' = [turn EXCEPT ![w] = NextTurn(w, "idle", turn[w].ending, no, no)]
      BY <1>5, <2>1, ClosedFields DEF Close
    <2>3. ~c.alive \/ (c.deaf /\ c.said = "garbled")
      <3>1. PICK d \in Child : d = child[w]
        BY TurnFields
      <3>2. ~d.alive \/ d.said = "garbled"
        BY <1>5, <3>1, TurnFields DEF WorkerInv, Reaped, Close, At
      <3>3. Fades(d, c) /\ (c.alive => d.deaf)
        BY <1>2, <3>1
      <3>4. c.alive => d.alive /\ c.said = d.said
        BY <3>2, <3>3 DEF Fades
      <3>5. c.alive => c.deaf
        BY <3>3 DEF Fades
      <3> QED BY <3>2, <3>4, <3>5
    <2>4. WorkerInv(w, NextTurn(w, "idle", turn[w].ending, no, no), c)
      BY <1>2, <1>5, <2>3, TurnFields DEF WorkerInv, Deciding, Holding, Unheard, Stored, Lost,
                        Reaped, Cause, NextTurn, Turn, Close, At, Fades
    <2> QED BY <1>1, <1>2, <1>3, <2>2, <2>4, StatementOK
  <1> QED BY <1>4, <1>5

LEMMA NackSteps ==
  ASSUME IInv, [Next]_vars, NEW w \in Workers, Nack(w) \/ NackFails(w)
  PROVE  IInv'
  <1>1. PICK j \in Jobs : j = turn[w].job
    BY Held DEF Nack, NackFails, At
  <1>2. Backoff(w) \in BOOLEAN
    BY DEF Backoff
  <1>3. TableQuiet
    <2>1. UNCHANGED tableVars \/ Store!Nack(j, turn[w].lease, Backoff(w))
      BY <1>1 DEF Nack, NackFails
    <2> QED BY <1>2, <2>1, QuietSteps DEF IInv
  <1>4. WorkerInv(w, NextTurn(w, "close", turn[w].ending, turn[w].capped, turn[w].spent), child[w])
    BY TurnFields DEF WorkerInv, Deciding, Holding, Unheard, Stored, Lost, Reaped, Cause,
                      NextTurn, Turn, Nack, NackFails, At
  <1>5. UNCHANGED <<objects, child, stopping>> /\ Goto(w, "close")
    BY DEF Nack, NackFails
  <1>6. faults' \in [FaultKinds -> Nat]
    BY TurnFields, FaultType DEF Nack, NackFails, FaultKinds
  <1> QED BY <1>3, <1>4, <1>5, <1>6, TurnFields, StatementOK

\* A turn goes on after it wrote its bytes or acknowledged its attempt.
LEMMA EffectOK ==
  ASSUME IInv, [Next]_vars, NEW w \in Workers, NEW pc,
         Kept(Workers \ {w}), Goto(w, pc), UNCHANGED <<child, stopping>>,
         faults' \in [FaultKinds -> Nat],
         turn[w].ending = "completed",
         pc \in {"ack", "nack", "close"}, turn[w].pc \in {"put", "ack"},
         pc = "ack" => Bytes(turn[w].job, turn[w].lease) \in objects'
  PROVE  IInv'
  <1>1. PICK t : t = NextTurn(w, pc, turn[w].ending, turn[w].capped, turn[w].spent)
    OBVIOUS
  <1>2. /\ t \in Turn /\ t.job = turn[w].job /\ t.lease = turn[w].lease
        /\ t.pc = pc /\ t.ending = "completed"
    BY <1>1, TurnFields DEF NextTurn, Turn
  <1>3. PICK c \in Child : c = child[w]
    BY TurnFields
  <1>4. PICK j \in Jobs : j = turn[w].job /\ turn[w].lease \in 1..minted[j]
    BY Held
  <1>5. WorkerInv(w, t, c)'
    <2>1. Deciding(t) /\ Reaped(t, c)
      BY <1>2, <1>3, TurnFields DEF WorkerInv, Deciding, Reaped
    <2>2. Holding(t)'
      BY <1>2, <1>4, MintedType DEF Holding, Kept, Onward
    <2>3. Unheard(t)' /\ Lost(t)' /\ Cause(w, t)'
      BY <1>2 DEF Unheard, Lost, Cause
    <2>4. Stored(t)'
      BY <1>2 DEF Stored, Bytes, ArtifactKey
    <2> QED BY <1>2, <1>3, <2>1, <2>2, <2>3, <2>4 DEF WorkerInv, Deciding, Reaped
  <1>6. turn' = [turn EXCEPT ![w] = t] /\ child' = [child EXCEPT ![w] = c]
    BY <1>1, <1>3, TurnFields
  <1>7. \A v \in Workers \ {w} :
          turn[v].job = t.job /\ t.job \in Jobs => turn[v].lease # t.lease
    BY <1>2 DEF IInv, Apart
  <1>8. stopping' = stopping /\ stopping' \subseteq Workers
    BY DEF IInv, Types
  <1> QED BY <1>5, <1>6, <1>7, <1>8, StepOK

LEMMA PutSteps ==
  ASSUME IInv, [Next]_vars, NEW w \in Workers, Put(w) \/ PutFails(w)
  PROVE  IInv'
  <1>1. TableQuiet /\ At(w, "put") /\ UNCHANGED <<child, stopping>>
    BY QuietSteps DEF IInv, Put, PutFails
  <1>2. turn[w].ending = "completed" /\ turn[w].pc = "put"
    BY <1>1, TurnFields DEF WorkerInv, Deciding, At
  <1>3. faults' \in [FaultKinds -> Nat]
    BY TurnFields, FaultType DEF Put, PutFails, FaultKinds
  <1>4. CASE Put(w)
    <2>1. Kept(Workers \ {w}) /\ Bytes(turn[w].job, turn[w].lease) \in objects'
      BY <1>1, <1>4, WrittenKept DEF Put
    <2> QED BY <1>1, <1>2, <1>3, <1>4, <2>1, EffectOK DEF Put
  <1>5. CASE PutFails(w)
    <2>1. Kept(Workers \ {w})
      BY <1>1, <1>5, WrittenKept, QuietKept DEF PutFails, Kept
    <2> QED BY <1>1, <1>2, <1>3, <1>5, <2>1, EffectOK DEF PutFails
  <1> QED BY <1>4, <1>5

LEMMA AckSteps ==
  ASSUME IInv, [Next]_vars, NEW w \in Workers, Ack(w) \/ AckFails(w)
  PROVE  IInv'
  <1>1. At(w, "ack") /\ Goto(w, "close") /\ UNCHANGED <<objects, child, stopping>>
    BY DEF Ack, AckFails
  <1>2. PICK j \in Jobs : j = turn[w].job
    BY <1>1, Held DEF At
  <1>3. turn[w].ending = "completed" /\ turn[w].pc = "ack"
    BY <1>1, TurnFields DEF WorkerInv, Deciding, At
  <1>4. faults' \in [FaultKinds -> Nat]
    BY TurnFields, FaultType DEF Ack, AckFails, FaultKinds
  <1>5. CASE UNCHANGED tableVars
    <2>1. Kept(Workers \ {w})
      BY <1>1, <1>5, QuietSteps, QuietKept DEF IInv, Kept
    <2> QED BY <1>1, <1>3, <1>4, <2>1, EffectOK
  <1>6. CASE Store!Ack(j, turn[w].lease)
    <2>1. TableAcked(turn[w].job, turn[w].lease)
      BY <1>2, <1>6, AckedStep DEF IInv
    <2>2. Kept(Workers \ {w})
      BY <1>1, <2>1, AckedKept
    <2> QED BY <1>1, <1>3, <1>4, <2>2, EffectOK
  <1> QED BY <1>2, <1>5, <1>6 DEF Ack, AckFails

\* A new lease is nobody's yet.
LEMMA ReservedStep ==
  ASSUME IInv, [Next]_vars, NEW w \in Workers, NEW j \in Jobs, Reserved(w, j)
  PROVE  IInv'
  <1>1. PICK m \in Nat : m = minted[j]
    BY MintedType
  <1>2. TableQuiet /\ minted'[j] = m + 1 /\ UNCHANGED <<objects, child, stopping, faults>>
    BY <1>1, QuietSteps DEF IInv, Reserved
  <1>3. Kept(Workers \ {w})
    BY <1>2, QuietKept DEF Kept
  <1>4. PICK no \in BOOLEAN : no = FALSE
    OBVIOUS
  <1>5. PICK t : t = [pc |-> "spawn", job |-> j, lease |-> m + 1, ending |-> "none",
                      capped |-> no, spent |-> no]
    OBVIOUS
  <1>6. turn' = [turn EXCEPT ![w] = t]
    <2>1. turn' = [turn EXCEPT ![w] = [NoTurn EXCEPT !.pc = "spawn", !.job = j,
                                                     !.lease = m + 1]]
      BY <1>1 DEF Reserved
    <2>2. PICK n : n = NoTurn
      OBVIOUS
    <2>3. n = [pc |-> "idle", job |-> NoJob, lease |-> 0, ending |-> "none",
               capped |-> no, spent |-> no]
      BY <1>4, <2>2 DEF NoTurn
    <2>4. PICK a : a = [n EXCEPT !.pc = "spawn"]
      OBVIOUS
    <2>5. a = [pc |-> "spawn", job |-> NoJob, lease |-> 0, ending |-> "none",
               capped |-> no, spent |-> no]
      BY <2>3, <2>4
    <2>6. PICK b : b = [a EXCEPT !.job = j]
      OBVIOUS
    <2>7. b = [pc |-> "spawn", job |-> j, lease |-> 0, ending |-> "none",
               capped |-> no, spent |-> no]
      BY <2>5, <2>6
    <2>8. PICK d : d = [b EXCEPT !.lease = m + 1]
      OBVIOUS
    <2>9. d = t
      BY <1>5, <2>7, <2>8
    <2>10. [n EXCEPT !.pc = "spawn", !.job = j, !.lease = m + 1] = d
      BY <2>4, <2>6, <2>8
    <2> QED BY <2>1, <2>2, <2>9, <2>10
  <1>7. /\ t \in Turn /\ t.pc = "spawn" /\ t.job = j /\ t.lease = m + 1
        /\ t.ending = "none"
    BY <1>4, <1>5 DEF Turn, Ending
  <1>8. PICK c \in Child : c = child[w]
    BY TurnFields
  <1>9. child' = [child EXCEPT ![w] = c] /\ faults' \in [FaultKinds -> Nat]
    BY <1>2, <1>8, TurnFields
  <1>10. ASSUME NEW v \in Workers \ {w}, turn[v].job = t.job
         PROVE  turn[v].lease # t.lease
    <2>1. turn[v] \in Turn /\ Holding(turn[v])
      BY DEF IInv, WorkerInv
    <2>2. turn[v].lease \in 1..m
      BY <1>1, <1>7, <1>10, <2>1 DEF Holding
    <2> QED BY <1>7, <2>2
  <1>11. WorkerInv(w, t, c)'
    <2>1. Holding(t)'
      BY <1>2, <1>7 DEF Holding
    <2>2. Unheard(t)'
      <3>1. t.lease \notin acked'[t.job]
        BY <1>1, <1>2, <1>7 DEF IInv, Table!IInv, Table!RowInv, TableQuiet
      <3>2. Bytes(t.job, t.lease) \notin objects
        BY <1>1, <1>7 DEF IInv, Bucket, Bytes, ArtifactKey
      <3> QED BY <1>2, <3>1, <3>2 DEF Unheard, Bytes, ArtifactKey
    <2>3. Deciding(t) /\ Stored(t)' /\ Lost(t)' /\ Cause(w, t)'
      BY <1>7 DEF Deciding, Stored, Lost, Cause
    <2>4. Reaped(t, c)
      BY <1>7, <1>8, TurnFields DEF WorkerInv, Reaped, Reserved, At
    <2> QED BY <1>7, <1>8, <2>1, <2>2, <2>3, <2>4 DEF WorkerInv, Deciding, Reaped
  <1>12. stopping' = stopping /\ stopping' \subseteq Workers
    BY <1>2 DEF IInv, Types
  <1> QED BY <1>3, <1>6, <1>9, <1>10, <1>11, <1>12, StepOK

\* The worker is started again.
LEMMA CrashStep ==
  ASSUME IInv, [Next]_vars, NEW w \in Workers, Crash(w)
  PROVE  IInv'
  <1>1. TableQuiet
    BY QuietSteps DEF IInv, Crash
  <1>2. Kept(Workers \ {w})
    BY <1>1, QuietKept DEF Crash, Kept
  <1>3. PICK no \in BOOLEAN : no = FALSE
    OBVIOUS
  <1>4. NoTurn \in Turn /\ NoTurn.pc = "idle" /\ NoTurn.job = NoJob /\ NoTurn.ending = "none"
    <2>1. NoTurn = [pc |-> "idle", job |-> NoJob, lease |-> 0, ending |-> "none",
                    capped |-> no, spent |-> no]
      BY <1>3 DEF NoTurn
    <2> QED BY <2>1 DEF Turn, Ending
  <1>5. NoChild \in Child /\ ~NoChild.alive
    <2>1. NoChild = [alive |-> no, deaf |-> no, said |-> "nothing"]
      BY <1>3 DEF NoChild
    <2>2. NoChild \in Child /\ NoChild.alive = no
      BY <2>1 DEF Child
    <2> QED BY <1>3, <2>2
  <1>6. PICK t \in Turn : t = NoTurn
    BY <1>4
  <1>7. PICK c \in Child : c = NoChild
    BY <1>5
  <1>8. WorkerInv(w, t, c)'
    <2>1. Deciding(t) /\ Holding(t)' /\ Unheard(t)' /\ Stored(t)' /\ Lost(t)' /\ Cause(w, t)'
      BY <1>4, <1>6 DEF Deciding, Holding, Unheard, Stored, Lost, Cause
    <2>2. Reaped(t, c)
      BY <1>4, <1>5, <1>6, <1>7 DEF Reaped
    <2> QED BY <2>1, <2>2 DEF WorkerInv, Deciding, Reaped
  <1>9. t.job \notin Jobs
    BY <1>4, <1>6
  <1>10. turn' = [turn EXCEPT ![w] = t] /\ child' = [child EXCEPT ![w] = c]
    BY <1>6, <1>7 DEF Crash
  <1>11. stopping' = stopping \ {w} /\ stopping' \subseteq Workers
    BY DEF IInv, Types, Crash
  <1>12. faults' \in [FaultKinds -> Nat]
    BY FaultType DEF Crash, FaultKinds
  <1> QED BY <1>2, <1>8, <1>9, <1>10, <1>11, <1>12, StepOK

LEMMA OtherSteps ==
  ASSUME IInv, [Next]_vars,
         \/ UNCHANGED vars
         \/ \E w \in Workers : Stop(w)
         \/ \E j \in Jobs : Enqueue(j) \/ Environment(j)
  PROVE  IInv'
  <1>1. TableQuiet
    BY QuietSteps DEF IInv, vars, Stop, Enqueue, Environment
  <1>2. UNCHANGED <<objects, turn, child, faults>>
    BY DEF vars, Stop, Enqueue, Environment
  <1>3. stopping \subseteq stopping' /\ stopping' \subseteq Workers
    BY DEF IInv, Types, vars, Stop, Enqueue, Environment
  <1> QED BY <1>1, <1>2, <1>3, EnvironmentOK

-----------------------------------------------------------------------------
(* The invariant holds.                                                    *)

THEOREM InvInductive == IInv /\ [Next]_vars => IInv'
  <1> SUFFICES ASSUME IInv, [Next]_vars PROVE IInv'
    OBVIOUS
  <1>1. CASE UNCHANGED vars \/ \E j \in Jobs : Enqueue(j) \/ Environment(j)
    BY <1>1, OtherSteps
  <1>2. ASSUME NEW w \in Workers, Turning(w) PROVE IInv'
    BY <1>2, RunSteps, SpawnStep, ReservedStep, WakeSteps, ExtendSteps, StopSteps, ChildSteps,
       KilledStep, NackSteps, PutSteps, AckSteps DEF Turning
  <1>3. ASSUME NEW w \in Workers, Failing(w) PROVE IInv'
    BY <1>3, ReserveFailsStep, RunSteps, ExtendSteps, PutSteps, NackSteps, AckSteps, CrashStep
    DEF Failing
  <1>4. ASSUME NEW w \in Workers,
               Childs(w) \/ CapPasses(w) \/ DeadlinePasses(w) \/ Stop(w)
        PROVE  IInv'
    BY <1>4, ChildSteps, ClockSteps, OtherSteps
  <1> QED BY <1>1, <1>2, <1>3, <1>4 DEF Next

LEMMA InitOK == Init => IInv
  <1> SUFFICES ASSUME Init PROVE IInv
    OBVIOUS
  <1>1. /\ rows = [j \in Jobs |-> Table!AbsentRow] /\ minted = [j \in Jobs |-> 0]
        /\ acked = [j \in Jobs |-> {}] /\ events = [j \in Jobs |-> <<>>]
    BY DEF Init, Store!Init, Store!AbsentRow, Table!AbsentRow
  <1>2. Table!IInv
    <2>1. Table!AbsentRow \in Table!Row
      BY Table!AbsentOK DEF Table!RowInv
    <2> QED BY <1>1, <2>1, Table!AbsentOK DEF Table!IInv
  <1>3. Table!LogInv
    BY <1>1 DEF Table!LogInv, Table!LogType, Table!LogTellsState, Table!Exists, Table!AbsentRow
  <1>4. PICK no \in BOOLEAN : no = FALSE
    OBVIOUS
  <1>5. NoTurn \in Turn /\ NoTurn.pc = "idle" /\ NoTurn.job = NoJob /\ NoTurn.ending = "none"
    <2>1. NoTurn = [pc |-> "idle", job |-> NoJob, lease |-> 0, ending |-> "none",
                    capped |-> no, spent |-> no]
      BY <1>4 DEF NoTurn
    <2> QED BY <2>1 DEF Turn, Ending
  <1>6. NoChild \in Child /\ ~NoChild.alive
    <2>1. NoChild = [alive |-> no, deaf |-> no, said |-> "nothing"]
      BY <1>4 DEF NoChild
    <2>2. NoChild \in Child /\ NoChild.alive = no
      BY <2>1 DEF Child
    <2> QED BY <1>4, <2>2
  <1>7. ASSUME NEW w \in Workers PROVE WorkerInv(w, NoTurn, NoChild)
    BY <1>5, <1>6 DEF WorkerInv, Deciding, Holding, Unheard, Stored, Lost, Reaped, Cause
  <1>8. /\ turn = [w \in Workers |-> NoTurn] /\ child = [w \in Workers |-> NoChild]
        /\ stopping = {} /\ objects = {} /\ faults = [k \in FaultKinds |-> 0]
    BY DEF Init
  <1>9. Types /\ Bucket
    BY <1>5, <1>6, <1>8 DEF Types, Bucket
  <1>10. Apart
    BY <1>5, <1>8 DEF Apart
  <1>11. ResultIsOwn
    BY <1>1 DEF ResultIsOwn, Table!AbsentRow
  <1>12. \A w \in Workers : WorkerInv(w, turn[w], child[w])
    BY <1>7, <1>8
  <1> QED BY <1>2, <1>3, <1>9, <1>10, <1>11, <1>12 DEF IInv

\* The inductive invariant holds in every reachable state of the workers.
THEOREM InvHolds == Spec => []IInv
  BY InitOK, InvInductive, PTL DEF Spec

\* Every variable keeps its type.
THEOREM TypeCorrect == Spec => []TypeOK
  <1>1. IInv => TypeOK
    <2> SUFFICES ASSUME IInv PROVE TypeOK
      OBVIOUS
    <2>1. Store!TypeOK
      BY DEF IInv, Table!IInv, Table!LogInv, Table!LogType, Table!Row, Store!Row, Store!TypeOK
    <2>2. objects \subseteq [key : (Jobs \cup {NoJob}) \X Nat, by : Nat]
      <3>1. ASSUME NEW j \in Jobs, NEW l \in 1..minted[j]
            PROVE  Bytes(j, l) \in [key : (Jobs \cup {NoJob}) \X Nat, by : Nat]
        BY MintedType DEF Bytes, ArtifactKey
      <3> QED BY <3>1 DEF IInv, Bucket
    <2> QED BY <2>1, <2>2 DEF IInv, Types, TypeOK
  <1> QED BY <1>1, InvHolds, PTL

\* A job that is done points at the bytes of the very attempt that acknowledged it:
\* not at a late competitor's, nor at an artifact that is not there.
THEOREM ResultIsOwnHolds == Spec => []ResultIsOwn
  <1>1. IInv => ResultIsOwn
    BY DEF IInv
  <1> QED BY <1>1, InvHolds, PTL

\* An attempt that was stopped has neither written nor acknowledged anything,
\* whatever its child said on the way down.
THEOREM DecisionIsOutcomeHolds == Spec => []DecisionIsOutcome
  <1>1. ASSUME IInv, NEW w \in Workers, turn[w].ending \notin {"none", "completed"}
        PROVE  /\ turn[w].lease \notin acked[turn[w].job]
               /\ \A o \in objects : o # [key |-> ArtifactKey(turn[w].job, turn[w].lease),
                                          by  |-> turn[w].lease]
    <2>1. turn[w] \in Turn /\ Holding(turn[w]) /\ Unheard(turn[w])
      BY <1>1 DEF IInv, WorkerInv
    <2>2. turn[w].job \in Jobs
      BY <1>1, <2>1 DEF Holding, Turn
    <2> QED BY <1>1, <2>1, <2>2 DEF Unheard, Bytes
  <1>2. IInv => DecisionIsOutcome
    BY <1>1 DEF DecisionIsOutcome
  <1> QED BY <1>2, InvHolds, PTL

\* A solve is only stopped for one of the five causes; a store that does not answer
\* is none.
THEOREM StoppedForCauseHolds == Spec => []StoppedForCause
  <1>1. IInv => StoppedForCause
    BY DEF IInv, WorkerInv, Cause, StoppedForCause, At
  <1> QED BY <1>1, InvHolds, PTL

\* No turn leaves a child behind, but a deaf one whose message could not be read.
THEOREM ChildGoneBetweenTurnsHolds == Spec => []ChildGoneBetweenTurns
  <1>1. IInv => ChildGoneBetweenTurns
    BY DEF IInv, WorkerInv, Reaped, ChildGoneBetweenTurns, BetweenTurns, Unreadable
  <1> QED BY <1>1, InvHolds, PTL

\* Whatever the workers, their children, the clock and the clients do, the table sees
\* a behaviour of the job store: each step is one statement under a lease that was
\* drawn, or leaves the table alone.  Every property of JobStore's specification is
\* therefore one of the table the workers share.
THEOREM WorkersImplementStore == Spec => Store!Spec
  <1>1. Init => Store!Init
    BY DEF Init
  <1>2. Statement => [Store!Next]_(Store!vars)
    BY DEF Statement, Store!Next, Store!JobStep, tableVars, Store!vars
  <1>3. IInv /\ [Next]_vars => [Store!Next]_(Store!vars)
    BY <1>2, StepIsStatement DEF vars, tableVars, Store!vars
  <1> QED BY <1>1, <1>3, InvHolds, PTL DEF Spec, Store!Spec

-----------------------------------------------------------------------------
(* No turn leaves its lease behind, as long as no child fails to start and the store *)
(* does not fail the answer: those two the code leaves to the lease's deadline.      *)

Over == {"idle", "reserve", "halted", "close"}

\* EveryLeaseAnswered of one turn, from its last step on.
Answered(t, c) ==
  t.pc \in Over /\ t.job \in Jobs =>
    \/ ~Fenced(rows[t.job], t.lease)
    \/ t.ending \notin {"none", "completed"} /\ c.said = "garbled"

AllAnswered == \A w \in Workers : Answered(turn[w], child[w])

LEMMA StepOnward ==
  ASSUME IInv, [Next]_vars
  PROVE  Onward
  <1>1. CASE UNCHANGED tableVars
    BY <1>1, QuietSteps, QuietOnward DEF IInv
  <1>2. ASSUME NEW j \in Jobs, NEW l \in 1..minted[j], NEW d \in BOOLEAN,
               Store!Extend(j, l) \/ Store!Ack(j, l) \/ Store!Nack(j, l, d)
        PROVE  Onward
    <2>1. CASE Store!Ack(j, l)
      BY <2>1, AckedStep, AckedOnward DEF IInv
    <2>2. CASE Store!Extend(j, l) \/ Store!Nack(j, l, d)
      BY <2>2, QuietSteps, QuietOnward DEF IInv
    <2> QED BY <1>2, <2>1, <2>2
  <1>3. Statement => Onward
    BY <1>1, <1>2, QuietSteps, QuietOnward DEF IInv, Statement
  <1> QED BY <1>1, <1>3, StepIsStatement DEF vars

\* What a step has to do to a turn to leave its lease answered.
Settles(t, c, u, d) ==
  \/ u.pc \notin Over
  \/ /\ t.pc \in Over /\ u.job = t.job /\ u.lease = t.lease /\ u.ending = t.ending
     /\ c.said = "garbled" => d.said = "garbled"
  \/ u.job \in Jobs => ~Fenced(rows'[u.job], u.lease)
  \/ u.ending \notin {"none", "completed"} /\ d.said = "garbled"

LEMMA SettledOK ==
  ASSUME IInv, Onward, NEW w \in Workers, NEW u, NEW d, Answered(turn[w], child[w]),
         Settles(turn[w], child[w], u, d)
  PROVE  Answered(u, d)'
  <1>1. turn[w].job \in Jobs => turn[w].lease \in 1..minted[turn[w].job]
    BY TurnFields DEF WorkerInv, Holding
  <1> QED BY <1>1 DEF Settles, Answered, Onward

\* The fields of a turn after it went on.
LEMMA GoneTo ==
  ASSUME IInv, NEW w \in Workers, NEW pc
  PROVE  /\ Goto(w, pc) => /\ turn'[w].pc = pc /\ turn'[w].job = turn[w].job
                           /\ turn'[w].lease = turn[w].lease
                           /\ turn'[w].ending = turn[w].ending
         /\ \A ending : Decide(w, ending, pc) => turn'[w].pc = pc
  BY DEF IInv, Types, Turn, Goto, Decide

\* The steps of a turn.
LEMMA TurningSettles ==
  ASSUME IInv, NEW w \in Workers, Turning(w)
  PROVE  Settles(turn[w], child[w], turn'[w], child'[w])
  <1>1. CASE RunHalts(w) \/ RunOnce(w) \/ ReservedNothing(w)
    BY <1>1, GoneTo DEF RunHalts, RunOnce, ReservedNothing, At, Settles, Over
  <1>2. CASE Spawn(w) \/ Put(w) \/ WakeBeat(w) \/ KillBegins(w)
    BY <1>2, GoneTo DEF Spawn, Put, WakeBeat, KillBegins, Settles, Over
  <1>3. CASE WakeReported(w) \/ WakeStopping(w) \/ WakeCapped(w) \/ RenewalStale(w)
    BY <1>3, GoneTo DEF WakeReported, WakeStopping, WakeCapped, RenewalStale, Reported, Settles, Over
  <1>4. ASSUME NEW j \in Jobs, Reserved(w, j)
        PROVE  Settles(turn[w], child[w], turn'[w], child'[w])
    <2>1. turn'[w] = [NoTurn EXCEPT !.pc = "spawn", !.job = j, !.lease = minted[j] + 1]
      BY <1>4 DEF IInv, Types, Reserved
    <2>2. turn'[w].pc = "spawn"
      BY <2>1 DEF NoTurn
    <2> QED BY <2>2 DEF Settles, Over
  <1>5. CASE Renewed(w)
    <2>1. turn'[w].pc \in {"term", "watch"}
      BY <1>5 DEF IInv, Types, Turn, Renewed
    <2> QED BY <2>1 DEF Settles, Over
  <1>6. CASE GraceOver(w)
    <2>1. turn'[w] = turn[w] /\ turn[w].pc \notin Over
      BY <1>6 DEF GraceOver, At, Over
    <2> QED BY <2>1 DEF Settles
  <1>7. CASE Killed(w)
    <2>1. turn[w].ending \notin {"none", "completed"}
      BY <1>7, TurnFields DEF WorkerInv, Deciding, Killed, At
    <2> QED BY <1>7, <2>1, GoneTo DEF Killed, Settles, Over
  <1>8. CASE Discard(w)
    <2>1. ~Fenced(rows[turn[w].job], turn[w].lease)
      BY <1>8, TurnFields DEF WorkerInv, Deciding, Lost, Discard, At
    <2>2. rows' = rows
      BY <1>8 DEF Discard, tableVars
    <2> QED BY <1>8, <2>1, <2>2, GoneTo DEF Discard, Settles
  <1>9. CASE Nack(w) \/ Ack(w)
    <2>1. PICK j \in Jobs : j = turn[w].job /\ turn[w].lease \in 1..minted[j]
      BY <1>9, Held DEF Nack, Ack, At
    <2>2. ~Fenced(rows'[j], turn[w].lease)
      <3>1. CASE ~Fenced(rows[j], turn[w].lease) /\ UNCHANGED tableVars
        BY <3>1 DEF tableVars
      <3>2. CASE Store!Nack(j, turn[w].lease, Backoff(w))
        <4>1. Backoff(w) \in BOOLEAN
          BY DEF Backoff
        <4> QED BY <2>1, <3>2, <4>1, QuietSteps DEF IInv
      <3>3. CASE Store!Ack(j, turn[w].lease)
        BY <2>1, <3>3, AckedStep DEF IInv, TableAcked
      <3> QED BY <1>9, <2>1, <3>1, <3>2, <3>3 DEF Nack, Ack
    <2>3. turn'[w].job = j /\ turn'[w].lease = turn[w].lease
      BY <1>9, <2>1, GoneTo DEF Nack, Ack
    <2> QED BY <2>2, <2>3 DEF Settles
  <1>10. CASE Close(w)
    <2>1. /\ turn'[w].job = turn[w].job /\ turn'[w].lease = turn[w].lease
          /\ turn'[w].ending = turn[w].ending
      BY <1>10 DEF IInv, Types, Turn, Close
    <2>2. PICK c : child' = [child EXCEPT ![w] = c] /\ Fades(child[w], c)
      BY <1>10, TerminateMoves DEF Close
    <2>3. child[w].said = "garbled" => child'[w].said = "garbled"
      BY <2>2 DEF IInv, Types, Fades
    <2> QED BY <1>10, <2>1, <2>3 DEF Close, At, Settles, Over
  <1> QED BY <1>1, <1>2, <1>3, <1>4, <1>5, <1>6, <1>7, <1>8, <1>9, <1>10 DEF Turning

\* The failures, without the two that leave a lease to its deadline.
LEMMA FailingSettles ==
  ASSUME IInv, NEW w \in Workers, Failing(w), ~SpawnFails(w), ~NackFails(w), ~AckFails(w)
  PROVE  Settles(turn[w], child[w], turn'[w], child'[w])
  <1>1. CASE ReserveFails(w)
    BY <1>1, GoneTo DEF ReserveFails, At, Settles, Over
  <1>2. CASE Unreachable(w)
    <2>1. turn'[w].pc \in {"term", "watch"}
      BY <1>2, GoneTo DEF Unreachable
    <2> QED BY <2>1 DEF Settles, Over
  <1>3. CASE PutFails(w)
    BY <1>3, GoneTo DEF PutFails, Settles, Over
  <1>4. CASE Crash(w)
    <2>1. turn'[w] = NoTurn
      BY <1>4 DEF IInv, Types, Crash
    <2>2. turn'[w].job = NoJob
      BY <2>1 DEF NoTurn
    <2> QED BY <2>2 DEF Settles
  <1> QED BY <1>1, <1>2, <1>3, <1>4 DEF Failing

\* The turn stays, or only one of its clocks is set.
LEMMA StayingSettles ==
  ASSUME IInv, NEW w \in Workers,
         Childs(w) \/ CapPasses(w) \/ DeadlinePasses(w)
  PROVE  turn'[w].pc \in Over => Settles(turn[w], child[w], turn'[w], child'[w])
  <1>1. CASE Childs(w)
    <2>1. turn' = turn
      BY <1>1 DEF Childs, ChildReports, ChildGarbles, ChildDies, ChildReaped
    <2>2. child[w].said = "garbled" => child'[w].said = "garbled"
      BY <1>1 DEF IInv, Types, Child, Childs, ChildReports, ChildGarbles, ChildDies, Dies,
                  ChildReaped, SolverOutcome
    <2> QED BY <2>1, <2>2 DEF Settles
  <1>2. CASE CapPasses(w) \/ DeadlinePasses(w)
    <2>1. turn'[w].pc = turn[w].pc /\ turn[w].pc \notin Over
      BY <1>2 DEF IInv, Types, Turn, CapPasses, DeadlinePasses, At, Over
    <2> QED BY <2>1
  <1> QED BY <1>1, <1>2

\* A step leaves every other worker's turn and child.
LEMMA OthersStay ==
  ASSUME IInv, NEW w \in Workers, NEW v \in Workers \ {w},
         Turning(w) \/ Failing(w) \/ Childs(w) \/ CapPasses(w) \/ DeadlinePasses(w)
  PROVE  turn'[v] = turn[v] /\ child'[v] = child[v]
  <1>1. \E t : turn' = [turn EXCEPT ![w] = t]
    <2>1. turn = [turn EXCEPT ![w] = turn[w]]
      BY DEF IInv, Types
    <2>2. CASE Turning(w)
      <3>1. CASE Renewed(w)
        <4>1. \E pc, ending :
                turn' = [turn EXCEPT ![w].spent = FALSE, ![w].pc = pc, ![w].ending = ending]
          BY <3>1 DEF Renewed
        <4> QED BY <4>1, RenewedFields
      <3>2. CASE Close(w) \/ GraceOver(w) \/ \E j \in Jobs : Reserved(w, j)
        BY <2>1, <3>2, ClosedFields DEF Close, GraceOver, Reserved
      <3>3. CASE (\E pc : Goto(w, pc)) \/ \E pc, ending : Decide(w, ending, pc)
        BY <3>3, TurnFields
      <3> QED BY <2>2, <3>1, <3>2, <3>3
      DEF Turning, RunHalts, RunOnce, ReservedNothing, Spawn, WakeReported, WakeStopping,
          WakeCapped, WakeBeat, RenewalStale, KillBegins, Killed, Discard, Nack, Put, Ack
    <2>3. CASE Failing(w)
      BY <2>1, <2>3, TurnFields DEF Failing, ReserveFails, SpawnFails, Unreachable, PutFails,
          NackFails, AckFails, Crash
    <2>4. CASE Childs(w)
      BY <2>1, <2>4 DEF Childs, ChildReports, ChildGarbles, ChildDies, ChildReaped
    <2>5. CASE CapPasses(w) \/ DeadlinePasses(w)
      BY <2>5, ClockFields DEF CapPasses, DeadlinePasses
    <2> QED BY <2>2, <2>3, <2>4, <2>5
  <1>2. \E c : child' = [child EXCEPT ![w] = c]
    <2>1. child = [child EXCEPT ![w] = child[w]]
      BY DEF IInv, Types
    <2>2. Dies(w) \/ Terminate(w) => \E c : child' = [child EXCEPT ![w] = c]
      BY DiesMoves, TerminateMoves
    <2>3. CASE Turning(w)
      BY <2>1, <2>2, <2>3
      DEF Turning, RunHalts, RunOnce, ReservedNothing, Spawn, Reserved, WakeReported, WakeStopping,
          WakeCapped, WakeBeat, Renewed, RenewalStale, KillBegins, GraceOver, Killed, Discard,
          Nack, Put, Ack, Close
    <2>4. CASE Failing(w)
      BY <2>1, <2>4 DEF Failing, ReserveFails, SpawnFails, Unreachable, PutFails,
          NackFails, AckFails, Crash
    <2>5. CASE Childs(w)
      BY <2>2, <2>5, ChildFields DEF Childs, ChildReports, ChildGarbles, ChildDies, ChildReaped
    <2>6. CASE CapPasses(w) \/ DeadlinePasses(w)
      BY <2>1, <2>6 DEF CapPasses, DeadlinePasses
    <2> QED BY <2>3, <2>4, <2>5, <2>6
  <1> QED BY <1>1, <1>2 DEF IInv, Types

\* When a worker looks for the next job, the row of the last one does not wait for it,
\* unless what its child said could not be read while it was being stopped.
THEOREM EveryLeaseAnsweredHolds ==
  ASSUME MaxFaults["spawn"] = 0, MaxFaults["report"] = 0
  PROVE  Spec => []EveryLeaseAnswered
  <1>1. Init => AllAnswered
    <2>1. Init => \A w \in Workers : turn[w].job = NoJob
      BY DEF Init, NoTurn
    <2> QED BY <2>1 DEF AllAnswered, Answered
  <1>2. IInv /\ AllAnswered /\ [Next]_vars => AllAnswered'
    <2> SUFFICES ASSUME IInv, AllAnswered, [Next]_vars, NEW v \in Workers
                 PROVE  Answered(turn[v], child[v])'
      BY DEF AllAnswered
    <2>1. Onward /\ Answered(turn[v], child[v])
      BY StepOnward DEF AllAnswered
    <2>2. PICK u, d : u = turn'[v] /\ d = child'[v]
      OBVIOUS
    <2>3. Settles(turn[v], child[v], u, d) => Answered(turn[v], child[v])'
      <3>1. Settles(turn[v], child[v], u, d) => Answered(u, d)'
        BY <2>1, SettledOK
      <3> QED BY <2>2, <3>1 DEF Answered
    <2>4. CASE turn'[v] = turn[v] /\ child'[v] = child[v]
      BY <2>2, <2>3, <2>4 DEF Settles
    <2>5. ASSUME NEW w \in Workers,
                 Turning(w) \/ Failing(w) \/ Childs(w) \/ CapPasses(w) \/ DeadlinePasses(w)
          PROVE  Answered(turn[v], child[v])'
      <3>1. CASE v # w
        BY <2>4, <2>5, <3>1, OthersStay
      <3>2. CASE v = w
        <4>1. ~SpawnFails(w) /\ ~NackFails(w) /\ ~AckFails(w)
          BY DEF IInv, Types, SpawnFails, NackFails, AckFails, Fault, FaultKinds
        <4>2. u.pc \in Over => Settles(turn[v], child[v], u, d)
          BY <2>2, <2>5, <3>2, <4>1, TurningSettles, FailingSettles, StayingSettles
        <4>3. u.pc \notin Over => Settles(turn[v], child[v], u, d)
          BY DEF Settles
        <4> QED BY <2>3, <4>2, <4>3
      <3> QED BY <3>1, <3>2
    <2>6. CASE UNCHANGED <<turn, child>>
      BY <2>4, <2>6
    <2> QED BY <2>5, <2>6 DEF Next, vars, Stop, Enqueue, Environment
  <1>3. IInv /\ AllAnswered => EveryLeaseAnswered
    BY TurnFields DEF IInv, AllAnswered, Answered, Over, EveryLeaseAnswered, BetweenTurns, Unreadable,
                      WorkerInv, Turn
  <1> QED BY <1>1, <1>2, <1>3, InvHolds, PTL DEF Spec

=============================================================================
