-------------------------- MODULE NoJobLost_proofs --------------------------
(***************************************************************************)
(* Proof that the queue loses no job, as long as a job that was given back *)
(* is published again by whoever gave it back, and the broker drops        *)
(* nothing.  Both are needed: a process that goes down between its nack    *)
(* and its publish leaves a row that only mark_published FALSE protects,   *)
(* and a mark that comes late takes that away.  A job that was never tried *)
(* needs only the second: its message does not hang on a process.          *)
(***************************************************************************)
EXTENDS JobQueue_proofs

USE QueueAssumption
USE DEF Procs, NoLease, Store!NoLease, Table!NoLease,
        Store!JobState, Store!RunAfter, Store!ErrorText, Store!Terminal,
        Table!JobState, Table!RunAfter, Table!ErrorText, Table!Terminal

\* Whoever gives a job back goes on to publish it.
NackIsPublished ==
  /\ \A p \in Procs :
       task[p].pc \in {"settle_publish", "publish"}
         => task'[p].pc \in {"settle_publish", "publish", "mark"}
  /\ \A j \in Jobs :
       rows[j].state # "failed" /\ rows'[j].state = "failed"
         => \E p \in Procs : /\ task[p].pc # "settle_publish"
                             /\ task'[p].pc = "settle_publish" /\ task'[p].job = j

\* The channel of p closes.
Closing(p) == Crash(p) \/ Blip(p) \/ (p \in Producers /\ Close(p))

\* It has no message that the broker would not take back once more.
Spared(p) == \A m \in Message : Counting /\ m.returns = DeliveryLimit => unacked[p][m] = 0

NothingDropped == \A p \in Procs : Closing(p) => Spared(p)

-----------------------------------------------------------------------------
(* The invariant.                                                          *)

\* A message that the broker has for the channel beside the one behind the claim.
Free(u, h, m) == u[m] > One(Behind(h, m))

\* It is on the work queue or in a channel, and will be looked at.
Has(m) == work[m] > 0 \/ \E p \in Procs : Free(unacked[p], held[p], m)

Loose(j) == \E m \in Message : m.job = j /\ Has(m)

Offers(t, j) == t.pc \in {"settle_publish", "publish"} /\ t.job = j

Parked(j) == \E m \in parked : m.job = j

\* It is parked, or a task is about to send it.
Sent(j) == Parked(j) \/ \E p \in Procs : Offers(task[p], j)

\* It will not reach a consumer before the run_after that follows attempt a.
Ahead(j, a) ==
  \/ [job |-> j, after |-> a] \in parked
  \/ \E p \in Procs : Offers(task[p], j) /\ task[p].delay /\ task[p].lease = a

Idling(r) == r.state \in {"queued", "failed"}

Later(r) == Idling(r) /\ r.run_after = "later"

\* The maintenance loop does not look for it, or soon will not.
Owed(j) == \/ rows[j].state = "failed"
           \/ rows[j].state = "queued" /\ (rows[j].published \/ Marking(j))

\* There is a message for it, and if it may not be claimed yet, one that comes no
\* earlier than it may: every other could be refused.
Tokens ==
  \A j \in Jobs :
    Owed(j) => /\ Loose(j) \/ Sent(j)
               /\ Later(rows[j]) => Ahead(j, rows[j].attempts)

\* Only a nack makes a job wait again.
NewUntried == \A j \in Jobs : rows[j].state = "queued" => rows[j].attempts = 0

\* The jobs that a pass is about to publish or to mark.
Swept(s) == CASE s.pc = "unpublished" -> s.todo
              [] s.pc = "mark" -> s.todo \cup {s.job}
              [] OTHER -> {}

\* What is about to be published, or marked, has a row, and one that was enqueued for
\* later is not published at once.
Told ==
  /\ \A p \in Producers :
       /\ producer[p].pc \in {"publish", "mark"} => Exists(rows[producer[p].job])
       /\ producer[p].pc = "publish" /\ Later(rows[producer[p].job])
            /\ rows[producer[p].job].state = "queued" => producer[p].delay
  /\ \A p \in Procs : task[p].pc = "mark" => Exists(rows[task[p].job])
  /\ \A p \in Procs : \A j \in Swept(sweep[p]) :
       Exists(rows[j]) /\ ~(Later(rows[j]) /\ rows[j].state = "queued")

LostInv == Tokens /\ NewUntried /\ Told

\* A job that was never tried owes its message to the broker alone: no task has to live
\* for it.
NewOwed(j) == rows[j].state = "queued" /\ (rows[j].published \/ Marking(j))

NewTokens ==
  \A j \in Jobs :
    NewOwed(j) => /\ Loose(j) \/ Parked(j)
                  /\ Later(rows[j]) => [job |-> j, after |-> 0] \in parked

NewInv == NewTokens /\ NewUntried /\ Told

-----------------------------------------------------------------------------
(* The messages at the broker and in the channels.                         *)

LEMMA HasMore ==
  ASSUME IInv, \A m \in Message : work'[m] >= work[m],
         BrokerTypes', NEW m \in Message,
         \A p \in Procs : Free(unacked[p], held[p], m) => Free(unacked'[p], held'[p], m),
         Has(m)
  PROVE  Has(m)'
  <1>1. work[m] \in Nat /\ work'[m] \in Nat /\ work'[m] >= work[m]
    BY DEF IInv, Types, BrokerTypes
  <1> QED BY <1>1 DEF Has

\* What is behind a claim goes with it: the other messages stay.
LEMMA FreeRelease ==
  ASSUME NEW u \in [Message -> Nat], NEW h \in [Jobs -> Hold], NEW j \in Jobs,
         NEW v, NEW g, NEW m \in Message,
         v = [u EXCEPT ![Held(j, h[j])] = IF h[j].live THEN @ - 1 ELSE @],
         g = [h EXCEPT ![j] = NotHeld],
         Free(u, h, m)
  PROVE  Free(v, g, m)
  <1>1. PICK c \in Hold : c = h[j]
    OBVIOUS
  <1>2. m.job \in Jobs /\ (m = Held(j, c) <=> m.job = j /\ m.returns = c.returns)
    BY MessageIs DEF Message, Held
  <1>3. v[m] = IF m = Held(j, c) /\ c.live THEN u[m] - 1 ELSE u[m]
    BY <1>1
  <1>4. g[m.job] = IF m.job = j THEN NotHeld ELSE h[m.job]
    BY <1>2
  <1>5. u[m] \in Nat /\ u[m] > One(Behind(h, m))
    BY DEF Free
  <1>6. CASE m.job # j
    BY <1>2, <1>3, <1>4, <1>5, <1>6 DEF Free, Behind, One
  <1>7. CASE m.job = j
    <2>1. ~Behind(g, m)
      BY <1>4, <1>7, NotHeldType DEF Behind
    <2>2. Behind(h, m) <=> m = Held(j, c) /\ c.live
      BY <1>1, <1>2, <1>7 DEF Behind
    <2>3. v[m] > 0
      BY <1>3, <1>5, <2>2 DEF One
    <2> QED BY <2>1, <2>3 DEF Free, One
  <1> QED BY <1>6, <1>7

LEMMA FreeRetire ==
  ASSUME NEW u \in [Message -> Nat], NEW h \in [Jobs -> Hold], NEW some \in SUBSET Jobs,
         NEW v, NEW g, NEW m \in Message,
         g[m.job] = IF m.job \in some THEN NotHeld ELSE h[m.job],
         v[m] = IF m.job \in some /\ m = Held(m.job, h[m.job]) /\ h[m.job].live
                THEN u[m] - 1 ELSE u[m],
         Free(u, h, m)
  PROVE  Free(v, g, m)
  <1>1. m.job \in Jobs
    BY DEF Message
  <1>2. PICK c \in Hold : c = h[m.job]
    BY <1>1
  <1>3. m = Held(m.job, c) <=> m.returns = c.returns
    BY MessageIs DEF Held
  <1>4. v[m] = IF m.job \in some /\ m = Held(m.job, c) /\ c.live THEN u[m] - 1 ELSE u[m]
    BY <1>2
  <1>5. g[m.job] = IF m.job \in some THEN NotHeld ELSE h[m.job]
    OBVIOUS
  <1>6. u[m] \in Nat /\ u[m] > One(Behind(h, m))
    BY DEF Free
  <1>7. CASE m.job \notin some
    BY <1>4, <1>5, <1>6, <1>7 DEF Free, Behind, One
  <1>8. CASE m.job \in some
    <2>1. ~Behind(g, m)
      BY <1>5, <1>8, NotHeldType DEF Behind
    <2>2. Behind(h, m) <=> m = Held(m.job, c) /\ c.live
      BY <1>2, <1>3 DEF Behind
    <2>3. v[m] > 0
      BY <1>4, <1>6, <1>8, <2>2 DEF One
    <2> QED BY <2>1, <2>3 DEF Free, One
  <1> QED BY <1>7, <1>8

\* A release keeps what is beside the claim.
LEMMA ReleaseKeeps ==
  ASSUME IInv, NEW p \in Procs, NEW j \in Jobs, NEW l, Release(p, j, l),
         NEW q \in Procs, NEW m \in Message, Free(unacked[q], held[q], m)
  PROVE  Free(unacked'[q], held'[q], m)
  <1>0. /\ unacked \in [Procs -> [Message -> Nat]] /\ held \in [Procs -> [Jobs -> Hold]]
    BY DEF IInv, Types
  <1>1. CASE UNCHANGED <<held, unacked>>
    BY <1>1
  <1>2. CASE /\ held' = [held EXCEPT ![p][j] = NotHeld]
             /\ Settle(p, Held(j, held[p][j]), held[p][j].live)
    <2>1. PICK n : n = Held(j, held[p][j])
      OBVIOUS
    <2>2. CASE q # p
      BY <1>0, <1>2, <2>1, <2>2 DEF Settle
    <2>3. CASE q = p
      <3>1. /\ held'[p] = [held[p] EXCEPT ![j] = NotHeld]
            /\ unacked'[p] = [unacked[p] EXCEPT ![n] = IF held[p][j].live THEN @ - 1 ELSE @]
        BY <1>0, <1>2, <2>1 DEF Settle
      <3>2. unacked[p] \in [Message -> Nat] /\ held[p] \in [Jobs -> Hold]
        BY <1>0
      <3> QED BY <2>1, <2>3, <3>1, <3>2, FreeRelease
    <2> QED BY <2>2, <2>3
  <1> QED BY <1>1, <1>2 DEF Release

LEMMA RetireKeeps ==
  ASSUME IInv, NEW p \in Procs, SweepRetire(p),
         NEW q \in Procs, NEW m \in Message, Free(unacked[q], held[q], m)
  PROVE  Free(unacked'[q], held'[q], m)
  <1>0. /\ unacked \in [Procs -> [Message -> Nat]] /\ held \in [Procs -> [Jobs -> Hold]]
    BY DEF IInv, Types
  <1>1. PICK some \in SUBSET Jobs : some = {j \in Found(Retirable) : held[p][j] # NotHeld}
    BY DEF Found
  <1>2. /\ held' = [held EXCEPT ![p] = [j \in Jobs |->
                      IF j \in some THEN NotHeld ELSE held[p][j]]]
        /\ unacked' = [unacked EXCEPT ![p] = [n \in Message |->
                         IF /\ n.job \in some
                            /\ n = Held(n.job, held[p][n.job]) /\ held[p][n.job].live
                         THEN unacked[p][n] - 1 ELSE unacked[p][n]]]
    BY <1>0, <1>1 DEF SweepRetire
  <1>3. CASE q # p
    BY <1>0, <1>2, <1>3
  <1>4. CASE q = p
    <2>1. PICK u \in [Message -> Nat], h \in [Jobs -> Hold] :
             u = unacked[p] /\ h = held[p]
      BY <1>0
    <2>2. PICK v, g : v = unacked'[p] /\ g = held'[p]
      OBVIOUS
    <2>3. g[m.job] = IF m.job \in some THEN NotHeld ELSE h[m.job]
      BY <1>0, <1>2, <2>1, <2>2 DEF Message
    <2>4. v[m] = IF m.job \in some /\ m = Held(m.job, h[m.job]) /\ h[m.job].live
                 THEN u[m] - 1 ELSE u[m]
      BY <1>0, <1>2, <2>1, <2>2
    <2>5. Free(v, g, m)
      BY <1>4, <2>1, <2>3, <2>4, FreeRetire
    <2> QED BY <1>4, <2>2, <2>5
  <1> QED BY <1>3, <1>4

\* What a channel gives back is on the work queue, if the broker takes it.
LEMMA RequeueKeeps ==
  ASSUME IInv, NEW p \in Procs, Requeue(p), parked' = parked, Spared(p),
         \A q \in Procs \ {p} : held'[q] = held[q],
         NEW j \in Jobs, NEW m \in Message, m.job = j, Has(m)
  PROVE  Loose(j)'
  <1>0. /\ work \in [Message -> Nat] /\ unacked \in [Procs -> [Message -> Nat]]
        /\ work' \in [Message -> Nat]
    BY RequeueTypes DEF IInv, Types, BrokerTypes
  <1>1. ASSUME NEW n \in Message, n.job = j, work'[n] > 0 PROVE Loose(j)'
    BY <1>1 DEF Loose, Has
  <1>2. CASE work[m] > 0
    <2>1. CASE ~Counting
      <3>1. work'[m] = work[m] + unacked[p][m]
        BY <2>1 DEF Requeue
      <3> QED BY <1>0, <1>1, <1>2, <3>1
    <2>2. CASE Counting /\ m.returns = 0
      <3>1. work'[m] = work[m] + 0
        BY <2>2 DEF Requeue
      <3> QED BY <1>0, <1>1, <1>2, <3>1
    <2>3. CASE Counting /\ m.returns # 0
      <3>1. PICK n \in Message : n = [m EXCEPT !.returns = @ - 1]
        BY <2>3, ReturnType
      <3>2. work'[m] = work[m] + unacked[p][n]
        BY <2>3, <3>1 DEF Requeue
      <3> QED BY <1>0, <1>1, <1>2, <3>2
    <2> QED BY <2>1, <2>2, <2>3
  <1>3. CASE unacked[p][m] > 0
    <2>1. CASE ~Counting
      <3>1. work'[m] = work[m] + unacked[p][m]
        BY <2>1 DEF Requeue
      <3> QED BY <1>0, <1>1, <1>3, <3>1
    <2>2. CASE Counting
      <3>1. m.returns # DeliveryLimit
        BY <1>3, <2>2 DEF Spared
      <3>2. PICK n \in Message : /\ n.job = j /\ n.returns # 0
                                 /\ m = [n EXCEPT !.returns = @ - 1]
        <4>1. PICK r \in 0..DeliveryLimit : r = m.returns + 1 /\ r # 0 /\ r - 1 = m.returns
          BY <3>1 DEF Message
        <4>2. PICK n : n = [job |-> j, returns |-> r]
          OBVIOUS
        <4>3. n \in Message /\ n.job = j /\ n.returns # 0
          BY <4>1, <4>2 DEF Message
        <4>4. [n EXCEPT !.returns = @ - 1] = [job |-> j, returns |-> m.returns]
          BY <4>1, <4>2
        <4> QED BY <4>3, <4>4, MessageIs
      <3>3. work'[n] = work[n] + unacked[p][m]
        BY <2>2, <3>2 DEF Requeue
      <3> QED BY <1>0, <1>1, <1>3, <3>2, <3>3
    <2> QED BY <2>1, <2>2
  <1>4. ASSUME NEW q \in Procs \ {p}, Free(unacked[q], held[q], m) PROVE Loose(j)'
    <2>1. unacked'[q] = unacked[q] /\ held'[q] = held[q]
      BY <1>0 DEF Requeue
    <2> QED BY <1>4, <2>1 DEF Loose, Has
  <1>5. Free(unacked[p], held[p], m) => unacked[p][m] > 0
    BY <1>0 DEF Free, One
  <1> QED BY <1>2, <1>3, <1>4, <1>5 DEF Has

LEMMA DeliverKeeps ==
  ASSUME IInv, NEW p \in Procs, NEW n \in Message, Deliver(p, n), NEW m \in Message, Has(m)
  PROVE  Has(m)'
  <1>0. /\ work \in [Message -> Nat] /\ unacked \in [Procs -> [Message -> Nat]]
        /\ held' = held
    BY DEF IInv, Types, Deliver
  <1>1. /\ work' = [work EXCEPT ![n] = @ - 1]
        /\ unacked' = [unacked EXCEPT ![p][n] = @ + 1]
    BY DEF Deliver
  <1>2. ASSUME NEW q \in Procs, Free(unacked[q], held[q], m) PROVE Has(m)'
    <2>1. unacked'[q][m] >= unacked[q][m] /\ unacked[q][m] \in Nat /\ unacked'[q][m] \in Nat
      BY <1>0, <1>1
    <2>2. Free(unacked'[q], held'[q], m)
      BY <1>0, <1>2, <2>1 DEF Free, One
    <2> QED BY <2>2 DEF Has
  <1>3. CASE work[m] > 0 /\ m # n
    BY <1>0, <1>1, <1>3 DEF Has
  <1>4. CASE m = n
    <2>1. unacked'[p][m] = unacked[p][m] + 1 /\ unacked[p][m] \in Nat
      BY <1>0, <1>1, <1>4
    <2>2. unacked[p][m] >= Known(incoming[p], held[p], task[p], m)
      BY DEF IInv, Covered, Covers
    <2>3. /\ Cardinality(Where(incoming[p], Alive(m))) \in Nat
          /\ One(Taken(task[p], m)) \in {0, 1} /\ One(Behind(held[p], m)) \in {0, 1}
      BY KnownType DEF IInv, Types
    <2>4. unacked'[p][m] > One(Behind(held[p], m))
      BY <2>1, <2>2, <2>3 DEF Known
    <2> QED BY <1>0, <2>4 DEF Has, Free
  <1> QED BY <1>2, <1>3, <1>4 DEF Has

\* A claim and a refusal are about the messages of one job.
LEMMA ReserveKeeps ==
  ASSUME IInv, NEW p \in Procs, ReserveClaims(p) \/ ReserveRefused(p),
         NEW m \in Message, m.job # task[p].message.job, Has(m)
  PROVE  Has(m)'
  <1>0. /\ unacked \in [Procs -> [Message -> Nat]] /\ held \in [Procs -> [Jobs -> Hold]]
        /\ work' = work /\ m.job \in Jobs
    BY DEF IInv, Types, ReserveClaims, ReserveRefused, brokerVars, Message
  <1>1. PICK n \in Message : n = task[p].message
    BY ClaimingIs DEF ReserveClaims, ReserveRefused
  <1>2. ASSUME NEW q \in Procs
        PROVE  unacked'[q][m] = unacked[q][m] /\ held'[q][m.job] = held[q][m.job]
    <2>1. CASE ReserveClaims(p)
      <3>1. PICK c : held' = [held EXCEPT ![p][n.job] = c] /\ unacked' = unacked
        BY <1>1, <2>1 DEF ReserveClaims, brokerVars
      <3> QED BY <1>0, <1>1, <3>1
    <2>2. CASE ReserveRefused(p)
      BY <1>0, <1>1, <2>2 DEF ReserveRefused, Settle, localVars
    <2> QED BY <2>1, <2>2
  <1> QED BY <1>0, <1>2 DEF Has, Free, Behind

\* What is published is where it was sent to, and nothing is taken away.
LEMMA PublishAdds ==
  ASSUME IInv, NEW j \in Jobs, NEW delay, NEW after \in Nat, Publish(j, delay, after)
  PROVE  /\ BrokerTypes' /\ parked \subseteq parked'
         /\ \A m \in Message : work'[m] >= work[m]
         /\ delay => [job |-> j, after |-> after] \in parked'
         /\ ~delay => work'[Fresh(j)] > 0 /\ Fresh(j) \in Message /\ Fresh(j).job = j
  <1>1. BrokerTypes
    BY DEF IInv, Types, BrokerTypes
  <1>2. BrokerTypes'
    BY <1>1, PublishTypes
  <1>3. Fresh(j) \in Message /\ Fresh(j).job = j
    BY FreshType DEF Fresh
  <1>4. CASE delay
    BY <1>1, <1>2, <1>3, <1>4 DEF Publish, BrokerTypes
  <1>5. CASE ~delay
    <2>1. work' = [work EXCEPT ![Fresh(j)] = @ + 1] /\ parked' = parked
      BY <1>5 DEF Publish
    <2> QED BY <1>1, <1>2, <1>3, <1>5, <2>1 DEF BrokerTypes
  <1> QED BY <1>4, <1>5

\* The steps that leave the channels alone, and take no message from the work queue.
LEMMA StillKeeps ==
  ASSUME IInv, UNCHANGED <<unacked, held>>, NEW m \in Message, Has(m),
         work' = work \/ \E j \in Jobs, delay \in BOOLEAN, after \in Nat : Publish(j, delay, after)
  PROVE  Has(m)'
  <1>1. CASE work' = work
    BY <1>1 DEF Has
  <1>2. ASSUME NEW j \in Jobs, NEW delay \in BOOLEAN, NEW after \in Nat, Publish(j, delay, after)
        PROVE  Has(m)'
    BY <1>2, PublishAdds, HasMore
  <1> QED BY <1>1, <1>2

LEMMA HasStep ==
  ASSUME IInv, NothingDropped, Next, NEW j \in Jobs, NEW m \in Message, m.job = j, Has(m)
  PROVE  \/ Loose(j)'
         \/ \E p \in Workers : /\ ReserveClaims(p) \/ ReserveRefused(p)
                               /\ task[p].message.job = j
  <1> USE DEF brokerVars, localVars
  <1>0. Has(m)' => Loose(j)'
    BY DEF Loose
  <1>1. ASSUME NEW n \in parked, ParkingOver(n) PROVE Has(m)'
    <2>1. n.job \in Jobs /\ work \in [Message -> Nat] /\ parked \subseteq [job : Jobs, after : Nat]
      BY DEF IInv, Types
    <2>2. /\ work' = [work EXCEPT ![Fresh(n.job)] = @ + 1] /\ UNCHANGED <<unacked, held>>
          /\ BrokerTypes'
      BY <1>1, <2>1, FreshType DEF ParkingOver, BrokerTypes
    <2>3. \A k \in Message : work'[k] >= work[k]
      BY <2>1, <2>2
    <2> QED BY <2>2, <2>3, HasMore
  <1>2. ASSUME NEW p \in Procs, NEW n \in Message, Deliver(p, n) PROVE Has(m)'
    BY <1>2, DeliverKeeps
  <1>3. ASSUME NEW p \in Producers, Enqueueing(p) \/ GiveUp(p) PROVE Has(m)' \/ Loose(j)'
    <2>1. CASE EnqueuePublish(p)
      BY <2>1, ProducerIs, StillKeeps DEF EnqueuePublish
    <2>2. CASE Close(p)
      <3>1. Spared(p)
        BY <2>2 DEF NothingDropped, Closing
      <3> QED BY <2>2, <3>1, RequeueKeeps DEF Close
    <2>3. CASE EnqueueMark(p) \/ \E k \in Jobs : \/ EnqueueDuplicate(p, k)
                                                \/ \E max \in Limits, delay \in Delays :
                                                     EnqueueInsert(p, k, max, delay)
      BY <2>3, StillKeeps DEF EnqueueMark, EnqueueDuplicate, EnqueueInsert
    <2> QED BY <1>3, <2>1, <2>2, <2>3 DEF Enqueueing, FollowEnds, GiveUp
  <1>4. ASSUME NEW p \in Workers, Consuming(p), ~ReserveClaims(p), ~ReserveRefused(p)
        PROVE  Has(m)'
    <2>1. CASE NackPublish(p)
      <3>1. task[p].job \in Jobs /\ task[p].lease \in Nat /\ task[p].delay \in BOOLEAN
        <4>1. task[p] \in Offering
          BY <2>1, TaskIs DEF NackPublish, IInv, Types
        <4> QED BY <4>1 DEF Offering
      <3> QED BY <2>1, <3>1, StillKeeps DEF NackPublish
    <2>2. CASE ReserveNext(p) \/ NackMark(p)
      BY <2>2, StillKeeps DEF ReserveNext, NackMark
    <2>3. CASE SettleFinished(p)
      <3>1. Release(p, task[p].job, task[p].lease) /\ task[p].job \in Jobs /\ work' = work
        BY <2>3, WorkingIs DEF SettleFinished, HasLease
      <3> QED BY <3>1, ReleaseKeeps DEF Has
    <2> QED BY <1>4, <2>1, <2>2, <2>3 DEF Consuming
  <1>5. ASSUME NEW p \in Workers, ExtendLease(p) \/ Finishing(p) PROVE Has(m)'
    <2>1. CASE DiscardStale(p)
      <3>1. Release(p, task[p].job, task[p].lease) /\ task[p].job \in Jobs /\ work' = work
        BY <2>1, WorkingIs DEF DiscardStale, Working, HasLease
      <3> QED BY <3>1, ReleaseKeeps DEF Has
    <2>2. CASE ExtendLease(p) \/ AckRow(p) \/ \E delay \in Delays : NackRow(p, delay)
      BY <2>2, StillKeeps DEF ExtendLease, AckRow, NackRow
    <2> QED BY <1>5, <2>1, <2>2 DEF Finishing
  <1>6. ASSUME NEW p \in Procs, Maintaining(p) PROVE Has(m)'
    <2>1. CASE SweepRetire(p)
      <3>1. work' = work
        BY <2>1 DEF SweepRetire
      <3> QED BY <2>1, <3>1, RetireKeeps DEF Has
    <2>2. CASE SweepFindOrphans(p) \/ SweepMark(p)
      BY <2>2, StillKeeps DEF SweepFindOrphans, SweepMark
    <2>3. ASSUME NEW k \in Jobs, SweepLapsed(p, k) PROVE Has(m)'
      <3>1. /\ BrokerTypes' /\ \A n \in Message : work'[n] >= work[n]
        <4>1. CASE k \in republished[p]
          BY <2>3, <4>1 DEF SweepLapsed, IInv, Types, BrokerTypes
        <4>2. CASE k \notin republished[p]
          BY <2>3, <4>2, PublishAdds DEF SweepLapsed
        <4> QED BY <4>1, <4>2
      <3>2. Release(p, k, NoLease)
        BY <2>3 DEF SweepLapsed
      <3>3. \A q \in Procs : Free(unacked[q], held[q], m) => Free(unacked'[q], held'[q], m)
        BY <3>2, ReleaseKeeps
      <3> QED BY <3>1, <3>3, HasMore
    <2>4. ASSUME NEW k \in Jobs, SweepPublish(p, k) PROVE Has(m)'
      BY <2>4, StillKeeps DEF SweepPublish
    <2> QED BY <1>6, <2>1, <2>2, <2>3, <2>4 DEF Maintaining
  <1>7. ASSUME NEW p \in Procs, Failing(p) PROVE Has(m)' \/ Loose(j)'
    <2>1. CASE SweepFails(p)
      <3>1. work' = work
        BY <2>1 DEF SweepFails
      <3>2. ASSUME NEW k \in sweep[p].todo, sweep[p].pc = "lapsed", Release(p, k, NoLease)
            PROVE  Has(m)'
        <4>1. k \in Jobs
          BY <3>2, SweepIs
        <4> QED BY <3>1, <3>2, <4>1, ReleaseKeeps DEF Has
      <3> QED BY <2>1, <3>1, <3>2, StillKeeps DEF SweepFails
    <2>2. CASE Crash(p)
      <3>1. \A q \in Procs \ {p} : held'[q] = held[q]
        BY <2>2, HeldFewer
      <3>2. Spared(p)
        BY <2>2 DEF NothingDropped, Closing
      <3> QED BY <2>2, <3>1, <3>2, RequeueKeeps DEF Crash
    <2>3. CASE Blip(p)
      <3>1. \A q \in Procs \ {p} : held'[q] = held[q]
        BY <2>3, HeldFewer
      <3>2. Spared(p)
        BY <2>3 DEF NothingDropped, Closing
      <3> QED BY <2>3, <3>1, <3>2, RequeueKeeps DEF Blip
    <2>4. CASE \/ ReserveFails(p) \/ SpawnFails(p) \/ NackPublishFails(p)
               \/ \E delay \in Delays : FinishFails(p, delay)
      BY <2>4, StillKeeps DEF ReserveFails, SpawnFails, NackPublishFails, FinishFails
    <2> QED BY <1>7, <2>1, <2>2, <2>3, <2>4 DEF Failing
  <1>8. ASSUME NEW k \in Jobs, ClientCancels(k) \/ Clock(k) PROVE Has(m)'
    BY <1>8, StillKeeps DEF ClientCancels, Clock
  <1>9. ASSUME NEW p \in Procs, NEW k \in Jobs, QuietOver(p, k) PROVE Has(m)'
    BY <1>9, StillKeeps DEF QuietOver
  <1>10. ASSUME NEW p \in Workers, ReserveClaims(p) \/ ReserveRefused(p), ~Has(m)'
         PROVE  task[p].message.job = j
    BY <1>10, ReserveKeeps
  <1>11. ASSUME NEW p \in Workers, Consuming(p), ~Has(m)'
         PROVE  /\ ReserveClaims(p) \/ ReserveRefused(p)
                /\ task[p].message.job = j
    BY <1>4, <1>10, <1>11
  <1> QED BY <1>0, <1>1, <1>2, <1>3, <1>5, <1>6, <1>7, <1>8, <1>9, <1>11 DEF Next

-----------------------------------------------------------------------------
(* The messages that are parked, or still to be sent.                      *)

LEMMA ParkedStep ==
  ASSUME IInv, Next, NEW m \in parked
  PROVE  m \in parked' \/ ParkingOver(m)
  <1> USE DEF brokerVars, localVars
  <1>1. ASSUME NEW n \in parked, ParkingOver(n) PROVE m \in parked' \/ ParkingOver(m)
    BY <1>1 DEF ParkingOver
  <1>2. ASSUME NEW p \in Procs, NEW n \in Message, Deliver(p, n) PROVE m \in parked'
    BY <1>2 DEF Deliver
  <1>3. ASSUME NEW p \in Producers, Enqueueing(p) \/ GiveUp(p) PROVE m \in parked'
    <2>1. CASE EnqueuePublish(p)
      BY <2>1, ProducerIs, PublishAdds DEF EnqueuePublish
    <2> QED BY <1>3, <2>1 DEF Enqueueing, EnqueueInsert, EnqueueDuplicate, EnqueueMark,
            FollowEnds, GiveUp, Close
  <1>4. ASSUME NEW p \in Workers, Consuming(p) PROVE m \in parked'
    <2>1. CASE NackPublish(p)
      BY <2>1, WorkingIs, PublishAdds DEF NackPublish, HasLease
    <2> QED BY <1>4, <2>1 DEF Consuming, ReserveNext, ReserveClaims, ReserveRefused,
            SettleFinished, NackMark
  <1>5. ASSUME NEW p \in Workers, ExtendLease(p) \/ Finishing(p) PROVE m \in parked'
    BY <1>5 DEF ExtendLease, Finishing, AckRow, NackRow, DiscardStale
  <1>6. ASSUME NEW p \in Procs, Maintaining(p) PROVE m \in parked'
    <2>1. ASSUME NEW j \in Jobs, SweepLapsed(p, j) PROVE m \in parked'
      BY <2>1, PublishAdds DEF SweepLapsed
    <2>2. ASSUME NEW j \in Jobs, SweepPublish(p, j) PROVE m \in parked'
      BY <2>2, PublishAdds DEF SweepPublish
    <2> QED BY <1>6, <2>1, <2>2 DEF Maintaining, SweepRetire, SweepFindOrphans, SweepMark
  <1>7. ASSUME NEW p \in Procs, Failing(p) PROVE m \in parked'
    BY <1>7 DEF Failing, SweepFails, Crash, Blip, ReserveFails, SpawnFails, NackPublishFails,
       FinishFails
  <1>8. ASSUME NEW j \in Jobs, ClientCancels(j) \/ Clock(j) PROVE m \in parked'
    BY <1>8 DEF ClientCancels, Clock
  <1>9. ASSUME NEW p \in Procs, NEW j \in Jobs, QuietOver(p, j) PROVE m \in parked'
    BY <1>9 DEF QuietOver
  <1> QED BY <1>1, <1>2, <1>3, <1>4, <1>5, <1>6, <1>7, <1>8, <1>9 DEF Next

\* A task that is about to publish does, or stays with it, or is lost.
LEMMA OfferMoves ==
  ASSUME IInv, Next, NEW p \in Procs,
         task[p].pc \in {"settle_publish", "publish"}
  PROVE  \/ NackPublish(p)
         \/ /\ task'[p].pc \in {"settle_publish", "publish"} /\ task'[p].job = task[p].job
            /\ task'[p].delay = task[p].delay /\ task'[p].lease = task[p].lease
         \/ task'[p] = Idle /\ (Crash(p) \/ NackPublishFails(p))
  <1> DEFINE Goal == \/ NackPublish(p)
                     \/ /\ task'[p].pc \in {"settle_publish", "publish"}
                        /\ task'[p].job = task[p].job
                        /\ task'[p].delay = task[p].delay /\ task'[p].lease = task[p].lease
                     \/ task'[p] = Idle /\ (Crash(p) \/ NackPublishFails(p))
  <1>0. task \in [Procs -> TaskState]
    BY DEF IInv, Types
  <1>1. task'[p] = task[p] => Goal
    OBVIOUS
  <1>2. ASSUME NEW q \in Procs, Crash(q) PROVE Goal
    <2>1. CASE q = p
      BY <1>0, <1>2, <2>1 DEF Crash, SetTask
    <2>2. CASE q # p
      BY <1>0, <1>1, <1>2, <2>2 DEF Crash, SetTask
    <2> QED BY <2>1, <2>2
  <1>3. ASSUME NEW q \in Procs, Blip(q) PROVE Goal
    <2>1. CASE q = p
      BY <1>0, <1>1, <1>3, <2>1 DEF Blip, SetTask
    <2>2. CASE q # p
      BY <1>0, <1>1, <1>3, <2>2 DEF Blip, SetTask
    <2> QED BY <2>1, <2>2
  <1>4. ASSUME NEW q \in Workers, Reserving(q) PROVE Goal
    <2>1. CASE q # p
      BY <1>1, <1>4, <2>1, ReservingAlone DEF Alone
    <2>2. CASE q = p /\ SettleFinished(p)
      <3>1. CASE task[p].pc = "settle_publish"
        <4>1. PICK s : s = [task[p] EXCEPT !.pc = "publish"]
          OBVIOUS
        <4>2. /\ s.pc = "publish" /\ s.job = task[p].job /\ s.lease = task[p].lease
              /\ s.delay = task[p].delay
          BY <3>1, <4>1, NextTask DEF HasLease
        <4>3. task'[p] = s
          BY <1>0, <2>2, <3>1, <4>1 DEF SettleFinished, SetTask
        <4> QED BY <4>2, <4>3
      <3> QED BY <2>2, <3>1 DEF SettleFinished
    <2>3. CASE q = p /\ NackPublishFails(p)
      BY <1>0, <2>3 DEF NackPublishFails, SetTask
    <2>4. CASE q = p /\ NackPublish(p)
      BY <2>4
    <2>5. /\ ~ReserveNext(p) /\ ~ReserveClaims(p) /\ ~ReserveRefused(p) /\ ~NackMark(p)
          /\ ~ReserveFails(p) /\ ~SpawnFails(p)
      BY DEF ReserveNext, ReserveClaims, ReserveRefused, NackMark, ReserveFails, SpawnFails,
         Working, Idle
    <2>6. /\ ~AckRow(p) /\ ~DiscardStale(p)
          /\ \A delay \in Delays : ~NackRow(p, delay) /\ ~FinishFails(p, delay)
      BY DEF AckRow, NackRow, DiscardStale, FinishFails, Working
    <2> HIDE DEF Goal
    <2> QED BY <1>4, <2>1, <2>2, <2>3, <2>4, <2>5, <2>6 DEF Reserving, Consuming, Finishing
  <1> HIDE DEF Goal
  <1>5. task' = task => Goal
    BY <1>1
  <1>6. Goal
    BY <1>2, <1>3, <1>4, <1>5, OtherSteps
  <1> QED BY <1>6 DEF Goal

LEMMA OfferStep ==
  ASSUME IInv, Next, NackIsPublished, NEW p \in Procs,
         task[p].pc \in {"settle_publish", "publish"}
  PROVE  \/ NackPublish(p)
         \/ /\ task'[p].pc \in {"settle_publish", "publish"} /\ task'[p].job = task[p].job
            /\ task'[p].delay = task[p].delay /\ task'[p].lease = task[p].lease
  BY OfferMoves DEF NackIsPublished, Idle

\* What NackPublish sends.
LEMMA NackSends ==
  ASSUME IInv, NEW p \in Procs, NackPublish(p), NEW j \in Jobs, task[p].job = j
  PROVE  /\ parked \subseteq parked'
         /\ task[p].delay => [job |-> j, after |-> task[p].lease] \in parked'
         /\ ~task[p].delay => Loose(j)'
  <1>1. task[p] \in Offering
    BY TaskIs DEF NackPublish, IInv, Types
  <1>2. PICK l \in Nat : l = task[p].lease
    BY <1>1 DEF Offering
  <1>3. Publish(j, task[p].delay, l)
    BY <1>2 DEF NackPublish
  <1>4. /\ parked \subseteq parked'
        /\ task[p].delay => [job |-> j, after |-> l] \in parked'
        /\ ~task[p].delay => work'[Fresh(j)] > 0 /\ Fresh(j) \in Message /\ Fresh(j).job = j
    BY <1>3, PublishAdds
  <1>5. ~task[p].delay => Loose(j)'
    BY <1>4 DEF Loose, Has
  <1> QED BY <1>2, <1>4, <1>5

LEMMA ParkedMoves ==
  ASSUME IInv, Next, NEW j \in Jobs, Parked(j)
  PROVE  Parked(j)' \/ Loose(j)'
  <1>1. PICK m \in parked : m.job = j
    BY DEF Parked
  <1>2. CASE m \in parked'
    BY <1>1, <1>2 DEF Parked
  <1>3. CASE ParkingOver(m)
    <2>1. Fresh(j) \in Message /\ Fresh(j).job = j /\ work \in [Message -> Nat]
      BY FreshType DEF Fresh, IInv, Types
    <2>2. work' = [work EXCEPT ![Fresh(j)] = @ + 1]
      BY <1>1, <1>3 DEF ParkingOver
    <2>3. work'[Fresh(j)] > 0
      BY <2>1, <2>2
    <2> QED BY <2>1, <2>3 DEF Loose, Has
  <1> QED BY <1>2, <1>3, ParkedStep

\* The message that comes no earlier than the job may be claimed stays until then.
LEMMA ParkedStays ==
  ASSUME IInv, Next, NEW j \in Jobs, NEW a, a = rows[j].attempts,
         Later(rows[j]), [job |-> j, after |-> a] \in parked
  PROVE  [job |-> j, after |-> a] \in parked'
  <1>1. PICK m \in parked : m = [job |-> j, after |-> a]
    OBVIOUS
  <1>2. ~TtlOver(m)
    BY <1>1 DEF TtlOver, Later, Idling
  <1>3. m \in parked'
    BY <1>2, ParkedStep DEF ParkingOver
  <1> QED BY <1>1, <1>3

LEMMA SentStep ==
  ASSUME IInv, Next, NackIsPublished, NEW j \in Jobs, Sent(j)
  PROVE  Sent(j)' \/ Loose(j)'
  <1>1. CASE Parked(j)
    BY <1>1, ParkedMoves DEF Sent
  <1>2. ASSUME NEW p \in Procs, Offers(task[p], j) PROVE Sent(j)' \/ Loose(j)'
    <2>1. CASE NackPublish(p)
      <3>1. CASE task[p].delay
        <4>1. PICK m : m = [job |-> j, after |-> task[p].lease]
          OBVIOUS
        <4>2. m \in parked' /\ m.job = j
          BY <1>2, <2>1, <3>1, <4>1, NackSends DEF Offers
        <4> QED BY <4>2 DEF Sent, Parked
      <3>2. CASE ~task[p].delay
        BY <1>2, <2>1, <3>2, NackSends DEF Offers
      <3> QED BY <3>1, <3>2
    <2>2. CASE ~NackPublish(p)
      <3>1. Offers(task'[p], j)
        BY <1>2, <2>2, OfferStep DEF Offers
      <3> QED BY <3>1 DEF Sent
    <2> QED BY <2>1, <2>2
  <1> QED BY <1>1, <1>2 DEF Sent

LEMMA AheadStep ==
  ASSUME IInv, Next, NackIsPublished, NEW j \in Jobs, NEW a, a = rows[j].attempts,
         Later(rows[j]), Ahead(j, a)
  PROVE  Ahead(j, a)'
  <1>1. CASE [job |-> j, after |-> a] \in parked
    BY <1>1, ParkedStays DEF Ahead
  <1>2. ASSUME NEW p \in Procs, Offers(task[p], j), task[p].delay, task[p].lease = a
        PROVE  Ahead(j, a)'
    <2>1. CASE NackPublish(p)
      BY <1>2, <2>1, NackSends DEF Offers, Ahead
    <2>2. CASE ~NackPublish(p)
      BY <1>2, <2>2, OfferStep DEF Offers, Ahead
    <2> QED BY <2>1, <2>2
  <1> QED BY <1>1, <1>2 DEF Ahead

-----------------------------------------------------------------------------
(* The rows.                                                               *)

\* A row that waits after the statement waited before it, and was not put off.
Calm(r, s) ==
  /\ Exists(r) => Exists(s)
  /\ Idling(s) => /\ r.state = s.state /\ r.attempts = s.attempts
                  /\ s.run_after = "later" => r.run_after = "later"

Quiet(r, s) == Calm(r, s) /\ (Idling(s) /\ s.published => r.published)

LEMMA QuietRows ==
  ASSUME NEW r \in Table!Row, Exists(r)
  PROVE  /\ Quiet(r, r) /\ Quiet(r, Table!Extended(r)) /\ Quiet(r, Table!DeadlinePassed(r))
         /\ Quiet(r, Table!RunAfterPassed(r)) /\ Quiet(r, Table!CancelledRow(r))
         /\ Calm(r, Table!MarkedPublished(r))
         /\ \A n \in Nat : Quiet(r, Table!Claimed(r, n)) /\ Quiet(r, Table!Acked(r, n))
         /\ Quiet(r, Table!Retired(r))
  <1> USE DEF Exists, Idling, Calm, Quiet
  <1>1. Quiet(r, r)
    OBVIOUS
  <1>2. PICK yes \in BOOLEAN, no \in BOOLEAN : yes = TRUE /\ no = FALSE
    OBVIOUS
  <1>3. Quiet(r, Table!Extended(r)) /\ Quiet(r, Table!DeadlinePassed(r))
    <2>1. \A b \in BOOLEAN : LET s == [r EXCEPT !.expired = b]
                             IN  /\ s.state = r.state /\ s.attempts = r.attempts
                                 /\ s.run_after = r.run_after /\ s.published = r.published
      BY DEF Table!Row
    <2>2. /\ Table!Extended(r) = [r EXCEPT !.expired = no]
          /\ Table!DeadlinePassed(r) = [r EXCEPT !.expired = yes]
      BY <1>2 DEF Table!Extended, Table!DeadlinePassed
    <2> QED BY <2>1, <2>2
  <1>4. Quiet(r, Table!RunAfterPassed(r))
    <2>1. PICK t \in {"due", "overdue"} : Table!RunAfterPassed(r) = [r EXCEPT !.run_after = t]
      BY DEF Table!RunAfterPassed
    <2>2. LET s == [r EXCEPT !.run_after = t]
          IN  /\ s.state = r.state /\ s.attempts = r.attempts
              /\ s.run_after = t /\ s.published = r.published
      BY DEF Table!Row
    <2> QED BY <2>1, <2>2
  <1>5. Quiet(r, Table!CancelledRow(r))
    <2>1. PICK t \in {"running", "cancelled"} :
             Table!CancelledRow(r) = [r EXCEPT !.cancel_requested = yes, !.state = t]
      BY <1>2 DEF Table!CancelledRow
    <2>2. [r EXCEPT !.cancel_requested = yes, !.state = t].state = t
      BY DEF Table!Row
    <2> QED BY <2>1, <2>2
  <1>6. Calm(r, Table!MarkedPublished(r))
    <2>1. LET s == [r EXCEPT !.published = yes]
          IN  /\ s.state = r.state /\ s.attempts = r.attempts /\ s.run_after = r.run_after
      BY DEF Table!Row
    <2> QED BY <1>2, <2>1 DEF Table!MarkedPublished
  <1>7. ASSUME NEW n \in Nat
        PROVE  Quiet(r, Table!Claimed(r, n)) /\ Quiet(r, Table!Acked(r, n))
    <2>1. Table!Claimed(r, n).state = "running"
      BY DEF Table!Claimed, Table!Row
    <2>2. Table!Acked(r, n).state = "done"
      BY DEF Table!Acked, Table!Released, Table!Row
    <2> QED BY <2>1, <2>2
  <1>8. Quiet(r, Table!Retired(r))
    <2>1. Table!Retired(r).state \in {"cancelled", "dead"}
      BY DEF Table!Retired, Table!Released, Table!Row
    <2> QED BY <2>1
  <1> QED BY <1>1, <1>3, <1>4, <1>5, <1>6, <1>7, <1>8

LEMMA NackedRow ==
  ASSUME NEW r \in Table!Row, NEW delay \in BOOLEAN
  PROVE  LET s == Table!Nacked(r, delay)
         IN  /\ Exists(s) /\ s.state # "queued" /\ s.attempts = r.attempts
             /\ s.state = Table!NackedState(r)
             /\ s.run_after = IF delay THEN "later" ELSE "due"
  <1>1. PICK t \in {"failed", "dead", "cancelled"} : t = Table!NackedState(r)
    BY DEF Table!NackedState
  <1>2. PICK b, a : b = (r.published /\ ~Table!ReturnsToQueue(r)) /\ a = Table!Delayed(delay)
    OBVIOUS
  <1>3. PICK q \in Table!Row : q = Table!Released(r) /\ q.attempts = r.attempts
    <2>1. PICK no \in BOOLEAN : no = FALSE
      OBVIOUS
    <2>2. LET q == [r EXCEPT !.lease_id = 0, !.expired = no]
          IN  q \in Table!Row /\ q.attempts = r.attempts
      BY DEF Table!Row
    <2> QED BY <2>1, <2>2 DEF Table!Released
  <1>4. Table!Nacked(r, delay) = [q EXCEPT !.state = t, !.error = "reported",
                                           !.run_after = a, !.published = b]
    BY <1>1, <1>2, <1>3 DEF Table!Nacked
  <1>5. LET s == [q EXCEPT !.state = t, !.error = "reported", !.run_after = a, !.published = b]
        IN  s.state = t /\ s.attempts = q.attempts /\ s.run_after = a
    BY <1>3 DEF Table!Row
  <1> QED BY <1>1, <1>2, <1>3, <1>4, <1>5 DEF Table!Delayed, Exists

LEMMA InsertedRow ==
  ASSUME NEW max, NEW delay \in BOOLEAN
  PROVE  LET s == Table!Inserted(max, delay)
         IN  /\ s.state = "queued" /\ s.attempts = 0 /\ ~s.published
             /\ s.run_after = IF delay THEN "later" ELSE "due"
  BY DEF Table!Inserted, Table!AbsentRow, Table!Delayed

\* What a step does to one row.
LEMMA RowStep ==
  ASSUME IInv, Next, NEW j \in Jobs
  PROVE  \/ Quiet(rows[j], rows'[j])
         \/ Calm(rows[j], rows'[j]) /\ Exists(rows[j]) /\ Marking(j)
         \/ ~Exists(rows[j]) /\ \E max \in Limits, delay \in BOOLEAN :
                                  rows'[j] = Table!Inserted(max, delay)
         \/ /\ rows[j].state = "running" /\ rows[j] \in Table!Row
            /\ \E delay \in BOOLEAN : /\ rows'[j] = Table!Nacked(rows[j], delay)
                                     /\ GivingBack(delay)
  <1>0. /\ \A k \in Jobs : Table!RowInv(rows[k], minted[k], acked[k])
        /\ \A k \in Jobs : rows[k] \in Table!Row /\ minted[k] \in Nat
        /\ Table!IInv
    BY DEF IInv, Table!IInv
  <1>1. /\ ~Exists(rows[j]) => Quiet(rows[j], rows[j])
        /\ Exists(rows[j]) => Quiet(rows[j], rows[j])
    BY <1>0, QuietRows DEF Quiet, Calm, Exists, Idling
  <1>2. ASSUME NEW k \in Jobs, NEW r, Table!Write(k, r), k # j PROVE rows'[j] = rows[j]
    BY <1>2, <1>0, Table!WrittenRow
  <1>3. ASSUME NEW r, Table!Write(j, r) PROVE rows'[j] = r
    BY <1>3, <1>0, Table!WrittenRow
  <1>4. CASE UNCHANGED tableVars
    BY <1>1, <1>4 DEF tableVars
  <1>5. CASE Store!RetireLapsed
    <2>1. rows'[j] = IF Table!Retirable(rows[j]) THEN Table!Retired(rows[j]) ELSE rows[j]
      BY <1>5, SameStatements DEF Table!RetireLapsed
    <2>2. Table!Retirable(rows[j]) => Exists(rows[j])
      BY DEF Table!Retirable, Exists
    <2> QED BY <1>0, <1>1, <2>1, <2>2, QuietRows
  <1>6. ASSUME NEW k \in Jobs, k # j,
               \/ Table!Claim(k) \/ Table!Cancel(k) \/ Table!MarkPublished(k)
               \/ Table!LeaseExpires(k) \/ Table!RunAfterPasses(k)
               \/ \E max \in Limits, d \in BOOLEAN : Table!InsertOrGet(k, max, d)
               \/ \E l \in 1..minted[k] : \/ Table!Extend(k, l) \/ Table!Ack(k, l)
                                          \/ \E d \in BOOLEAN : Table!Nack(k, l, d)
        PROVE  rows'[j] = rows[j]
    <2>1. \E r : Table!Write(k, r)
      BY <1>6 DEF Table!Claim, Table!Cancel, Table!MarkPublished, Table!LeaseExpires,
         Table!RunAfterPasses, Table!InsertOrGet, Table!Extend, Table!Ack, Table!Nack,
         Table!WriteAndRecord
    <2> QED BY <1>2, <1>6, <2>1
  <1>7. CASE Table!Claim(j) \/ Table!Cancel(j) \/ Table!LeaseExpires(j) \/ Table!RunAfterPasses(j)
    <2>1. Exists(rows[j])
      BY <1>7 DEF Table!Claim, Table!Cancel, Table!LeaseExpires, Table!RunAfterPasses,
         Table!Claimable, Table!Waiting, Table!Lapsed, Table!Exists, Exists
    <2>2. minted[j] + 1 \in Nat
      BY <1>0
    <2>3. rows'[j] \in {Table!Claimed(rows[j], minted[j] + 1), Table!CancelledRow(rows[j]),
                        Table!DeadlinePassed(rows[j]), Table!RunAfterPassed(rows[j])}
      BY <1>3, <1>7 DEF Table!Claim, Table!Cancel, Table!LeaseExpires, Table!RunAfterPasses,
         Table!WriteAndRecord
    <2> QED BY <1>0, <2>1, <2>2, <2>3, QuietRows
  <1>8. CASE Table!MarkPublished(j) /\ Marking(j)
    <2>1. Exists(rows[j]) /\ rows'[j] = Table!MarkedPublished(rows[j])
      BY <1>3, <1>8 DEF Table!MarkPublished, Table!Exists, Exists
    <2> QED BY <1>0, <1>8, <2>1, QuietRows
  <1>9. ASSUME NEW max \in Limits, NEW delay \in BOOLEAN, Table!InsertOrGet(j, max, delay)
        PROVE  ~Exists(rows[j]) /\ rows'[j] = Table!Inserted(max, delay)
    BY <1>3, <1>9 DEF Table!InsertOrGet, Table!WriteAndRecord, Table!Exists, Exists
  <1>10. ASSUME NEW l \in 1..minted[j], Table!Extend(j, l) \/ Table!Ack(j, l)
         PROVE  Quiet(rows[j], rows'[j])
    <2>1. l \in Nat /\ Exists(rows[j])
      BY <1>0, <1>10 DEF Table!Extend, Table!Ack, Table!Fenced, Table!Exists, Exists
    <2>2. rows'[j] \in {Table!Extended(rows[j]), Table!Acked(rows[j], l)}
      BY <1>3, <1>10 DEF Table!Extend, Table!Ack, Table!WriteAndRecord
    <2> QED BY <1>0, <2>1, <2>2, QuietRows
  <1>11. ASSUME NEW l \in 1..minted[j], NEW delay \in BOOLEAN, Table!Nack(j, l, delay)
         PROVE  rows[j].state = "running" /\ rows'[j] = Table!Nacked(rows[j], delay)
    BY <1>0, <1>3, <1>11 DEF Table!Nack, Table!WriteAndRecord, Table!Fenced, Table!RowInv
  <1> QED BY <1>0, <1>1, <1>4, <1>5, <1>6, <1>7, <1>8, <1>9, <1>10, <1>11, StepIsStatement,
         SameStatements DEF Statement

-----------------------------------------------------------------------------
(* Who is about to publish or to mark.                                     *)

LEMMA ProducerMoves ==
  ASSUME IInv, Next
  PROVE  \/ producer' = producer
         \/ \E q \in Producers : Enqueueing(q) \/ GiveUp(q)
         \/ \E q \in Procs : Crash(q)
  <1>1. CASE \E m \in parked : ParkingOver(m)
    BY <1>1 DEF ParkingOver
  <1>2. CASE \E q \in Procs : \/ \E m \in Message : Deliver(q, m)
                              \/ \E j \in Jobs : QuietOver(q, j)
    BY <1>2 DEF Deliver, QuietOver
  <1>3. CASE \E q \in Workers : Consuming(q) \/ ExtendLease(q) \/ Finishing(q)
    BY <1>3 DEF Consuming, ReserveNext, ReserveClaims, ReserveRefused, SettleFinished,
       NackPublish, NackMark, ExtendLease, Finishing, AckRow, NackRow, DiscardStale
  <1>4. CASE \E q \in Procs : Maintaining(q)
    BY <1>4 DEF Maintaining, SweepRetire, SweepFindOrphans, SweepMark, SweepLapsed, SweepPublish
  <1>5. CASE \E q \in Procs : Failing(q)
    BY <1>5 DEF Failing, SweepFails, Blip, ReserveFails, SpawnFails, NackPublishFails, FinishFails
  <1>6. CASE \E j \in Jobs : ClientCancels(j) \/ Clock(j)
    BY <1>6 DEF ClientCancels, Clock
  <1> QED BY <1>1, <1>2, <1>3, <1>4, <1>5, <1>6 DEF Next

LEMMA ProducerSteps ==
  ASSUME IInv, Next, NEW p \in Producers
  PROVE  \/ producer'[p] = producer[p]
         \/ producer'[p].pc \in {"follow", "done"}
         \/ EnqueuePublish(p)
         \/ \E j \in Jobs, max \in Limits, delay \in Delays : EnqueueInsert(p, j, max, delay)
  <1>0. producer \in [Producers -> ProducerState]
    BY DEF IInv, Types
  <1>1. ASSUME NEW q \in Producers, Enqueueing(q) \/ GiveUp(q), q # p
        PROVE  producer'[p] = producer[p]
    BY <1>0, <1>1 DEF Enqueueing, GiveUp, FollowEnds, Close, EnqueueInsert, EnqueueDuplicate,
       EnqueuePublish, EnqueueMark, SetProducer
  <1>2. ASSUME EnqueueMark(p) \/ Close(p) \/ \E j \in Jobs : EnqueueDuplicate(p, j)
        PROVE  producer'[p].pc \in {"follow", "done"}
    BY <1>0, <1>2 DEF EnqueueMark, Close, EnqueueDuplicate, SetProducer
  <1>3. ASSUME NEW q \in Procs, Crash(q)
        PROVE  producer'[p] = producer[p] \/ producer'[p].pc \in {"follow", "done"}
    BY <1>0, <1>3 DEF Crash
  <1>4. \/ producer' = producer
        \/ \E q \in Producers : Enqueueing(q) \/ GiveUp(q)
        \/ \E q \in Procs : Crash(q)
    BY ProducerMoves
  <1>5. ASSUME Enqueueing(p) \/ GiveUp(p)
        PROVE  \/ EnqueuePublish(p) \/ EnqueueMark(p) \/ Close(p)
               \/ \E j \in Jobs : EnqueueDuplicate(p, j)
               \/ \E j \in Jobs, max \in Limits, delay \in Delays : EnqueueInsert(p, j, max, delay)
    BY <1>5 DEF Enqueueing, GiveUp, FollowEnds
  <1> QED BY <1>1, <1>2, <1>3, <1>4, <1>5

\* What a worker's own step makes of its task, if it is about to mark or to publish.
LEMMA TaskSteps ==
  ASSUME IInv, Next, NEW p \in Procs
  PROVE  /\ task'[p].pc = "mark" => task'[p] = task[p] \/ NackPublish(p)
         /\ task'[p].pc = "settle_publish" /\ task[p].pc # "settle_publish"
              => \E delay \in Delays : NackRow(p, delay)
  <1> DEFINE Goal ==
        /\ task'[p].pc = "mark" => task'[p] = task[p] \/ NackPublish(p)
        /\ task'[p].pc = "settle_publish" /\ task[p].pc # "settle_publish"
             => \E delay \in Delays : NackRow(p, delay)
  <1>0. task \in [Procs -> TaskState]
    BY DEF IInv, Types
  <1>1. task'[p] = task[p] => Goal
    OBVIOUS
  <1>2. task'[p].pc \notin {"mark", "settle_publish"} => Goal
    OBVIOUS
  <1>3. NackPublish(p) => Goal
    <2>1. NackPublish(p) => task'[p].pc = "mark"
      BY <1>0 DEF NackPublish, SetTask
    <2> QED BY <2>1
  <1>4. (\E delay \in Delays : NackRow(p, delay)) => Goal
    <2>1. ASSUME NEW delay \in Delays, NackRow(p, delay) PROVE task'[p].pc # "mark"
      <3>1. \/ task' = [task EXCEPT ![p] = [pc |-> "settle", job |-> task[p].job,
                                            lease |-> task[p].lease]]
            \/ task' = [task EXCEPT ![p] = [pc |-> "settle_publish", job |-> task[p].job,
                                            lease |-> task[p].lease, delay |-> delay]]
        BY <2>1 DEF NackRow, SetTask
      <3> QED BY <1>0, <3>1
    <2> QED BY <2>1
  <1> HIDE DEF Goal
  <1>5. ASSUME NEW q \in Procs, Crash(q) PROVE Goal
    <2>1. task'[p] = task[p] \/ task'[p] = Idle
      BY <1>0, <1>5 DEF Crash, SetTask
    <2> QED BY <1>1, <1>2, <2>1 DEF Idle
  <1>6. ASSUME NEW q \in Procs, Blip(q) PROVE Goal
    <2>1. CASE q # p \/ task[p].pc # "claim"
      BY <1>0, <1>1, <1>6, <2>1 DEF Blip, SetTask
    <2>2. CASE q = p /\ task[p].pc = "claim"
      <3>1. PICK s : s = [task[p] EXCEPT !.live = FALSE]
        OBVIOUS
      <3>2. s \in Claiming
        BY <1>0, <2>2, <3>1, TaskIs, NoLonger
      <3>3. task'[p] = s /\ s.pc = "claim"
        BY <1>0, <1>6, <2>2, <3>1, <3>2 DEF Blip, SetTask, Claiming
      <3> QED BY <1>2, <3>3
    <2> QED BY <2>1, <2>2
  <1>7. ASSUME NEW q \in Workers, Reserving(q) PROVE Goal
    <2>1. CASE q # p
      BY <1>1, <1>7, <2>1, ReservingAlone DEF Alone
    <2>2. ASSUME \/ ReserveNext(p) \/ ReserveClaims(p) \/ ReserveRefused(p) \/ NackMark(p)
                 \/ AckRow(p) \/ DiscardStale(p)
                 \/ ReserveFails(p) \/ SpawnFails(p) \/ NackPublishFails(p)
                 \/ \E delay \in Delays : FinishFails(p, delay)
          PROVE  task'[p].pc \notin {"mark", "settle_publish"}
      BY <1>0, <2>2 DEF ReserveNext, ReserveClaims, ReserveRefused, NackMark, AckRow,
         DiscardStale, ReserveFails, SpawnFails, NackPublishFails, FinishFails, SetTask, Idle
    <2>3. ASSUME SettleFinished(p) PROVE task'[p].pc \notin {"mark", "settle_publish"}
      <3>1. CASE task[p].pc = "settle"
        BY <1>0, <2>3, <3>1 DEF SettleFinished, SetTask, Idle
      <3>2. CASE task[p].pc = "settle_publish"
        <4>1. PICK s : s = [task[p] EXCEPT !.pc = "publish"]
          OBVIOUS
        <4>2. s.pc = "publish"
          BY <3>2, <4>1, NextTask DEF HasLease
        <4>3. task'[p] = s
          BY <1>0, <2>3, <3>2, <4>1 DEF SettleFinished, SetTask
        <4> QED BY <4>2, <4>3
      <3> QED BY <2>3, <3>1, <3>2 DEF SettleFinished
    <2> QED BY <1>2, <1>3, <1>4, <1>7, <2>1, <2>2, <2>3 DEF Reserving, Consuming, Finishing
  <1>8. task' = task => Goal
    BY <1>1
  <1>9. Goal
    BY <1>5, <1>6, <1>7, <1>8, OtherSteps
  <1> QED BY <1>9 DEF Goal

\* What the maintenance loop is about to publish or to mark it has found before.
LEMMA SweepSteps ==
  ASSUME IInv, Next, NEW p \in Procs
  PROVE  /\ \/ Swept(sweep'[p]) \subseteq Swept(sweep[p])
            \/ Swept(sweep'[p]) \subseteq Found(Orphaned) /\ UNCHANGED tableVars
         /\ sweep'[p].pc = "mark"
              => sweep'[p] = sweep[p]
                 \/ \E j \in Jobs : SweepPublish(p, j) /\ sweep'[p].job = j
  <1> DEFINE Goal ==
        /\ \/ Swept(sweep'[p]) \subseteq Swept(sweep[p])
           \/ Swept(sweep'[p]) \subseteq Found(Orphaned) /\ UNCHANGED tableVars
        /\ sweep'[p].pc = "mark"
             => sweep'[p] = sweep[p]
                \/ \E j \in Jobs : SweepPublish(p, j) /\ sweep'[p].job = j
  <1>0. sweep \in [Procs -> SweepState]
    BY DEF IInv, Types
  <1>1. sweep'[p] = sweep[p] => Goal
    OBVIOUS
  <1>2. sweep'[p] = NoSweep => Goal
    BY DEF NoSweep, Swept
  <1>3. ASSUME NEW q \in Procs, Maintaining(q), q # p PROVE sweep'[p] = sweep[p]
    BY <1>0, <1>3 DEF Maintaining, SweepRetire, SweepFindOrphans, SweepMark, SweepLapsed,
       SweepPublish, SetSweep
  <1>4. ASSUME SweepRetire(p) PROVE Goal
    <2>1. sweep'[p] = [pc |-> "lapsed", todo |-> Found(Lapsed)]
      BY <1>0, <1>4 DEF SweepRetire, SetSweep
    <2> QED BY <2>1 DEF Swept
  <1>5. ASSUME SweepFindOrphans(p) PROVE Goal
    <2>1. PICK todo : todo = Found(Orphaned)
      OBVIOUS
    <2>2. sweep'[p] = NoSweep \/ sweep'[p] = [pc |-> "unpublished", todo |-> todo]
      BY <1>0, <1>5, <2>1 DEF SweepFindOrphans, SetSweep
    <2>3. UNCHANGED tableVars
      BY <1>5 DEF SweepFindOrphans
    <2>4. CASE sweep'[p] = [pc |-> "unpublished", todo |-> todo]
      BY <2>1, <2>3, <2>4 DEF Swept
    <2> QED BY <1>2, <2>2, <2>4
  <1>6. ASSUME SweepMark(p) PROVE Goal
    <2>1. sweep'[p] = NoSweep \/ sweep'[p] = [pc |-> "unpublished", todo |-> sweep[p].todo]
      BY <1>0, <1>6 DEF SweepMark, SetSweep
    <2>2. sweep[p].pc = "mark"
      BY <1>6 DEF SweepMark, Sweeping
    <2>3. CASE sweep'[p] = [pc |-> "unpublished", todo |-> sweep[p].todo]
      BY <2>2, <2>3 DEF Swept
    <2> QED BY <1>2, <2>1, <2>3
  <1>7. ASSUME NEW j \in Jobs, SweepLapsed(p, j) PROVE Goal
    <2>1. PICK s : s = [sweep[p] EXCEPT !.todo = @ \ {j}]
      OBVIOUS
    <2>2. sweep'[p] = s
      BY <1>0, <1>7, <2>1 DEF SweepLapsed, SetSweep
    <2>3. s.pc = "lapsed"
      <3>1. sweep[p] \in [pc : {"lapsed", "unpublished"}, todo : SUBSET Jobs]
        BY <1>0, <1>7 DEF SweepState, SweepLapsed, Sweeping, NoSweep
      <3>2. sweep[p].pc = "lapsed"
        BY <1>7 DEF SweepLapsed, Sweeping
      <3> QED BY <2>1, <3>1, <3>2
    <2> QED BY <2>2, <2>3 DEF Swept
  <1>8. ASSUME NEW j \in Jobs, SweepPublish(p, j) PROVE Goal
    <2>1. sweep'[p] = [pc |-> "mark", todo |-> sweep[p].todo \ {j}, job |-> j]
      BY <1>0, <1>8 DEF SweepPublish, SetSweep
    <2>2. sweep[p].pc = "unpublished" /\ j \in sweep[p].todo
      BY <1>8 DEF SweepPublish, Sweeping
    <2> QED BY <1>8, <2>1, <2>2 DEF Swept
  <1> HIDE DEF Goal
  <1>9. ASSUME NEW q \in Procs, Maintaining(q) PROVE Goal
    <2>1. CASE q # p
      BY <1>1, <1>3, <1>9, <2>1
    <2>2. CASE q = p
      <3>1. \/ SweepRetire(p) \/ SweepFindOrphans(p) \/ SweepMark(p)
            \/ \E j \in Jobs : SweepLapsed(p, j) \/ SweepPublish(p, j)
        BY <1>9, <2>2 DEF Maintaining
      <3> QED BY <1>4, <1>5, <1>6, <1>7, <1>8, <3>1
    <2> QED BY <2>1, <2>2
  <1>10. ASSUME NEW q \in Procs, SweepFails(q) \/ Crash(q) \/ Close(q) PROVE Goal
    <2>1. sweep'[p] = sweep[p] \/ sweep'[p] = NoSweep
      BY <1>0, <1>10 DEF SweepFails, Crash, Close, SetSweep
    <2> QED BY <1>1, <1>2, <2>1
  <1>11. \/ sweep' = sweep
         \/ \E q \in Procs : Maintaining(q) \/ SweepFails(q) \/ Crash(q) \/ Close(q)
    <2>1. CASE \E m \in parked : ParkingOver(m)
      BY <2>1 DEF ParkingOver
    <2>2. CASE \E q \in Procs : \/ \E m \in Message : Deliver(q, m)
                                \/ \E j \in Jobs : QuietOver(q, j)
      BY <2>2 DEF Deliver, QuietOver
    <2>3. CASE \E q \in Producers : Enqueueing(q) \/ GiveUp(q)
      BY <2>3 DEF Enqueueing, EnqueueInsert, EnqueueDuplicate, EnqueuePublish, EnqueueMark,
         FollowEnds, GiveUp
    <2>4. CASE \E q \in Workers : Consuming(q) \/ ExtendLease(q) \/ Finishing(q)
      BY <2>4 DEF Consuming, ReserveNext, ReserveClaims, ReserveRefused, SettleFinished,
         NackPublish, NackMark, ExtendLease, Finishing, AckRow, NackRow, DiscardStale
    <2>5. CASE \E q \in Procs : Failing(q)
      BY <2>5 DEF Failing, Blip, ReserveFails, SpawnFails, NackPublishFails, FinishFails
    <2>6. CASE \E j \in Jobs : ClientCancels(j) \/ Clock(j)
      BY <2>6 DEF ClientCancels, Clock
    <2> QED BY <2>1, <2>2, <2>3, <2>4, <2>5, <2>6 DEF Next
  <1>12. Goal
    BY <1>1, <1>9, <1>10, <1>11
  <1> QED BY <1>12 DEF Goal

\* A row that exists goes on to, and nothing puts off a job that was not tried.
LEMMA RowKeeps ==
  ASSUME IInv, Next, NEW j \in Jobs, Exists(rows[j])
  PROVE  /\ Exists(rows'[j])
         /\ Later(rows'[j]) /\ rows'[j].state = "queued"
              => Later(rows[j]) /\ rows[j].state = "queued"
  <1>1. CASE Calm(rows[j], rows'[j])
    BY <1>1 DEF Calm, Later, Idling
  <1>2. ASSUME NEW delay \in BOOLEAN, rows[j] \in Table!Row,
               rows'[j] = Table!Nacked(rows[j], delay)
        PROVE  Exists(rows'[j]) /\ rows'[j].state # "queued"
    BY <1>2, NackedRow
  <1> QED BY <1>1, <1>2, RowStep DEF Quiet

-----------------------------------------------------------------------------
(* What becomes owed.                                                      *)

\* A row that failed is offered by the task that gave it back.
LEMMA NackMade ==
  ASSUME IInv, Next, NackIsPublished, NEW j \in Jobs,
         rows[j].state # "failed", rows'[j].state = "failed"
  PROVE  \E p \in Procs : /\ Offers(task'[p], j) /\ task'[p].lease = rows'[j].attempts
                          /\ rows'[j].run_after = "later" => task'[p].delay
  <1>1. PICK p \in Procs : /\ task[p].pc # "settle_publish"
                           /\ task'[p].pc = "settle_publish" /\ task'[p].job = j
    BY DEF NackIsPublished
  <1>2. PICK delay \in Delays : NackRow(p, delay)
    BY <1>1, TaskSteps
  <1>3. delay \in BOOLEAN /\ task \in [Procs -> TaskState]
    BY DEF IInv, Types
  <1>4. /\ Fenced(rows[task[p].job], task[p].lease)
        /\ Store!Nack(task[p].job, task[p].lease, delay)
        /\ task'[p] = [pc |-> "settle_publish", job |-> task[p].job,
                       lease |-> task[p].lease, delay |-> delay]
    <2>1. ASSUME SetTask(p, [pc |-> "settle", job |-> task[p].job, lease |-> task[p].lease])
          PROVE  FALSE
      BY <1>1, <1>3, <2>1 DEF SetTask
    <2> QED BY <1>2, <1>3, <2>1 DEF NackRow, SetTask
  <1>5. task[p].job = j /\ task'[p].lease = task[p].lease /\ task'[p].delay = delay
    BY <1>1, <1>4
  <1>6. Table!RowInv(rows[j], minted[j], acked[j]) /\ rows[j] \in Table!Row
    BY DEF IInv, Table!IInv
  <1>7. task[p].lease = rows[j].attempts
    BY <1>4, <1>5, <1>6 DEF Table!RowInv, Fenced
  <1>8. rows'[j] = Table!Nacked(rows[j], delay)
    <2>1. Table!Nack(j, task[p].lease, delay)
      BY <1>4, <1>5, SameStatements
    <2> QED BY <2>1, Table!WrittenRow DEF Table!Nack, Table!WriteAndRecord, IInv
  <1>9. /\ rows'[j].attempts = rows[j].attempts
        /\ rows'[j].run_after = IF delay THEN "later" ELSE "due"
    BY <1>3, <1>6, <1>8, NackedRow
  <1> QED BY <1>1, <1>5, <1>7, <1>9 DEF Offers

\* What is published is loose, or parked.
LEMMA PublishSends ==
  ASSUME IInv, NEW j \in Jobs, NEW delay, NEW after \in Nat, Publish(j, delay, after)
  PROVE  /\ Loose(j)' \/ Parked(j)'
         /\ delay => [job |-> j, after |-> after] \in parked'
  <1>1. /\ delay => [job |-> j, after |-> after] \in parked'
        /\ ~delay => work'[Fresh(j)] > 0 /\ Fresh(j) \in Message /\ Fresh(j).job = j
    BY PublishAdds
  <1>2. delay => Parked(j)'
    <2>1. [job |-> j, after |-> after].job = j
      OBVIOUS
    <2> QED BY <1>1, <2>1 DEF Parked
  <1>3. ~delay => Loose(j)'
    BY <1>1 DEF Loose, Has
  <1> QED BY <1>1, <1>2, <1>3

\* Whoever is about to mark a job has published it, and late enough.
LEMMA MarkingStep ==
  ASSUME IInv, NewUntried, Told, Next, NEW j \in Jobs, ~Marking(j), Marking(j)'
  PROVE  /\ UNCHANGED tableVars /\ Exists(rows[j])
         /\ Loose(j)' \/ Parked(j)'
         /\ Later(rows[j]) /\ rows[j].state = "queued" => [job |-> j, after |-> 0] \in parked'
  <1> DEFINE Goal ==
        /\ UNCHANGED tableVars /\ Exists(rows[j])
        /\ Loose(j)' \/ Parked(j)'
        /\ Later(rows[j]) /\ rows[j].state = "queued" => [job |-> j, after |-> 0] \in parked'
  <1>0. /\ task \in [Procs -> TaskState] /\ producer \in [Producers -> ProducerState]
        /\ Table!RowInv(rows[j], minted[j], acked[j])
    BY DEF IInv, Types, Table!IInv
  <1>1. ASSUME NEW p \in Producers, producer'[p].pc = "mark", producer'[p].job = j PROVE Goal
    <2>1. ~(\E k \in Jobs, max \in Limits, delay \in Delays : EnqueueInsert(p, k, max, delay))
      BY <1>0, <1>1 DEF EnqueueInsert, SetProducer
    <2>2. producer'[p] # producer[p]
      BY <1>1 DEF Marking
    <2>3. EnqueuePublish(p)
      BY <1>1, <2>1, <2>2, ProducerSteps
    <2>4. producer'[p].job = producer[p].job /\ producer[p].pc = "publish"
      BY <1>0, <2>3 DEF EnqueuePublish, SetProducer
    <2>5. Publish(j, producer[p].delay, 0) /\ UNCHANGED tableVars
      BY <1>1, <2>3, <2>4 DEF EnqueuePublish
    <2>6. Exists(rows[j])
      BY <1>1, <2>4 DEF Told
    <2>7. Later(rows[j]) /\ rows[j].state = "queued" => producer[p].delay
      BY <1>1, <2>4 DEF Told
    <2> QED BY <2>5, <2>6, <2>7, PublishSends
  <1>2. ASSUME NEW p \in Procs, task'[p].pc = "mark", task'[p].job = j PROVE Goal
    <2>1. NackPublish(p)
      BY <1>2, TaskSteps DEF Marking
    <2>2. task'[p].job = task[p].job /\ task[p].pc = "publish"
      BY <1>0, <2>1 DEF NackPublish, SetTask
    <2>3. task[p].lease \in 1..minted[j] /\ task[p].lease \in Nat
      BY <1>2, <2>2, WorkingIs DEF HasLease
    <2>4. Publish(j, task[p].delay, task[p].lease) /\ UNCHANGED tableVars
      BY <1>2, <2>1, <2>2 DEF NackPublish
    <2>5. minted[j] \in Nat /\ minted[j] # 0
      BY <1>0, <2>3 DEF Table!RowInv
    <2>6. Exists(rows[j]) /\ rows[j].state # "queued"
      BY <1>0, <2>5 DEF Table!RowInv, Exists, NewUntried
    <2> QED BY <2>3, <2>4, <2>6, PublishSends
  <1>3. ASSUME NEW p \in Procs, sweep'[p].pc = "mark", sweep'[p].job = j PROVE Goal
    <2>1. SweepPublish(p, j)
      BY <1>3, SweepSteps DEF Marking
    <2>2. Publish(j, FALSE, 0) /\ UNCHANGED tableVars
      BY <2>1 DEF SweepPublish
    <2>3. j \in Swept(sweep[p])
      BY <2>1 DEF SweepPublish, Sweeping, Swept
    <2>4. Exists(rows[j]) /\ ~(Later(rows[j]) /\ rows[j].state = "queued")
      BY <2>3 DEF Told
    <2> QED BY <2>2, <2>4, PublishSends
  <1> HIDE DEF Goal
  <1>4. Goal
    BY <1>1, <1>2, <1>3 DEF Marking
  <1> QED BY <1>4 DEF Goal

-----------------------------------------------------------------------------
(* The invariant is kept.                                                  *)

LEMMA NewUntriedStep ==
  ASSUME IInv, NewUntried, Next
  PROVE  NewUntried'
  <1> SUFFICES ASSUME NEW j \in Jobs, rows'[j].state = "queued" PROVE rows'[j].attempts = 0
    BY DEF NewUntried
  <1>1. CASE Calm(rows[j], rows'[j])
    BY <1>1 DEF Calm, Idling, NewUntried
  <1>2. ASSUME NEW max \in Limits, NEW delay \in BOOLEAN, rows'[j] = Table!Inserted(max, delay)
        PROVE  rows'[j].attempts = 0
    BY <1>2, InsertedRow
  <1>3. ASSUME rows[j] \in Table!Row, NEW delay \in BOOLEAN,
               rows'[j] = Table!Nacked(rows[j], delay)
        PROVE  FALSE
    BY <1>3, NackedRow
  <1> QED BY <1>1, <1>2, <1>3, RowStep DEF Quiet

\* Where somebody has or had a lease, there is a row.
LEMMA LeasedExists ==
  ASSUME IInv, NEW p \in Procs, HasLease(task[p])
  PROVE  task[p].job \in Jobs /\ Exists(rows[task[p].job])
  <1>1. PICK j \in Jobs : j = task[p].job
    BY WorkingIs
  <1>2. task[p].lease \in 1..minted[j] /\ Table!RowInv(rows[j], minted[j], acked[j])
    BY <1>1, WorkingIs DEF IInv, Table!IInv
  <1>3. minted[j] # 0
    BY <1>2 DEF Table!RowInv
  <1> QED BY <1>1, <1>2, <1>3 DEF Table!RowInv, Exists

LEMMA ToldStep ==
  ASSUME IInv, Told, Next
  PROVE  Told'
  <1>0. /\ task \in [Procs -> TaskState] /\ producer \in [Producers -> ProducerState]
        /\ sweep \in [Procs -> SweepState]
    BY DEF IInv, Types
  <1>1. ASSUME NEW p \in Producers, NEW j, j = producer'[p].job,
               producer'[p].pc \in {"publish", "mark"}
        PROVE  /\ Exists(rows'[j])
               /\ producer'[p].pc = "publish" /\ Later(rows'[j]) /\ rows'[j].state = "queued"
                    => producer'[p].delay
    <2>1. CASE producer'[p] = producer[p]
      <3>1. j \in Jobs
        BY <1>1, <2>1, ProducerIs
      <3>2. /\ Exists(rows[j])
            /\ producer[p].pc = "publish" /\ Later(rows[j]) /\ rows[j].state = "queued"
                 => producer[p].delay
        BY <1>1, <2>1 DEF Told
      <3> QED BY <2>1, <3>1, <3>2, RowKeeps
    <2>2. CASE EnqueuePublish(p)
      <3>1. /\ producer'[p].pc = "mark" /\ producer'[p].job = producer[p].job
            /\ producer[p].pc = "publish"
        BY <1>0, <2>2 DEF EnqueuePublish, SetProducer
      <3>2. j \in Jobs /\ Exists(rows[j])
        BY <1>1, <3>1, ProducerIs DEF Told
      <3> QED BY <3>1, <3>2, RowKeeps
    <2>3. ASSUME NEW k \in Jobs, NEW max \in Limits, NEW delay \in Delays,
                 EnqueueInsert(p, k, max, delay)
          PROVE  /\ Exists(rows'[j])
                 /\ Later(rows'[j]) => producer'[p].delay
      <3>1. producer'[p] = [pc |-> "publish", job |-> k, delay |-> delay]
        BY <1>0, <2>3 DEF EnqueueInsert, SetProducer
      <3>2. delay \in BOOLEAN /\ j = k
        BY <1>1, <3>1
      <3>3. Table!InsertOrGet(j, max, delay)
        BY <2>3, <3>2, SameStatements DEF EnqueueInsert
      <3>4. rows'[j] = Table!Inserted(max, delay)
        BY <3>2, <3>3, Table!WrittenRow DEF Table!InsertOrGet, Table!WriteAndRecord, IInv
      <3>5. /\ rows'[j].state = "queued"
            /\ rows'[j].run_after = IF delay THEN "later" ELSE "due"
        BY <3>2, <3>4, InsertedRow
      <3> QED BY <3>1, <3>5 DEF Exists, Later
    <2> QED BY <1>1, <2>1, <2>2, <2>3, ProducerSteps
  <1>2. ASSUME NEW p \in Procs, NEW j, j = task'[p].job, task'[p].pc = "mark"
        PROVE  Exists(rows'[j])
    <2>1. CASE task'[p] = task[p]
      <3>1. j \in Jobs /\ Exists(rows[j])
        BY <1>2, <2>1, TellingIs DEF Told
      <3> QED BY <3>1, RowKeeps
    <2>2. CASE NackPublish(p)
      <3>1. task'[p].job = task[p].job /\ task[p].pc = "publish"
        BY <1>0, <2>2 DEF NackPublish, SetTask
      <3>2. j \in Jobs /\ Exists(rows[j])
        BY <1>2, <3>1, LeasedExists DEF HasLease
      <3> QED BY <3>2, RowKeeps
    <2> QED BY <1>2, <2>1, <2>2, TaskSteps
  <1>3. ASSUME NEW p \in Procs, NEW j \in Swept(sweep'[p])
        PROVE  Exists(rows'[j]) /\ ~(Later(rows'[j]) /\ rows'[j].state = "queued")
    <2>1. CASE Swept(sweep'[p]) \subseteq Swept(sweep[p])
      <3>1. j \in Swept(sweep[p])
        BY <2>1
      <3>2. j \in Jobs
        BY <1>0, <3>1 DEF Swept, SweepState, NoSweep
      <3> QED BY <3>1, <3>2, RowKeeps DEF Told
    <2>2. CASE Swept(sweep'[p]) \subseteq Found(Orphaned) /\ UNCHANGED tableVars
      BY <2>2 DEF Found, Orphaned, Exists, Later, tableVars
    <2> QED BY <2>1, <2>2, SweepSteps
  <1> QED BY <1>1, <1>2, <1>3 DEF Told

\* A message that is looked at goes on to be one, while the job waits, unless it came too
\* early and was refused.
LEMMA LooseStep ==
  ASSUME IInv, NothingDropped, Next, NEW j \in Jobs, Loose(j),
         Idling(rows[j]), Idling(rows'[j])
  PROVE  Loose(j)' \/ Later(rows[j])
  <1>1. PICK m \in Message : m.job = j /\ Has(m)
    BY DEF Loose
  <1>2. ASSUME NEW p \in Workers, ReserveClaims(p), task[p].message.job = j PROVE FALSE
    <2>1. Table!Claim(j)
      BY <1>2, SameStatements DEF ReserveClaims
    <2>2. rows'[j] = Table!Claimed(rows[j], minted[j] + 1)
      BY <2>1, Table!WrittenRow DEF Table!Claim, Table!WriteAndRecord, IInv
    <2>3. rows[j] \in Table!Row
      BY DEF IInv, Table!IInv
    <2>4. rows'[j].state = "running"
      BY <2>2, <2>3 DEF Table!Claimed, Table!Row
    <2> QED BY <2>4 DEF Idling
  <1>3. ASSUME NEW p \in Workers, ReserveRefused(p), task[p].message.job = j
        PROVE  Later(rows[j])
    BY <1>3 DEF ReserveRefused, Claimable, Waiting, Idling, Later
  <1> QED BY <1>1, <1>2, <1>3, HasStep

\* A job that goes on waiting keeps a message.
LEMMA MessageStep ==
  ASSUME IInv, NothingDropped, Next, NackIsPublished, NEW j \in Jobs,
         Loose(j) \/ Sent(j), Later(rows[j]) => Ahead(j, rows[j].attempts),
         Idling(rows[j]), Idling(rows'[j])
  PROVE  Loose(j)' \/ Sent(j)'
  <1>1. CASE Sent(j)
    BY <1>1, SentStep
  <1>2. CASE Later(rows[j])
    <2>1. PICK a : a = rows[j].attempts
      OBVIOUS
    <2>2. Ahead(j, a)'
      BY <1>2, <2>1, AheadStep
    <2>3. [job |-> j, after |-> a].job = j
      OBVIOUS
    <2> QED BY <2>2, <2>3 DEF Ahead, Sent, Parked
  <1> QED BY <1>1, <1>2, LooseStep

LEMMA TokensStep ==
  ASSUME IInv, LostInv, NothingDropped, Next, NackIsPublished
  PROVE  Tokens'
  <1> SUFFICES ASSUME NEW j \in Jobs, Owed(j)'
               PROVE  /\ Loose(j)' \/ Sent(j)'
                      /\ \A a : a = rows'[j].attempts /\ Later(rows'[j]) => Ahead(j, a)'
    BY DEF Tokens, Ahead, Later, Idling
  <1>1. CASE Owed(j) /\ Calm(rows[j], rows'[j])
    <2>1. Idling(rows[j]) /\ Idling(rows'[j])
      BY <1>1 DEF Owed, Idling
    <2>2. Loose(j) \/ Sent(j)
      BY <1>1 DEF LostInv, Tokens
    <2>3. Later(rows[j]) => Ahead(j, rows[j].attempts)
      BY <1>1 DEF LostInv, Tokens
    <2>4. PICK a : a = rows[j].attempts
      OBVIOUS
    <2>5. rows'[j].attempts = a /\ (Later(rows'[j]) => Later(rows[j]))
      BY <1>1, <2>1, <2>4 DEF Calm, Later
    <2>6. Later(rows[j]) => Ahead(j, a)'
      BY <2>3, <2>4, AheadStep
    <2> QED BY <2>1, <2>2, <2>3, <2>5, <2>6, MessageStep
  <1>2. CASE ~Marking(j) /\ Marking(j)' /\ rows'[j].state = "queued"
    <2>1. rows' = rows /\ rows[j].attempts = 0
      BY <1>2, MarkingStep DEF tableVars, LostInv, NewUntried
    <2> QED BY <1>2, <2>1, MarkingStep DEF Sent, Ahead, LostInv
  <1>3. CASE ~Owed(j) /\ Calm(rows[j], rows'[j])
    <2>1. /\ rows'[j].state = rows[j].state /\ rows'[j].state \in {"queued", "failed"}
      BY <1>3 DEF Owed, Calm, Idling
    <2>2. rows'[j].state = "queued" /\ ~Marking(j) /\ ~rows[j].published
      BY <1>3, <2>1 DEF Owed
    <2>3. CASE Quiet(rows[j], rows'[j])
      <3>1. ~rows'[j].published
        BY <2>1, <2>2, <2>3 DEF Quiet, Idling
      <3>2. Marking(j)'
        BY <2>2, <3>1 DEF Owed
      <3> QED BY <1>2, <2>2, <3>2
    <2>4. ASSUME NEW max \in Limits, NEW delay \in BOOLEAN, ~Exists(rows[j]),
                 rows'[j] = Table!Inserted(max, delay)
          PROVE  FALSE
      BY <2>1, <2>4 DEF Exists
    <2>5. ASSUME rows[j].state = "running" PROVE FALSE
      BY <2>1, <2>5
    <2> QED BY <2>2, <2>3, <2>4, <2>5, RowStep
  <1>4. ASSUME NEW max \in Limits, NEW delay \in BOOLEAN, ~Exists(rows[j]),
               rows'[j] = Table!Inserted(max, delay)
        PROVE  FALSE
    <2>1. rows'[j].state = "queued" /\ ~rows'[j].published
      BY <1>4, InsertedRow
    <2>2. Marking(j)'
      BY <2>1 DEF Owed
    <2>3. ~Marking(j)
      <3>1. \A p \in Procs : sweep[p].pc = "mark" => sweep[p].job \in Swept(sweep[p])
        BY DEF Swept
      <3> QED BY <1>4, <3>1 DEF Marking, LostInv, Told
    <2> QED BY <1>4, <2>2, <2>3, MarkingStep DEF LostInv
  <1>5. ASSUME rows[j].state = "running", rows[j] \in Table!Row,
               NEW delay \in BOOLEAN, rows'[j] = Table!Nacked(rows[j], delay)
        PROVE  /\ Sent(j)'
               /\ \A a : a = rows'[j].attempts /\ Later(rows'[j]) => Ahead(j, a)'
    <2>1. rows'[j].state # "queued"
      BY <1>5, NackedRow
    <2>2. rows'[j].state = "failed"
      BY <2>1 DEF Owed
    <2>3. PICK p \in Procs : /\ Offers(task'[p], j) /\ task'[p].lease = rows'[j].attempts
                             /\ rows'[j].run_after = "later" => task'[p].delay
      BY <1>5, <2>2, NackMade
    <2> QED BY <2>3 DEF Sent, Ahead, Later
  <1> QED BY <1>1, <1>3, <1>4, <1>5, RowStep DEF Quiet

\* And of a job that was never tried, whether or not a nack is published.
LEMMA NewTokensStep ==
  ASSUME IInv, NewInv, NothingDropped, Next
  PROVE  NewTokens'
  <1> DEFINE Goal(j) == /\ Loose(j)' \/ Parked(j)'
                        /\ Later(rows'[j]) => [job |-> j, after |-> 0] \in parked'
  <1> SUFFICES ASSUME NEW j \in Jobs, NewOwed(j)' PROVE Goal(j)
    BY DEF NewTokens, Later, Idling
  <1>0. NewUntried /\ Told /\ rows'[j].state = "queued"
    BY DEF NewInv, NewOwed
  <1>1. CASE NewOwed(j) /\ Calm(rows[j], rows'[j])
    <2>1. Idling(rows[j]) /\ Idling(rows'[j]) /\ rows[j].attempts = 0
      BY <1>0, <1>1 DEF NewOwed, Idling, NewUntried
    <2>2. Later(rows'[j]) => Later(rows[j])
      BY <1>1, <2>1 DEF Calm, Later
    <2>3. /\ Loose(j) \/ Parked(j)
          /\ Later(rows[j]) => [job |-> j, after |-> 0] \in parked
      BY <1>1 DEF NewInv, NewTokens
    <2>4. Later(rows[j]) => [job |-> j, after |-> 0] \in parked'
      BY <2>1, <2>3, ParkedStays
    <2>5. Later(rows[j]) => Parked(j)'
      <3>1. [job |-> j, after |-> 0].job = j
        OBVIOUS
      <3> QED BY <2>4, <3>1 DEF Parked
    <2> QED BY <2>1, <2>2, <2>3, <2>4, <2>5, LooseStep, ParkedMoves
  <1>2. CASE ~Marking(j) /\ Marking(j)'
    <2>1. rows' = rows
      BY <1>0, <1>2, MarkingStep DEF tableVars
    <2> QED BY <1>0, <1>2, <2>1, MarkingStep
  <1>3. CASE ~NewOwed(j) /\ Calm(rows[j], rows'[j])
    <2>1. rows[j].state = "queued" /\ ~Marking(j) /\ ~rows[j].published
      BY <1>0, <1>3 DEF NewOwed, Calm, Idling
    <2>2. Quiet(rows[j], rows'[j])
      BY <2>1, RowStep DEF Exists
    <2>3. Marking(j)'
      BY <1>0, <2>1, <2>2 DEF NewOwed, Quiet, Idling
    <2> QED BY <1>2, <2>1, <2>3
  <1>4. ASSUME NEW max \in Limits, NEW delay \in BOOLEAN, ~Exists(rows[j]),
               rows'[j] = Table!Inserted(max, delay)
        PROVE  FALSE
    <2>1. ~rows'[j].published
      BY <1>4, InsertedRow
    <2>2. Marking(j)'
      BY <2>1 DEF NewOwed
    <2>3. ~Marking(j)
      <3>1. \A p \in Procs : sweep[p].pc = "mark" => sweep[p].job \in Swept(sweep[p])
        BY DEF Swept
      <3> QED BY <1>0, <1>4, <3>1 DEF Marking, Told
    <2> QED BY <1>0, <1>4, <2>2, <2>3, MarkingStep
  <1>5. ASSUME rows[j] \in Table!Row, NEW delay \in BOOLEAN,
               rows'[j] = Table!Nacked(rows[j], delay)
        PROVE  FALSE
    BY <1>0, <1>5, NackedRow
  <1> HIDE DEF Goal
  <1> QED BY <1>1, <1>3, <1>4, <1>5, RowStep DEF Quiet

\* It holds at first: what was enqueued before is on the work queue.
LEMMA LostInit == Init => LostInv /\ NewInv
  <1> SUFFICES ASSUME Init PROVE LostInv /\ NewInv
    OBVIOUS
  <1>1. PICK max \in Limits :
          rows = [j \in Jobs |-> IF j \in Backlog THEN BacklogRow(max) ELSE AbsentRow]
    BY DEF Init
  <1>2. ASSUME NEW j \in Jobs \ Backlog
        PROVE  rows[j].state = "absent"
    BY <1>1 DEF AbsentRow
  <1>3. ASSUME NEW j \in Backlog
        PROVE  rows[j].state = "queued" /\ rows[j].attempts = 0 /\ rows[j].run_after = "due"
    <2>1. rows[j] = BacklogRow(max) /\ Table!RowInv(BacklogRow(max), 0, {})
      BY <1>1, BacklogOK
    <2> QED BY <2>1, BacklogOK DEF Table!RowInv
  <1>4. ASSUME NEW j \in Backlog PROVE Loose(j)
    <2>1. Fresh(j) \in Message /\ Fresh(j).job = j
      BY FreshType DEF Fresh
    <2>2. work = [m \in Message |-> IF m \in {Fresh(k) : k \in Backlog} THEN 1 ELSE 0]
      BY DEF Init
    <2>3. work[Fresh(j)] = 1
      BY <2>1, <2>2
    <2> QED BY <2>1, <2>3 DEF Loose, Has
  <1>5. Tokens /\ NewTokens
    BY <1>2, <1>3, <1>4 DEF Tokens, Owed, NewTokens, NewOwed, Later
  <1>6. NewUntried
    BY <1>2, <1>3 DEF NewUntried
  <1>7. Told
    BY DEF Init, Told, Swept, Idle, NoSweep
  <1> QED BY <1>5, <1>6, <1>7 DEF LostInv, NewInv

\* What the invariants say of a job that waits.
LEMMA LooseOffered ==
  ASSUME IInv, NEW j \in Jobs, Loose(j)
  PROVE  Offered(j)
  <1>1. PICK m \in Message : m.job = j /\ Has(m)
    BY DEF Loose
  <1>2. ASSUME NEW p \in Procs, Free(unacked[p], held[p], m) PROVE unacked[p][m] > 0
    BY <1>2 DEF Free, One, IInv, Types
  <1> QED BY <1>1, <1>2 DEF Has, Offered

LEMMA LostFinds ==
  ASSUME IInv, LostInv
  PROVE  NoJobLost
  <1> SUFFICES ASSUME NEW j \in Jobs, rows[j].state \in {"queued", "failed"}, rows[j].published
               PROVE  Offered(j)
    BY DEF NoJobLost, Lost
  <1>1. Loose(j) \/ Sent(j)
    BY DEF LostInv, Tokens, Owed
  <1>2. CASE Sent(j)
    BY <1>2 DEF Sent, Parked, Offers, Offered
  <1> QED BY <1>1, <1>2, LooseOffered

LEMMA NewFinds ==
  ASSUME IInv, NewInv
  PROVE  NewJobNeverLost
  <1> SUFFICES ASSUME NEW j \in Jobs, rows[j].state = "queued", rows[j].published
               PROVE  Offered(j)
    BY DEF NewJobNeverLost, Lost
  <1>1. Loose(j) \/ Parked(j)
    BY DEF NewInv, NewTokens, NewOwed
  <1> QED BY <1>1, LooseOffered DEF Parked, Offered

-----------------------------------------------------------------------------
(* The queue loses no job.                                                 *)

LEMMA LostInductive ==
  IInv /\ LostInv /\ [Next]_vars /\ [NackIsPublished /\ NothingDropped]_vars => LostInv'
  <1> SUFFICES ASSUME IInv, LostInv, [Next]_vars, [NackIsPublished /\ NothingDropped]_vars
               PROVE  LostInv'
    OBVIOUS
  <1>1. CASE Next /\ NackIsPublished /\ NothingDropped
    BY <1>1, TokensStep, NewUntriedStep, ToldStep DEF LostInv
  <1>2. CASE UNCHANGED vars
    <2> USE <1>2 DEF vars, tableVars, brokerVars, localVars
    <2>1. Tokens'
      BY DEF LostInv, Tokens, Owed, Marking, Loose, Has, Sent, Parked, Ahead
    <2>2. NewUntried' /\ Told'
      BY DEF LostInv, NewUntried, Told
    <2> QED BY <2>1, <2>2 DEF LostInv
  <1> QED BY <1>1, <1>2

LEMMA NewInductive ==
  IInv /\ NewInv /\ [Next]_vars /\ [NothingDropped]_vars => NewInv'
  <1> SUFFICES ASSUME IInv, NewInv, [Next]_vars, [NothingDropped]_vars PROVE NewInv'
    OBVIOUS
  <1>1. CASE Next /\ NothingDropped
    BY <1>1, NewTokensStep, NewUntriedStep, ToldStep DEF NewInv
  <1>2. CASE UNCHANGED vars
    <2> USE <1>2 DEF vars, tableVars, brokerVars, localVars
    <2>1. NewTokens'
      BY DEF NewInv, NewTokens, NewOwed, Marking, Loose, Has, Parked
    <2>2. NewUntried' /\ Told'
      BY DEF NewInv, NewUntried, Told
    <2> QED BY <2>1, <2>2 DEF NewInv
  <1> QED BY <1>1, <1>2

\* A job that was never tried is one that the maintenance loop will find, or has a message
\* that can reach a consumer, in every behaviour in which the broker drops no message:
\* whatever goes down, and whenever.
THEOREM NewJobNeverLostIfKept ==
  Spec /\ [][NothingDropped]_vars => []NewJobNeverLost
  <1>1. Init => IInv /\ NewInv
    BY InitOK, LostInit
  <1>2. IInv /\ NewInv /\ [Next]_vars /\ [NothingDropped]_vars => (IInv /\ NewInv)'
    BY InvInductive, NewInductive
  <1>3. IInv /\ NewInv => NewJobNeverLost
    BY NewFinds
  <1> QED BY <1>1, <1>2, <1>3, PTL DEF Spec

\* A job that waits for a consumer is one that the maintenance loop will find, or has a
\* message that can reach one, in every behaviour in which the broker drops no message
\* and each nack that made a job wait is followed by its publish: whatever else fails,
\* and whatever the loop, the clients and the clock do in between.
THEOREM NoJobLostIfPublished ==
  Spec /\ [][NackIsPublished /\ NothingDropped]_vars => []NoJobLost
  <1>1. Init => IInv /\ LostInv
    BY InitOK, LostInit
  <1>2. IInv /\ LostInv /\ [Next]_vars /\ [NackIsPublished /\ NothingDropped]_vars
          => (IInv /\ LostInv)'
    BY InvInductive, LostInductive
  <1>3. IInv /\ LostInv => NoJobLost
    BY LostFinds
  <1> QED BY <1>1, <1>2, <1>3, PTL DEF Spec

\* Three kinds of failure come between a nack and its publish.
Published == Failures \cap {"worker_crash", "finish", "publish"} = {}

LEMMA OfferKept ==
  ASSUME Published, IInv, Next, NEW p \in Procs,
         task[p].pc \in {"settle_publish", "publish"}
  PROVE  task'[p].pc \in {"settle_publish", "publish", "mark"}
  <1>0. task \in [Procs -> TaskState]
    BY DEF IInv, Types
  <1>1. p \notin Producers
    BY DEF IInv, Passive, Idle
  <1>2. ~Crash(p)
    BY <1>1 DEF Crash, Fault, Published
  <1>3. ~NackPublishFails(p)
    BY DEF NackPublishFails, Fault, Published
  <1>4. NackPublish(p) => task'[p].pc = "mark"
    BY <1>0 DEF NackPublish, SetTask
  <1> QED BY <1>2, <1>3, <1>4, OfferMoves

LEMMA NackOffers ==
  ASSUME Published, IInv, Next, NEW j \in Jobs,
         rows[j].state # "failed", rows'[j].state = "failed"
  PROVE  \E p \in Procs : /\ task[p].pc # "settle_publish"
                          /\ task'[p].pc = "settle_publish" /\ task'[p].job = j
  <1>0. task \in [Procs -> TaskState]
    BY DEF IInv, Types
  <1>1. PICK delay \in BOOLEAN : /\ rows[j].state = "running" /\ rows[j] \in Table!Row
                                 /\ rows'[j] = Table!Nacked(rows[j], delay)
                                 /\ GivingBack(delay)
    <2>1. ~Calm(rows[j], rows'[j])
      BY DEF Calm, Idling
    <2>2. \A max \in Limits, delay \in BOOLEAN : rows'[j] # Table!Inserted(max, delay)
      BY InsertedRow
    <2> QED BY <2>1, <2>2, RowStep DEF Quiet
  <1>2. PICK p \in Workers : NackRow(p, delay)
    <2>1. \A p \in Workers : ~FinishFails(p, delay)
      BY DEF FinishFails, Fault, Published
    <2> QED BY <1>1, <2>1 DEF GivingBack
  <1>3. rows'[j] # rows[j]
    OBVIOUS
  <1>4. /\ Store!Nack(task[p].job, task[p].lease, delay) /\ task[p].pc = "work"
        /\ SetTask(p, IF NackedState(rows[task[p].job]) = "failed"
                      THEN [pc |-> "settle_publish", job |-> task[p].job,
                            lease |-> task[p].lease, delay |-> delay]
                      ELSE [pc |-> "settle", job |-> task[p].job, lease |-> task[p].lease])
    BY <1>2, <1>3 DEF NackRow, Working, tableVars
  <1>5. task[p].job = j
    <2>1. PICK k \in Jobs : k = task[p].job
      BY <1>4, WorkingIs DEF HasLease
    <2>2. Table!Nack(k, task[p].lease, delay)
      BY <1>4, <2>1, SameStatements
    <2>3. k # j => rows'[j] = rows[j]
      BY <2>2, Table!WrittenRow DEF Table!Nack, Table!WriteAndRecord, IInv
    <2> QED BY <1>3, <2>1, <2>3
  <1>6. NackedState(rows[j]) = "failed"
    <2>1. rows'[j].state = Table!NackedState(rows[j])
      BY <1>1, NackedRow
    <2> QED BY <2>1 DEF NackedState, Table!NackedState
  <1>7. task'[p] = [pc |-> "settle_publish", job |-> j, lease |-> task[p].lease,
                    delay |-> delay]
    BY <1>0, <1>4, <1>5, <1>6 DEF SetTask
  <1> QED BY <1>4, <1>7

-----------------------------------------------------------------------------
(* What the broker counts.                                                 *)

\* If it counts, the only channels that close are the producers', one each, and there are
\* no more of them than it counts to.
Roomy == Counting => /\ Failures \cap {"worker_crash", "blip"} = {}
                     /\ IsFiniteSet(Producers) /\ Cardinality(Producers) <= DeliveryLimit

Present(m) == work[m] > 0 \/ \E p \in Procs : unacked[p][m] > 0

Closed == {p \in Producers : p \notin up}

\* No message has been returned more often than channels have closed, and a producer's
\* does not close twice.
Returned ==
  /\ \A p \in Closed : producer[p].pc = "done"
  /\ \A m \in Message : Present(m) => m.returns <= Cardinality(Closed)

\* The message came back with a channel.
Back(m) == \E p \in Procs, n \in Message :
             Closing(p) /\ unacked[p][n] > 0 /\ m.returns = n.returns + 1

LEMMA ReleasePresent ==
  ASSUME IInv, NEW p \in Procs, NEW j \in Jobs, NEW l, Release(p, j, l),
         NEW q \in Procs, NEW m \in Message, unacked'[q][m] > 0
  PROVE  unacked[q][m] > 0
  <1>0. unacked \in [Procs -> [Message -> Nat]]
    BY DEF IInv, Types
  <1>1. CASE Settle(p, Held(j, held[p][j]), held[p][j].live)
    BY <1>0, <1>1 DEF Settle
  <1> QED BY <1>1 DEF Release

LEMMA PublishPresent ==
  ASSUME IInv, NEW j \in Jobs, NEW delay, NEW after, Publish(j, delay, after),
         NEW m \in Message, work'[m] > 0
  PROVE  work[m] > 0 \/ m.returns = 0
  <1>1. Fresh(j).returns = 0 /\ work \in [Message -> Nat]
    BY DEF Fresh, IInv, Types
  <1>2. work' = work \/ work' = [work EXCEPT ![Fresh(j)] = @ + 1]
    BY DEF Publish
  <1> QED BY <1>1, <1>2

LEMMA RequeuePresent ==
  ASSUME IInv, Counting, NEW p \in Procs, Requeue(p), Closing(p),
         NEW m \in Message, Present(m)'
  PROVE  Present(m) \/ Back(m)
  <1>0. work \in [Message -> Nat] /\ unacked \in [Procs -> [Message -> Nat]]
    BY DEF IInv, Types
  <1>1. ASSUME NEW q \in Procs, unacked'[q][m] > 0 PROVE Present(m)
    <2>1. unacked'[q][m] = IF q = p THEN 0 ELSE unacked[q][m]
      BY <1>0 DEF Requeue
    <2> QED BY <1>1, <2>1 DEF Present
  <1>2. CASE work'[m] > 0 /\ m.returns = 0
    <2>1. work'[m] = work[m] + 0
      BY <1>2 DEF Requeue
    <2> QED BY <1>0, <1>2, <2>1 DEF Present
  <1>3. CASE work'[m] > 0 /\ m.returns # 0
    <2>1. PICK n \in Message : n = [m EXCEPT !.returns = @ - 1]
      BY <1>3, ReturnType
    <2>2. work'[m] = work[m] + unacked[p][n]
      BY <1>3, <2>1 DEF Requeue
    <2>3. m.returns = n.returns + 1
      BY <1>3, <2>1 DEF Message
    <2>4. CASE unacked[p][n] > 0
      BY <2>3, <2>4 DEF Back
    <2> QED BY <1>0, <1>3, <2>2, <2>4 DEF Present
  <1> QED BY <1>1, <1>2, <1>3 DEF Present

\* A message is new, or came back with a channel, or has been there.
LEMMA PresentStep ==
  ASSUME IInv, Counting, Next, NEW m \in Message, Present(m)'
  PROVE  Present(m) \/ m.returns = 0 \/ Back(m)
  <1> DEFINE Goal == Present(m) \/ m.returns = 0 \/ Back(m)
             Fewer == \A q \in Procs : unacked'[q][m] > 0 => unacked[q][m] > 0
             NoNew == work'[m] > 0 => work[m] > 0 \/ m.returns = 0
  <1> USE DEF brokerVars
  <1>0. work \in [Message -> Nat] /\ unacked \in [Procs -> [Message -> Nat]]
    BY DEF IInv, Types
  <1>1. UNCHANGED unacked => Fewer
    OBVIOUS
  <1>2. UNCHANGED work => NoNew
    OBVIOUS
  <1>3. Fewer /\ NoNew => Goal
    BY DEF Present
  <1>4. ASSUME NEW j \in Jobs, NEW delay, NEW after, Publish(j, delay, after) PROVE NoNew
    BY <1>4, PublishPresent
  <1>5. ASSUME NEW p \in Procs, Requeue(p), Closing(p) PROVE Goal
    BY <1>5, RequeuePresent
  <1>6. ASSUME NEW p \in Procs, NEW j \in Jobs, NEW l, Release(p, j, l) PROVE Fewer
    BY <1>6, ReleasePresent
  <1>7. ASSUME NEW n \in parked, ParkingOver(n) PROVE Goal
    <2>1. n.job \in Jobs
      BY DEF IInv, Types
    <2>2. Fresh(n.job).returns = 0
      BY DEF Fresh
    <2>3. NoNew
      BY <1>0, <1>7, <2>1, <2>2 DEF ParkingOver
    <2> HIDE DEF Goal, NoNew, Fewer
    <2> QED BY <1>1, <1>3, <1>7, <2>3 DEF ParkingOver
  <1>8. ASSUME NEW p \in Procs, NEW n \in Message, Deliver(p, n) PROVE Goal
    <2>1. CASE n = m
      BY <1>8, <2>1 DEF Deliver, Present
    <2>2. CASE n # m
      <3>1. Fewer /\ NoNew
        BY <1>0, <1>8, <2>2 DEF Deliver
      <3> HIDE DEF Goal, NoNew, Fewer
      <3> QED BY <1>3, <3>1
    <2> QED BY <2>1, <2>2
  <1> HIDE DEF Goal, NoNew, Fewer
  <1>9. ASSUME NEW p \in Producers, Enqueueing(p) \/ GiveUp(p) PROVE Goal
    <2>1. CASE EnqueuePublish(p)
      <3>1. producer[p].job \in Jobs
        BY <2>1, ProducerIs DEF EnqueuePublish
      <3> QED BY <1>1, <1>3, <1>4, <2>1, <3>1 DEF EnqueuePublish
    <2>2. CASE Close(p)
      <3>1. Requeue(p) /\ Closing(p)
        BY <2>2 DEF Close, Closing
      <3> QED BY <1>5, <3>1
    <2>3. CASE EnqueueMark(p) \/ \E k \in Jobs : \/ EnqueueDuplicate(p, k)
                                                \/ \E max \in Limits, delay \in Delays :
                                                     EnqueueInsert(p, k, max, delay)
      BY <1>1, <1>2, <1>3, <2>3 DEF EnqueueMark, EnqueueDuplicate, EnqueueInsert
    <2> QED BY <1>9, <2>1, <2>2, <2>3 DEF Enqueueing, FollowEnds, GiveUp
  <1>10. ASSUME NEW p \in Workers, Consuming(p) PROVE Goal
    <2>1. CASE NackPublish(p)
      <3>1. task[p].job \in Jobs
        BY <2>1, WorkingIs DEF NackPublish, HasLease
      <3> QED BY <1>1, <1>3, <1>4, <2>1, <3>1 DEF NackPublish
    <2>2. CASE ReserveNext(p) \/ ReserveClaims(p) \/ NackMark(p)
      BY <1>1, <1>2, <1>3, <2>2 DEF ReserveNext, ReserveClaims, NackMark
    <2>3. CASE SettleFinished(p)
      <3>1. Release(p, task[p].job, task[p].lease) /\ task[p].job \in Jobs /\ work' = work
        BY <2>3, WorkingIs DEF SettleFinished, HasLease
      <3> QED BY <1>2, <1>3, <1>6, <3>1
    <2>4. CASE ReserveRefused(p)
      <3>1. work' = work /\ \E n \in {task[p].message}, live \in {task[p].live} : Settle(p, n, live)
        BY <2>4 DEF ReserveRefused
      <3>2. Fewer
        BY <1>0, <3>1 DEF Settle, Fewer
      <3> QED BY <1>2, <1>3, <3>1, <3>2
    <2> QED BY <1>10, <2>1, <2>2, <2>3, <2>4 DEF Consuming
  <1>11. ASSUME NEW p \in Workers, ExtendLease(p) \/ Finishing(p) PROVE Goal
    <2>1. CASE DiscardStale(p)
      <3>1. Release(p, task[p].job, task[p].lease) /\ task[p].job \in Jobs /\ work' = work
        BY <2>1, WorkingIs DEF DiscardStale, Working, HasLease
      <3> QED BY <1>2, <1>3, <1>6, <3>1
    <2>2. CASE ExtendLease(p) \/ AckRow(p) \/ \E delay \in Delays : NackRow(p, delay)
      BY <1>1, <1>2, <1>3, <2>2 DEF ExtendLease, AckRow, NackRow
    <2> QED BY <1>11, <2>1, <2>2 DEF Finishing
  <1>12. ASSUME NEW p \in Procs, Maintaining(p) PROVE Goal
    <2>1. CASE SweepRetire(p)
      <3>1. work' = work
        BY <2>1 DEF SweepRetire
      <3>2. ASSUME NEW q \in Procs, unacked'[q][m] > 0 PROVE unacked[q][m] > 0
        <4>1. unacked'[q][m] \in {unacked[q][m], unacked[q][m] - 1}
          BY <1>0, <2>1 DEF SweepRetire
        <4> QED BY <1>0, <3>2, <4>1
      <3> QED BY <1>2, <1>3, <3>1, <3>2 DEF Fewer
    <2>2. CASE SweepFindOrphans(p) \/ SweepMark(p)
      BY <1>1, <1>2, <1>3, <2>2 DEF SweepFindOrphans, SweepMark
    <2>3. ASSUME NEW k \in Jobs, SweepLapsed(p, k) PROVE Goal
      <3>1. Release(p, k, NoLease) /\ (work' = work \/ Publish(k, FALSE, 0))
        BY <2>3 DEF SweepLapsed
      <3> QED BY <1>2, <1>3, <1>4, <1>6, <3>1
    <2>4. ASSUME NEW k \in Jobs, SweepPublish(p, k) PROVE Goal
      BY <1>1, <1>3, <1>4, <2>4 DEF SweepPublish
    <2> QED BY <1>12, <2>1, <2>2, <2>3, <2>4 DEF Maintaining
  <1>13. ASSUME NEW p \in Procs, Failing(p) PROVE Goal
    <2>1. CASE SweepFails(p)
      <3>1. work' = work
        BY <2>1 DEF SweepFails
      <3>2. ASSUME NEW k \in sweep[p].todo, sweep[p].pc = "lapsed", Release(p, k, NoLease)
            PROVE  Fewer
        BY <1>6, <3>2, SweepIs
      <3> QED BY <1>1, <1>2, <1>3, <2>1, <3>1, <3>2 DEF SweepFails
    <2>2. CASE Crash(p) \/ Blip(p)
      <3>1. Requeue(p) /\ Closing(p)
        BY <2>2 DEF Crash, Blip, Closing
      <3> QED BY <1>5, <3>1
    <2>3. CASE \/ ReserveFails(p) \/ SpawnFails(p) \/ NackPublishFails(p)
               \/ \E delay \in Delays : FinishFails(p, delay)
      BY <1>1, <1>2, <1>3, <2>3 DEF ReserveFails, SpawnFails, NackPublishFails, FinishFails
    <2> QED BY <1>13, <2>1, <2>2, <2>3 DEF Failing
  <1>14. ASSUME NEW k \in Jobs, ClientCancels(k) \/ Clock(k) PROVE Goal
    BY <1>1, <1>2, <1>3, <1>14 DEF ClientCancels, Clock
  <1>15. ASSUME NEW p \in Procs, NEW k \in Jobs, QuietOver(p, k) PROVE Goal
    BY <1>1, <1>2, <1>3, <1>15 DEF QuietOver
  <1>16. Goal
    BY <1>7, <1>8, <1>9, <1>10, <1>11, <1>12, <1>13, <1>14, <1>15 DEF Next
  <1> QED BY <1>16 DEF Goal

\* The connections close with a producer's process, or with its connection.
LEMMA UpSteps ==
  ASSUME IInv, Next
  PROVE  up' = up \/ \E p \in Procs : Crash(p) \/ (p \in Producers /\ Close(p))
  <1> USE DEF localVars
  <1>1. CASE \E m \in parked : ParkingOver(m)
    BY <1>1 DEF ParkingOver
  <1>2. CASE \E q \in Procs : \/ \E m \in Message : Deliver(q, m)
                              \/ \E j \in Jobs : QuietOver(q, j)
    BY <1>2 DEF Deliver, QuietOver
  <1>3. CASE \E q \in Producers : Enqueueing(q) \/ GiveUp(q)
    BY <1>3 DEF Enqueueing, EnqueueInsert, EnqueueDuplicate, EnqueuePublish, EnqueueMark,
       FollowEnds, GiveUp
  <1>4. CASE \E q \in Workers : Consuming(q) \/ ExtendLease(q) \/ Finishing(q)
    BY <1>4 DEF Consuming, ReserveNext, ReserveClaims, ReserveRefused, SettleFinished,
       NackPublish, NackMark, ExtendLease, Finishing, AckRow, NackRow, DiscardStale
  <1>5. CASE \E q \in Procs : Maintaining(q)
    BY <1>5 DEF Maintaining, SweepRetire, SweepFindOrphans, SweepMark, SweepLapsed, SweepPublish
  <1>6. CASE \E q \in Procs : Failing(q)
    BY <1>6 DEF Failing, SweepFails, Blip, ReserveFails, SpawnFails, NackPublishFails, FinishFails
  <1>7. CASE \E j \in Jobs : ClientCancels(j) \/ Clock(j)
    BY <1>7 DEF ClientCancels, Clock
  <1> QED BY <1>1, <1>2, <1>3, <1>4, <1>5, <1>6, <1>7 DEF Next

\* A producer that is done stays so.
LEMMA DoneStays ==
  ASSUME IInv, Next, NEW p \in Producers, producer[p].pc = "done"
  PROVE  producer'[p].pc = "done"
  <1>0. producer \in [Producers -> ProducerState]
    BY DEF IInv, Types
  <1>1. ASSUME NEW q \in Producers, Enqueueing(q) \/ GiveUp(q) PROVE q # p /\ producer'[p] = producer[p]
    BY <1>0, <1>1 DEF Enqueueing, GiveUp, FollowEnds, Close, EnqueueInsert, EnqueueDuplicate,
       EnqueuePublish, EnqueueMark, SetProducer
  <1>2. ASSUME NEW q \in Procs, Crash(q) PROVE producer'[p].pc = "done"
    BY <1>0, <1>2 DEF Crash
  <1> QED BY <1>1, <1>2, ProducerMoves

\* A channel that closes is one more of the producers'.
LEMMA ClosingStep ==
  ASSUME IInv, Counting, Roomy, Returned, NEW p \in Procs, Closing(p)
  PROVE  /\ p \in Producers \ Closed /\ Closed' = Closed \cup {p}
         /\ producer' = [producer EXCEPT ![p] = [pc |-> "done"]]
  <1>1. /\ p \in Producers /\ p \in up /\ up' = up \ {p}
        /\ producer' = [producer EXCEPT ![p] = [pc |-> "done"]]
    <2>1. CASE Crash(p)
      <3>1. p \notin Workers
        BY <2>1 DEF Crash, Fault, Roomy
      <3> QED BY <2>1, <3>1 DEF Crash
    <2>2. ~Blip(p)
      BY DEF Blip, Fault, Roomy
    <2>3. CASE p \in Producers /\ Close(p)
      <3>1. producer[p].pc = "follow" /\ up' = up \ {p}
            /\ producer' = [producer EXCEPT ![p] = [pc |-> "done"]]
        BY <2>3 DEF Close, SetProducer
      <3>2. p \notin Closed
        BY <3>1 DEF Returned
      <3> QED BY <2>3, <3>1, <3>2 DEF Closed
    <2> QED BY <2>1, <2>2, <2>3 DEF Closing
  <1> QED BY <1>1 DEF Closed

LEMMA ClosedCounts ==
  ASSUME Counting, Roomy
  PROVE  /\ IsFiniteSet(Closed) /\ Cardinality(Closed) \in Nat
         /\ \A p \in Producers \ Closed :
              /\ Cardinality(Closed \cup {p}) = Cardinality(Closed) + 1
              /\ Cardinality(Closed) < DeliveryLimit
  <1>1. IsFiniteSet(Producers) /\ Cardinality(Producers) <= DeliveryLimit
    BY DEF Roomy
  <1>2. IsFiniteSet(Closed) /\ Cardinality(Closed) \in Nat
    BY <1>1, FS_Subset, FS_CardinalityType DEF Closed
  <1>3. ASSUME NEW p \in Producers \ Closed
        PROVE  /\ Cardinality(Closed \cup {p}) = Cardinality(Closed) + 1
               /\ Cardinality(Closed) < DeliveryLimit
    <2>1. Cardinality(Closed \cup {p}) = Cardinality(Closed) + 1
      BY <1>2, FS_AddElement
    <2>2. Closed \cup {p} \subseteq Producers
      BY DEF Closed
    <2>3. Cardinality(Closed \cup {p}) <= Cardinality(Producers) /\ Cardinality(Producers) \in Nat
      BY <1>1, <2>2, FS_Subset, FS_CardinalityType
    <2> QED BY <1>1, <1>2, <2>1, <2>3
  <1> QED BY <1>2, <1>3

\* So no message that it has was returned as often as the broker allows.
LEMMA RoomySpares ==
  ASSUME IInv, Roomy, Counting => Returned
  PROVE  NothingDropped
  <1> SUFFICES ASSUME NEW p \in Procs, Closing(p), NEW m \in Message,
                      Counting, m.returns = DeliveryLimit
               PROVE  unacked[p][m] = 0
    BY DEF NothingDropped, Spared
  <1>1. Cardinality(Closed) < DeliveryLimit /\ Cardinality(Closed) \in Nat
    BY ClosingStep, ClosedCounts
  <1>2. ~Present(m)
    BY <1>1 DEF Returned, Message
  <1>3. unacked[p][m] \in Nat
    BY DEF IInv, Types
  <1> QED BY <1>2, <1>3 DEF Present

LEMMA ReturnedInductive ==
  ASSUME IInv, Counting, Roomy, Returned, [Next]_vars
  PROVE  Returned'
  <1>0. IsFiniteSet(Closed) /\ Cardinality(Closed) \in Nat
    BY ClosedCounts
  <1>1. CASE Next
    <2>1. CASE \E p \in Procs : Closing(p)
      <3>1. PICK p \in Procs : Closing(p)
        BY <2>1
      <3>2. /\ p \in Producers \ Closed /\ Closed' = Closed \cup {p}
            /\ producer' = [producer EXCEPT ![p] = [pc |-> "done"]]
        BY <3>1, ClosingStep
      <3>3. Cardinality(Closed)' = Cardinality(Closed) + 1
        BY <3>2, ClosedCounts
      <3>4. \A q \in Closed' : producer'[q].pc = "done"
        <4>1. producer \in [Producers -> ProducerState]
          BY DEF IInv, Types
        <4> QED BY <3>2, <4>1 DEF Returned, Closed
      <3>5. ASSUME NEW m \in Message, Present(m)' PROVE m.returns <= Cardinality(Closed)'
        <4>1. CASE Present(m) \/ m.returns = 0
          BY <1>0, <3>3, <4>1 DEF Returned, Message
        <4>2. CASE Back(m)
          <5>1. PICK q \in Procs, n \in Message : unacked[q][n] > 0 /\ m.returns = n.returns + 1
            BY <4>2 DEF Back
          <5>2. n.returns <= Cardinality(Closed)
            BY <5>1 DEF Returned, Present
          <5> QED BY <1>0, <3>3, <5>1, <5>2 DEF Message
        <4> QED BY <1>1, <3>5, <4>1, <4>2, PresentStep
      <3> QED BY <3>4, <3>5 DEF Returned
    <2>2. CASE ~\E p \in Procs : Closing(p)
      <3>1. Closed' = Closed
        BY <1>1, <2>2, UpSteps DEF Closing, Closed
      <3>2. \A q \in Closed' : producer'[q].pc = "done"
        BY <1>1, <3>1, DoneStays DEF Returned, Closed
      <3>3. ASSUME NEW m \in Message, Present(m)' PROVE m.returns <= Cardinality(Closed)'
        <4>1. Present(m) \/ m.returns = 0
          BY <1>1, <2>2, <3>3, PresentStep DEF Back
        <4> QED BY <1>0, <3>1, <4>1 DEF Returned
      <3> QED BY <3>2, <3>3 DEF Returned
    <2> QED BY <2>1, <2>2
  <1>2. CASE UNCHANGED vars
    BY <1>2 DEF vars, brokerVars, localVars, Returned, Present, Closed
  <1> QED BY <1>1, <1>2

LEMMA ReturnedInit == Init => Returned
  <1> SUFFICES ASSUME Init PROVE Returned
    OBVIOUS
  <1>1. Closed = {}
    BY DEF Init, Closed
  <1>2. Cardinality(Closed) = 0
    BY <1>1, FS_EmptySet
  <1>3. ASSUME NEW m \in Message, Present(m) PROVE m.returns = 0
    <2>1. m \in {Fresh(j) : j \in Backlog}
      BY <1>3 DEF Init, Present
    <2> QED BY <2>1 DEF Fresh
  <1> QED BY <1>1, <1>2, <1>3 DEF Returned

\* No job that was never tried is lost, with every kind of failure, while the broker does
\* not count; if it counts, while only producers go down and there are no more of them than
\* it counts to.
THEOREM NewJobNeverLostHolds ==
  ASSUME Counting => /\ Failures \cap {"worker_crash", "blip"} = {}
                     /\ IsFiniteSet(Producers) /\ Cardinality(Producers) <= DeliveryLimit
  PROVE  Spec => []NewJobNeverLost
  <1>1. Roomy
    BY DEF Roomy
  <1>2. Init => IInv /\ (Counting => Returned)
    BY InitOK, ReturnedInit
  <1>3. IInv /\ (Counting => Returned) /\ [Next]_vars => (IInv /\ (Counting => Returned))'
    BY <1>1, InvInductive, ReturnedInductive
  <1>4. IInv /\ (Counting => Returned) /\ [Next]_vars => [NothingDropped]_vars
    BY <1>1, RoomySpares
  <1>5. Spec => [][NothingDropped]_vars
    BY <1>2, <1>3, <1>4, PTL DEF Spec
  <1> QED BY <1>5, NewJobNeverLostIfKept, PTL

\* No job is lost while no worker goes down, no transaction that ends a claim is lost and
\* no publish fails: claims that raise, children that cannot be started, producers that go
\* down and passes of the maintenance loop that fail lose none.  If the broker counts, no
\* connection drops and there are no more producers than it counts to.
THEOREM NoJobLostHolds ==
  ASSUME Failures \cap {"worker_crash", "finish", "publish"} = {},
         Counting => /\ "blip" \notin Failures
                     /\ IsFiniteSet(Producers) /\ Cardinality(Producers) <= DeliveryLimit
  PROVE  Spec => []NoJobLost
  <1>1. Published /\ Roomy
    BY DEF Published, Roomy
  <1>2. Init => IInv /\ (Counting => Returned)
    BY InitOK, ReturnedInit
  <1>3. IInv /\ (Counting => Returned) /\ [Next]_vars => (IInv /\ (Counting => Returned))'
    BY <1>1, InvInductive, ReturnedInductive
  <1>4. IInv /\ (Counting => Returned) /\ [Next]_vars => [NackIsPublished /\ NothingDropped]_vars
    <2> SUFFICES ASSUME IInv, Counting => Returned, Next PROVE NackIsPublished /\ NothingDropped
      OBVIOUS
    <2> QED BY <1>1, OfferKept, NackOffers, RoomySpares DEF NackIsPublished
  <1>5. Spec => [][NackIsPublished /\ NothingDropped]_vars
    BY <1>2, <1>3, <1>4, PTL DEF Spec
  <1> QED BY <1>5, NoJobLostIfPublished, PTL

=============================================================================
