------------------------------ MODULE JobQueue ------------------------------
(***************************************************************************)
(* RabbitMQJobQueue: several processes that move job ids through a broker, *)
(* with the `jobs` table as the system of record.  A process that produces *)
(* (dev/enqueue.py) enqueues one job, follows it to its end and closes; a  *)
(* process that works (worker/) reserves, works and finishes; any process  *)
(* runs the maintenance loop.  Every await that reaches Postgres or the    *)
(* broker is a step of its own, so the steps of different processes, and   *)
(* of the tasks of one process, interleave.                                *)
(*                                                                         *)
(* The broker is external: a work queue that forgets the order of its      *)
(* messages, a parking queue whose messages expire into it, and for each   *)
(* channel the deliveries it has not seen settled.  When a channel closes  *)
(* these go back to the work queue, up to x-delivery-limit times each.     *)
(***************************************************************************)
EXTENDS JobRow, Sequences, FiniteSets, FiniteSetsExt

CONSTANTS Jobs, InSession, Limits,  \* as in JobStore
          Workers,    \* processes that reserve
          Producers,  \* processes that enqueue one job and follow it
          Sweepers,   \* processes that live long enough for a maintenance pass
          DeliveryLimit, \* x-delivery-limit
          Counting,   \* whether the broker counts returns: it need not in an
                      \* instance where fewer channels close than the limit
          Prefetch,   \* deliveries a channel may hold unsettled
          Delays,     \* whether retry_in and JobRequest.delay may be positive
          Backlog,    \* jobs enqueued and published before the model begins
          MaxCopies,  \* bound on the messages of one job that a repeated
                      \* offer of the maintenance loop may add to
          Failures,   \* the kinds of failure that happen
          MaxFaults   \* bound on the number of failures

Procs == Workers \cup Producers

FaultKinds == {"worker_crash", "producer_crash", "blip", "claim", "spawn",
               "finish", "publish", "sweep"}

ASSUME QueueAssumption ==
  /\ InSession \subseteq Jobs /\ Limits \subseteq Nat \ {0}
  /\ Workers \cap Producers = {} /\ Sweepers \subseteq Procs
  /\ Prefetch \in Nat \ {0} /\ {DeliveryLimit, MaxCopies} \subseteq Nat
  /\ Counting \in BOOLEAN
  /\ Delays \subseteq BOOLEAN /\ Backlog \subseteq Jobs
  /\ Failures \subseteq FaultKinds /\ MaxFaults \in Nat

VARIABLES
  rows, minted, events, acked,  \* the table, see JobStore
  work,         \* the messages ready on the work queue, a bag
  parked,       \* messages on the parking queue, until their TTL is over
  unacked,      \* process -> the messages its channel has not settled, a bag
  up,           \* processes whose connection is open
  incoming,     \* _incoming: deliveries taken and not reserved yet
  held,         \* _held: the lease and the delivery behind each claim
  republished,  \* _republished: jobs offered again, and not to be yet
  task,         \* where the process's reserve / ack / nack is
  producer,     \* where the producer's enqueue is
  sweep,        \* where the process's maintenance pass is
  faults        \* failures so far

tableVars == <<rows, minted, events, acked>>
brokerVars == <<work, parked, unacked>>
localVars == <<up, incoming, held, republished>>
vars == <<tableVars, brokerVars, localVars, task, producer, sweep, faults>>

Store == INSTANCE JobStore

\* A message, with the broker's count of the channels that closed on it.
Message == [job : Jobs, returns : 0..DeliveryLimit]

Fresh(j) == [job |-> j, returns |-> 0]

Delivery == [message : Message, live : BOOLEAN]

\* What stands in _held for a job, less the job.
NotHeld == [lease |-> NoLease, returns |-> 0, live |-> FALSE]

Held(j, h) == [job |-> j, returns |-> h.returns]

Idle == [pc |-> "idle"]

NoSweep == [pc |-> "retire"]

TypeOK ==
  /\ Store!TypeOK
  /\ work \in [Message -> Nat]
  /\ parked \subseteq [job : Jobs, after : Nat]
  /\ unacked \in [Procs -> [Message -> Nat]]
  /\ up \subseteq Procs
  /\ incoming \in [Procs -> Seq(Delivery)]
  /\ held \in [Procs -> [Jobs -> [lease : Nat, returns : 0..DeliveryLimit,
                                  live : BOOLEAN]]]
  /\ republished \in [Procs -> SUBSET Jobs]
  /\ \A p \in Procs :
       \/ task[p] = Idle
       \/ task[p] \in [pc : {"claim"}, message : Message, live : BOOLEAN]
       \/ task[p] \in [pc : {"work", "settle"}, job : Jobs, lease : Nat \ {0}]
       \/ task[p] \in [pc : {"settle_publish", "publish"}, job : Jobs,
                       lease : Nat \ {0}, delay : BOOLEAN]
       \/ task[p] \in [pc : {"mark"}, job : Jobs]
  /\ \A p \in Producers :
       \/ producer[p] \in [pc : {"start", "done"}]
       \/ producer[p] \in [pc : {"publish"}, job : Jobs, delay : BOOLEAN]
       \/ producer[p] \in [pc : {"mark", "follow"}, job : Jobs]
  /\ \A p \in Procs :
       \/ sweep[p] = NoSweep
       \/ sweep[p] \in [pc : {"lapsed", "unpublished"}, todo : SUBSET Jobs]
       \/ sweep[p] \in [pc : {"mark"}, todo : SUBSET Jobs, job : Jobs]
  /\ faults \in Nat

\* The row of a job that insert_or_get committed and mark_published marked.
BacklogRow(max) == MarkedPublished(Inserted(max, FALSE))

Init ==
  /\ \E max \in Limits :
       rows = [j \in Jobs |-> IF j \in Backlog THEN BacklogRow(max) ELSE AbsentRow]
  /\ minted = [j \in Jobs |-> 0]
  /\ events = [j \in Jobs |-> IF j \in Backlog \cap InSession
                              THEN <<"queued">> ELSE <<>>]
  /\ acked = [j \in Jobs |-> {}]
  /\ work = [m \in Message |-> IF m \in {Fresh(j) : j \in Backlog} THEN 1 ELSE 0]
  /\ parked = {}
  /\ unacked = [p \in Procs |-> [m \in Message |-> 0]]
  /\ up = Procs
  /\ incoming = [p \in Procs |-> <<>>]
  /\ held = [p \in Procs |-> [j \in Jobs |-> NotHeld]]
  /\ republished = [p \in Procs |-> {}]
  /\ task = [p \in Procs |-> Idle]
  /\ producer = [p \in Producers |-> [pc |-> "start"]]
  /\ sweep = [p \in Procs |-> NoSweep]
  /\ faults = 0

Fault(k) == /\ k \in Failures
            /\ faults < MaxFaults
            /\ faults' = faults + 1

-----------------------------------------------------------------------------
(* The broker.                                                             *)

Of(bag, j) == SumFunctionOnSet(bag, {m \in Message : m.job = j})

Unsettled(p) == SumFunctionOnSet(unacked[p], Message)

\* _publish: straight to the work queue, or through the parking queue.  `after`
\* is the attempt that the delay follows.
Publish(j, delay, after) ==
  IF delay
  THEN /\ parked' = parked \cup {[job |-> j, after |-> after]}
       /\ UNCHANGED work
  ELSE /\ work' = [work EXCEPT ![Fresh(j)] = @ + 1]
       /\ UNCHANGED parked

\* Mutant: the TTL is not the time the job is to wait.
TtlAnytime(m) == m \in parked

\* A message leaves the parking queue no earlier than the run_after it was
\* published for: the TTL is the same interval, counted from a later moment.
TtlOver(m) == ~ /\ rows[m.job].state \in {"queued", "failed"}
                /\ rows[m.job].run_after = "later"
                /\ rows[m.job].attempts = m.after

ParkingOver(m) ==
  /\ m \in parked
  /\ TtlOver(m)
  /\ parked' = parked \ {m}
  /\ work' = [work EXCEPT ![Fresh(m.job)] = @ + 1]
  /\ UNCHANGED <<tableVars, unacked, localVars, task, producer, sweep, faults>>

\* _on_delivery: the callback puts the delivery in _incoming, unacked.
Deliver(p, m) ==
  /\ p \in up
  /\ work[m] > 0
  /\ Unsettled(p) < Prefetch
  /\ work' = [work EXCEPT ![m] = @ - 1]
  /\ unacked' = [unacked EXCEPT ![p][m] = @ + 1]
  /\ incoming' = [incoming EXCEPT ![p] = Append(@, [message |-> m, live |-> TRUE])]
  /\ UNCHANGED <<tableVars, parked, up, held, republished, task, producer, sweep,
                 faults>>

\* Mutant: the message is dropped one return too early.
RequeueBelowLimit(p) ==
  /\ work' = [m \in Message |->
       work[m] + IF m.returns = 0 \/ m.returns = DeliveryLimit THEN 0
                 ELSE unacked[p][[m EXCEPT !.returns = @ - 1]]]
  /\ unacked' = [unacked EXCEPT ![p] = [m \in Message |-> 0]]

\* The channel of p closes, and the broker takes back what it had not settled: a
\* message that has been returned DeliveryLimit times before is dropped.
Requeue(p) ==
  /\ work' = [m \in Message |->
       work[m] + CASE ~Counting -> unacked[p][m]
                   [] Counting /\ m.returns = 0 -> 0
                   [] OTHER -> unacked[p][[m EXCEPT !.returns = @ - 1]]]
  /\ unacked' = [unacked EXCEPT ![p] = [m \in Message |-> 0]]

\* _settle: basic_ack, tolerating a delivery the broker has taken back.
Settle(p, m, live) ==
  unacked' = [unacked EXCEPT ![p][m] = IF live THEN @ - 1 ELSE @]

\* _release(job, lease), with the lease given: only the delivery of that claim.
\* _release(job), without: whatever is held for the job.
Release(p, j, lease) ==
  IF held[p][j] # NotHeld /\ lease \in {NoLease, held[p][j].lease}
  THEN /\ held' = [held EXCEPT ![p][j] = NotHeld]
       /\ Settle(p, Held(j, held[p][j]), held[p][j].live)
  ELSE UNCHANGED <<held, unacked>>

-----------------------------------------------------------------------------
(* enqueue                                                                 *)

SetProducer(p, s) == producer' = [producer EXCEPT ![p] = s]

EnqueueInsert(p, j, max, delay) ==
  /\ producer[p].pc = "start"
  /\ Store!InsertOrGet(j, max, delay)
  /\ SetProducer(p, [pc |-> "publish", job |-> j, delay |-> delay])
  /\ UNCHANGED <<brokerVars, localVars, task, sweep, faults>>

\* The key exists: the job is returned and nothing is published.
EnqueueDuplicate(p, j) ==
  /\ producer[p].pc = "start"
  /\ Exists(rows[j])
  /\ SetProducer(p, [pc |-> "follow", job |-> j])
  /\ UNCHANGED <<tableVars, brokerVars, localVars, task, sweep, faults>>

EnqueuePublish(p) ==
  /\ producer[p].pc = "publish"
  /\ Publish(producer[p].job, producer[p].delay, 0)
  /\ SetProducer(p, [pc |-> "mark", job |-> producer[p].job])
  /\ UNCHANGED <<tableVars, unacked, localVars, task, sweep, faults>>

EnqueueMark(p) ==
  /\ producer[p].pc = "mark"
  /\ Store!MarkPublished(producer[p].job)
  /\ SetProducer(p, [pc |-> "follow", job |-> producer[p].job])
  /\ UNCHANGED <<brokerVars, localVars, task, sweep, faults>>

\* close: nothing is acked on the way out, the broker takes everything back.
Close(p) ==
  /\ producer[p].pc = "follow"
  /\ SetProducer(p, [pc |-> "done"])
  /\ up' = up \ {p}
  /\ Requeue(p)
  /\ incoming' = [incoming EXCEPT ![p] = <<>>]
  /\ republished' = [republished EXCEPT ![p] = {}]
  /\ sweep' = [sweep EXCEPT ![p] = NoSweep]
  /\ UNCHANGED <<tableVars, parked, held, task, faults>>

\* _follow: until the job is terminal, or FOLLOW_SECONDS are over.
FollowEnds(p) == /\ producer[p].pc = "follow"
                 /\ rows[producer[p].job].state \in Terminal
                 /\ Close(p)

GiveUp(p) == Close(p)

-----------------------------------------------------------------------------
(* reserve, extend, ack, nack, discard: one supervisor per worker calls    *)
(* them in turn.                                                           *)

SetTask(p, t) == task' = [task EXCEPT ![p] = t]

\* _next_delivery: the message leaves _incoming and lives in reserve's frame.
ReserveNext(p) ==
  /\ task[p] = Idle
  /\ incoming[p] # <<>>
  /\ incoming' = [incoming EXCEPT ![p] = Tail(@)]
  /\ SetTask(p, [pc |-> "claim", message |-> Head(incoming[p]).message,
                 live |-> Head(incoming[p]).live])
  /\ UNCHANGED <<tableVars, brokerVars, up, held, republished, producer, sweep,
                 faults>>

\* The claim is made, and the delivery is kept behind it in _held.
ReserveClaims(p) ==
  LET j == task[p].message.job IN
  /\ task[p].pc = "claim"
  /\ Store!Claim(j)
  /\ held' = [held EXCEPT ![p][j] = [lease |-> minted[j] + 1,
                                      returns |-> task[p].message.returns,
                                      live |-> task[p].live]]
  /\ SetTask(p, [pc |-> "work", job |-> j, lease |-> minted[j] + 1])
  /\ UNCHANGED <<brokerVars, up, incoming, republished, producer, sweep, faults>>

\* Mutant: reserve goes on to the next delivery and leaves the refused one.
ReserveSkips(p) ==
  /\ task[p].pc = "claim"
  /\ ~Claimable(rows[task[p].message.job])
  /\ SetTask(p, Idle)
  /\ UNCHANGED <<tableVars, brokerVars, localVars, producer, sweep, faults>>

\* The row refuses the delivery: it is settled, and reserve looks at the next.
ReserveRefused(p) ==
  /\ task[p].pc = "claim"
  /\ ~Claimable(rows[task[p].message.job])
  /\ Settle(p, task[p].message, task[p].live)
  /\ SetTask(p, Idle)
  /\ UNCHANGED <<tableVars, work, parked, localVars, producer, sweep, faults>>

\* claim() raises, before or after its commit: reserve raises with it, and the
\* delivery it had taken is neither settled nor kept.
ReserveFails(p) ==
  /\ task[p].pc = "claim"
  /\ \/ UNCHANGED tableVars
     \/ Store!Claim(task[p].message.job)
  /\ SetTask(p, Idle)
  /\ Fault("claim")
  /\ UNCHANGED <<brokerVars, localVars, producer, sweep>>

Working(p) == task[p].pc = "work"

\* The supervisor cannot start the child: the error leaves run_once before
\* anything would finish the claim, and run() goes on to the next reserve.
SpawnFails(p) ==
  /\ Working(p)
  /\ SetTask(p, Idle)
  /\ Fault("spawn")
  /\ UNCHANGED <<tableVars, brokerVars, localVars, producer, sweep>>

ExtendLease(p) ==
  /\ Working(p)
  /\ Store!Extend(task[p].job, task[p].lease)
  /\ UNCHANGED <<brokerVars, localVars, task, producer, sweep, faults>>

\* ack: the row first.  A StaleLease writes nothing; either way the `finally`
\* settles the delivery next.
AckRow(p) ==
  LET j == task[p].job
      l == task[p].lease
  IN
  /\ Working(p)
  /\ IF Fenced(rows[j], l) THEN Store!Ack(j, l) ELSE UNCHANGED tableVars
  /\ SetTask(p, [pc |-> "settle", job |-> j, lease |-> l])
  /\ UNCHANGED <<brokerVars, localVars, producer, sweep, faults>>

\* nack: the same shape, and a job that became `failed` is published after its
\* delivery was settled.
NackRow(p, delay) ==
  LET j == task[p].job
      l == task[p].lease
  IN
  /\ Working(p)
  /\ \/ /\ Fenced(rows[j], l)
        /\ Store!Nack(j, l, delay)
        /\ SetTask(p, IF NackedState(rows[j]) = "failed"
                      THEN [pc |-> "settle_publish", job |-> j, lease |-> l,
                            delay |-> delay]
                      ELSE [pc |-> "settle", job |-> j, lease |-> l])
     \/ /\ ~Fenced(rows[j], l)
        /\ UNCHANGED tableVars
        /\ SetTask(p, [pc |-> "settle", job |-> j, lease |-> l])
  /\ UNCHANGED <<brokerVars, localVars, producer, sweep, faults>>

\* The store cannot be reached: the transaction of an ack or a nack is lost, or
\* only its answer is, and the caller raises after settling the delivery.
FinishFails(p, delay) ==
  LET j == task[p].job
      l == task[p].lease
  IN
  /\ Working(p)
  /\ \/ UNCHANGED tableVars
     \/ Store!Ack(j, l)
     \/ Store!Nack(j, l, delay)
  /\ SetTask(p, [pc |-> "settle", job |-> j, lease |-> l])
  /\ Fault("finish")
  /\ UNCHANGED <<brokerVars, localVars, producer, sweep>>

\* discard, once an extend said the lease was taken: the row is left alone.
DiscardStale(p) ==
  LET j == task[p].job
      l == task[p].lease
  IN
  /\ Working(p)
  /\ ~Fenced(rows[j], l)
  /\ Release(p, j, l)
  /\ SetTask(p, Idle)
  /\ UNCHANGED <<tableVars, work, parked, up, incoming, republished, producer,
                 sweep, faults>>

SettleFinished(p) ==
  LET t == task[p] IN
  /\ t.pc \in {"settle", "settle_publish"}
  /\ Release(p, t.job, t.lease)
  /\ SetTask(p, IF t.pc = "settle" THEN Idle ELSE [t EXCEPT !.pc = "publish"])
  /\ UNCHANGED <<tableVars, work, parked, up, incoming, republished, producer,
                 sweep, faults>>

NackPublish(p) ==
  /\ task[p].pc = "publish"
  /\ Publish(task[p].job, task[p].delay, task[p].lease)
  /\ SetTask(p, [pc |-> "mark", job |-> task[p].job])
  /\ UNCHANGED <<tableVars, unacked, localVars, producer, sweep, faults>>

NackPublishFails(p) ==
  /\ task[p].pc = "publish"
  /\ SetTask(p, Idle)
  /\ Fault("publish")
  /\ UNCHANGED <<tableVars, brokerVars, localVars, producer, sweep>>

NackMark(p) ==
  /\ task[p].pc = "mark"
  /\ Store!MarkPublished(task[p].job)
  /\ SetTask(p, Idle)
  /\ UNCHANGED <<brokerVars, localVars, producer, sweep, faults>>

-----------------------------------------------------------------------------
(* _maintain: one pass of _sweep, query by query.                          *)

SetSweep(p, s) == sweep' = [sweep EXCEPT ![p] = s]

Sweeping(p, pc) == p \in Sweepers \cap up /\ sweep[p].pc = pc

Found(where(_)) == {j \in Jobs : where(rows[j])}

\* Mutant: the deliveries held for the retired jobs stay.
SweepRetireKeeps(p) ==
  /\ Sweeping(p, "retire")
  /\ IF Found(Retirable) # {} THEN Store!RetireLapsed
     ELSE Found(Lapsed) \cup Found(Orphaned) # {} /\ UNCHANGED tableVars
  /\ SetSweep(p, [pc |-> "lapsed", todo |-> Found(Lapsed)])
  /\ UNCHANGED <<brokerVars, localVars, task, producer, faults>>

\* retire_lapsed, the deliveries held for the jobs it finished, and the list of
\* lapsed_reservable.  Nobody can claim a finished job again, so nothing comes
\* between the first two; a lease that lapses between the queries is found by
\* the next pass.  A pass that finds nothing to do changes nothing.
SweepRetire(p) ==
  LET dropped == {j \in Found(Retirable) : held[p][j] # NotHeld} IN
  /\ Sweeping(p, "retire")
  /\ IF Found(Retirable) # {} THEN Store!RetireLapsed
     ELSE Found(Lapsed) \cup Found(Orphaned) # {} /\ UNCHANGED tableVars
  /\ held' = [held EXCEPT ![p] = [j \in Jobs |->
                 IF j \in dropped THEN NotHeld ELSE @[j]]]
  /\ unacked' = [unacked EXCEPT ![p] = [m \in Message |->
                    IF /\ m.job \in dropped
                       /\ m = Held(m.job, held[p][m.job]) /\ held[p][m.job].live
                    THEN @[m] - 1 ELSE @[m]]]
  /\ SetSweep(p, [pc |-> "lapsed", todo |-> Found(Lapsed)])
  /\ UNCHANGED <<work, parked, up, incoming, republished, task, producer, faults>>

\* One job of lapsed_reservable: its delivery is dropped, and unless it was
\* offered a short while ago it is published again.
SweepLapsed(p, j) ==
  /\ Sweeping(p, "lapsed")
  /\ j \in sweep[p].todo
  /\ Release(p, j, NoLease)
  /\ IF j \in republished[p]
     THEN UNCHANGED <<work, parked, republished>>
     ELSE /\ Publish(j, FALSE, 0)
          /\ republished' = [republished EXCEPT ![p] = @ \cup {j}]
  /\ SetSweep(p, [sweep[p] EXCEPT !.todo = @ \ {j}])
  /\ UNCHANGED <<tableVars, up, incoming, task, producer, faults>>

SweepFindOrphans(p) ==
  /\ Sweeping(p, "lapsed")
  /\ sweep[p].todo = {}
  /\ SetSweep(p, IF Found(Orphaned) = {} THEN NoSweep
                 ELSE [pc |-> "unpublished", todo |-> Found(Orphaned)])
  /\ UNCHANGED <<tableVars, brokerVars, localVars, task, producer, faults>>

SweepPublish(p, j) ==
  /\ Sweeping(p, "unpublished")
  /\ j \in sweep[p].todo
  /\ Publish(j, FALSE, 0)
  /\ SetSweep(p, [pc |-> "mark", todo |-> sweep[p].todo \ {j}, job |-> j])
  /\ UNCHANGED <<tableVars, unacked, localVars, task, producer, faults>>

SweepMark(p) ==
  /\ Sweeping(p, "mark")
  /\ Store!MarkPublished(sweep[p].job)
  /\ SetSweep(p, IF sweep[p].todo = {} THEN NoSweep
                 ELSE [pc |-> "unpublished", todo |-> sweep[p].todo])
  /\ UNCHANGED <<brokerVars, localVars, task, producer, faults>>

\* An error, perhaps after a delivery was dropped, ends the pass; the loop logs it
\* and sleeps until the next one.
SweepFails(p) ==
  /\ p \in Sweepers \cap up
  /\ sweep[p] # NoSweep
  /\ \/ UNCHANGED <<held, unacked>>
     \/ /\ sweep[p].pc = "lapsed"
        /\ \E j \in sweep[p].todo : Release(p, j, NoLease)
  /\ SetSweep(p, NoSweep)
  /\ Fault("sweep")
  /\ UNCHANGED <<tableVars, work, parked, up, incoming, republished, task, producer>>

Copies(j) ==
  Of(work, j) + Cardinality({m \in parked : m.job = j})
              + SumFunctionOnSet([p \in Procs |-> Of(unacked[p], j)], Procs)

\* The quiet time of an offer is over.  MaxCopies bounds the offers that pile up
\* while nobody takes the job.
QuietOver(p, j) ==
  /\ j \in republished[p]
  /\ Copies(j) <= MaxCopies
  /\ republished' = [republished EXCEPT ![p] = @ \ {j}]
  /\ UNCHANGED <<tableVars, brokerVars, up, incoming, held, task, producer, sweep,
                 faults>>

-----------------------------------------------------------------------------
(* Failures, the clock and the clients.                                    *)

\* The process dies and is started again: the broker takes its deliveries back,
\* and everything it remembered is gone.  A producer is not started again.
Crash(p) ==
  /\ p \in up
  /\ Fault(IF p \in Workers THEN "worker_crash" ELSE "producer_crash")
  /\ Requeue(p)
  /\ up' = IF p \in Workers THEN up ELSE up \ {p}
  /\ incoming' = [incoming EXCEPT ![p] = <<>>]
  /\ held' = [held EXCEPT ![p] = [j \in Jobs |-> NotHeld]]
  /\ republished' = [republished EXCEPT ![p] = {}]
  /\ SetTask(p, Idle)
  /\ producer' = IF p \in Producers
                 THEN [producer EXCEPT ![p] = [pc |-> "done"]] ELSE producer
  /\ SetSweep(p, NoSweep)
  /\ UNCHANGED <<tableVars, parked>>

\* The connection drops and is made again under a process that lives on: the
\* deliveries it still has in hand are no longer its to settle.
Blip(p) ==
  /\ p \in up
  /\ Fault("blip")
  /\ Requeue(p)
  /\ incoming' = [incoming EXCEPT ![p] =
                    [i \in DOMAIN @ |-> [@[i] EXCEPT !.live = FALSE]]]
  /\ held' = [held EXCEPT ![p] = [j \in Jobs |-> [@[j] EXCEPT !.live = FALSE]]]
  /\ SetTask(p, IF task[p].pc = "claim" THEN [task[p] EXCEPT !.live = FALSE]
                ELSE task[p])
  /\ UNCHANGED <<tableVars, parked, up, republished, producer, sweep>>

\* cancel, by whoever knows the id: the row's business, the broker is not told.
ClientCancels(j) ==
  /\ Store!Cancel(j)
  /\ UNCHANGED <<brokerVars, localVars, task, producer, sweep, faults>>

Clock(j) ==
  /\ Store!LeaseExpires(j) \/ Store!RunAfterPasses(j)
  /\ UNCHANGED <<brokerVars, localVars, task, producer, sweep, faults>>

-----------------------------------------------------------------------------

Enqueueing(p) ==
  \/ \E j \in Jobs : \/ \E max \in Limits, delay \in Delays :
                           EnqueueInsert(p, j, max, delay)
                    \/ EnqueueDuplicate(p, j)
  \/ EnqueuePublish(p)
  \/ EnqueueMark(p)
  \/ FollowEnds(p)

Consuming(p) ==
  \/ ReserveNext(p) \/ ReserveClaims(p) \/ ReserveRefused(p)
  \/ SettleFinished(p) \/ NackPublish(p) \/ NackMark(p)

\* How the supervisor's loop may end: with the child, its cap, a cancellation, a
\* shutdown, or a lease that was taken.
Finishing(p) ==
  \/ AckRow(p)
  \/ \E delay \in Delays : NackRow(p, delay)
  \/ DiscardStale(p)

Maintaining(p) ==
  \/ SweepRetire(p) \/ SweepFindOrphans(p) \/ SweepMark(p)
  \/ \E j \in Jobs : SweepLapsed(p, j) \/ SweepPublish(p, j)

Failing(p) ==
  \/ SweepFails(p) \/ Crash(p) \/ Blip(p)
  \/ /\ p \in Workers
     /\ \/ ReserveFails(p) \/ SpawnFails(p) \/ NackPublishFails(p)
        \/ \E delay \in Delays : FinishFails(p, delay)

Next ==
  \/ \E m \in parked : ParkingOver(m)
  \/ \E p \in Procs : \/ \E m \in Message : Deliver(p, m)
                      \/ \E j \in Jobs : QuietOver(p, j)
  \/ \E p \in Producers : Enqueueing(p) \/ GiveUp(p)
  \/ \E p \in Workers : Consuming(p) \/ ExtendLease(p) \/ Finishing(p)
  \/ \E p \in Procs : Maintaining(p) \/ Failing(p)
  \/ \E j \in Jobs : ClientCancels(j) \/ Clock(j)

Spec == Init /\ [][Next]_vars

\* The clock moves on; the broker delivers what is ready when a channel has room
\* and dead-letters what expired; a coroutine that can run does, and the solve
\* has a cap; the maintenance loop comes round again.  No failure, no client
\* and no heartbeat is owed.
Fairness ==
  /\ \A m \in Message : WF_vars(\E p \in Procs : Deliver(p, m))
  /\ \A j \in Jobs : /\ WF_vars(Store!LeaseExpires(j) /\ Clock(j))
                     /\ WF_vars(Store!RunAfterPasses(j) /\ Clock(j))
  /\ WF_vars(\E m \in parked : ParkingOver(m))
  /\ \A p \in Producers : WF_vars(Enqueueing(p))
  /\ \A p \in Workers : WF_vars(Consuming(p)) /\ WF_vars(Finishing(p))
  /\ \A p \in Procs : /\ WF_vars(Maintaining(p))
                      /\ \A j \in Jobs : WF_vars(QuietOver(p, j))

\* The FOLLOW_SECONDS of a producer come to an end.
FairSpec == Spec /\ Fairness /\ \A p \in Producers : WF_vars(GiveUp(p))

-----------------------------------------------------------------------------
(* What the queue promises.                                                *)

\* Where a job that may be claimed can still be found by a consumer.
Offered(j) ==
  \/ \E m \in Message : m.job = j /\ (work[m] > 0 \/ \E p \in Procs : unacked[p][m] > 0)
  \/ \E m \in parked : m.job = j
  \/ \E p \in Procs :
       \/ task[p].pc = "claim" /\ task[p].message.job = j
       \/ task[p].pc \in {"settle_publish", "publish"} /\ task[p].job = j

\* Nobody will find it: it waits for a consumer, the row says that the broker was
\* told, and there is no message for it.
Lost(j) == rows[j].state \in {"queued", "failed"} /\ rows[j].published /\ ~Offered(j)

\* A job that waits for a consumer can reach one: a message for it is with the
\* broker or with a process, or somebody is about to publish one, or the row
\* still says the broker was never told, so the maintenance loop will find it.
NoJobLost == \A j \in Jobs : ~Lost(j)

\* Whatever goes down and whenever, a job that was never tried can reach a consumer:
\* the message is sent before the row says so, it stays until a consumer has claimed
\* the job, and one that is to wait is not refused for coming early.
NewJobNeverLost == \A j \in Jobs : rows[j].state = "queued" => ~Lost(j)

LiveIn(p, m) ==
  Cardinality({i \in DOMAIN incoming[p] : incoming[p][i] = [message |-> m, live |-> TRUE]})

InHand(p, m) ==
  \/ task[p].pc = "claim" /\ task[p].message = m /\ task[p].live
  \/ /\ task[p].pc \in {"work", "settle", "settle_publish"}
     /\ task[p].job = m.job
     /\ held[p][m.job] = [lease |-> task[p].lease, returns |-> m.returns, live |-> TRUE]

\* Every delivery that counts against a channel's prefetch is one that somebody
\* will settle: it waits in _incoming, or it is the one that reserve took, or
\* the one behind the claim that the supervisor is working on.
NoDeliveryForgotten ==
  \A p \in up, m \in Message :
    unacked[p][m] = LiveIn(p, m) + IF InHand(p, m) THEN 1 ELSE 0

\* At most one consumer works on a job with a lease that the row still honours,
\* however many messages for the job there are.
AtMostOneLiveConsumer ==
  \A j \in Jobs :
    Cardinality({p \in Workers : /\ Working(p)
                                 /\ task[p].job = j
                                 /\ Fenced(rows[j], task[p].lease)}) <= 1

\* Whatever fails on the way, a job that was enqueued comes to an end.
EveryJobFinishes ==
  \A j \in Jobs : Exists(rows[j]) ~> rows[j].state \in Terminal

\* Whatever fails on the way, a job comes to an end, unless a late mark has taken it
\* from the maintenance loop while it waited for the next attempt.
EveryJobFinishesOrIsLost ==
  \A j \in Jobs :
    Exists(rows[j]) ~> rows[j].state \in Terminal \/ (rows[j].state = "failed" /\ Lost(j))

\* In the end there is no message left, and every consumer has its prefetch
\* window to itself again.
BrokerDrains == <>[](\A j \in Jobs : Copies(j) = 0)

=============================================================================
