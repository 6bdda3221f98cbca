# abacus: its TLA+ specifications

abacus is a chat service whose conversations start long computations ("jobs").
Postgres is the system of record, RabbitMQ moves job ids, worker processes run
each job in a child process, and a WebSocket API streams assistant messages and
lets a client that reconnects catch up from a cursor.

This directory holds the specifications of the parts where the order of steps
matters, the TLC configurations that check them on small instances, and the
TLAPS proofs of what matters most for every instance.

## 1. The system

| component | state it keeps | operations | hard part |
|---|---|---|---|
| job store (`adapters/postgres/job_store.py`, `tables.py`) | `jobs`, `job_events` | insert_or_get, mark_published, cancel, claim, extend, ack, nack, retire_lapsed, lapsed_reservable, unpublished | late callers, lapsed leases, cancellation races, one event per transition |
| job queue (`adapters/rabbitmq/job_queue.py`) | `_incoming`, `_held`, `_republished`, the broker's queues | enqueue, reserve, extend, ack, nack, discard, close, the maintenance loop | the dual write, redelivery, prefetch slots, steps of several processes |
| supervisor (`worker/supervisor.py`) | the lease it holds, the child | run_once: reserve, heartbeat, kill, finish, install | lease lost while working, database out of reach, write-then-ack |
| solve process (`worker/process.py`, `child.py`) | pipe, collector task, exit code | start, outcome, stop, aclose | a child that dies, ignores SIGTERM, or answers while it is stopped |
| artifacts (`core/artifacts.py`, `adapters/s3`) | objects by key | put, get | one key per lease |
| chat repository (`adapters/postgres/chat_repository.py`, `seq.py`) | `chat_sessions.next_seq`, `chat_messages` | ensure_session, record_user_message, start_assistant_message, complete, fail, log_since | numbering without holes, a cursor over two tables |
| chat handler (`core/chat_handler.py`) | turns of a connection | serve, dispatch, resume, start turn, run turn | a turn cancelled at any await |
| connections (`core/ws.py`, `api/chat.py`) | send queue, registry | send, request_close, run_writer, drain | a full queue, shutdown |
| command line (`dev/enqueue.py`) | - | enqueue and follow | is a consumer too |

Frames, settings, health probes, database access and migrations have no behaviour
of their own that a model would show.  Of the synthetic solvers the models keep
what a solve can come to.

## 2. The modules

| module | models | state |
|---|---|---|
| `JobLifecycle` | the contract: six job states and the edges between them, several jobs at a time | `life` |
| `JobRow` | the `WHERE` clause and the `SET` list of every statement on one `jobs` row | none: operators |
| `JobStore` | `PostgresJobStore`, one action per method, one transaction each | `rows`, `minted`, `events`, `acked` |
| `JobStore_proofs` | the theorems about `JobStore` | |
| `JobQueue` | `RabbitMQJobQueue` in several processes over one table and one broker | the table, `work`, `parked`, `unacked`, and per process `up`, `incoming`, `held`, `republished`, `task`, `producer`, `sweep` |
| `JobQueue_proofs`, `NoJobLost_proofs` | the theorems about `JobQueue` | |
| `Supervisor` | `Supervisor.run_once`, the handle on the child and the child, the artifact before the ack | the table, `objects`, and per worker `turn`, `child` |
| `Supervisor_proofs` | the theorems about `Supervisor` | |
| `Heartbeat` | the same loop against the clock: one attempt, the durations of `WorkerConfig`, two wall clocks | `now`, `pc`, `wake`, `cap`, `child`, `deadline`, `known`, the open call |
| `Heartbeat_proofs` | the theorems about `Heartbeat` | |
| `ChatLog` | the contract of the chat repository: one growing log per session, read from a cursor | `log`, `read` |
| `SessionLog` | the transactions that number rows in `chat_messages` and `job_events`, statement by statement | `next_seq`, `rows`, `tx`, `reader` |
| `SessionLog_proofs` | the theorems about `SessionLog` | |
| `ChatConnection` | `ConnectionHandler`, `Connection`, the drain, between one await and the next | `log`, and per client `conn`, `reader`, `turns`, `client` |
| `ChatConnection_proofs` | the theorems about `ChatConnection` | |
| `MC...` | the constants of each, for TLC | |

`JobStore` refines `JobLifecycle` and `SessionLog` refines `ChatLog`.  `JobQueue`
and `Supervisor` call the actions of `JobStore` through
`Store == INSTANCE JobStore`, so a step of theirs that reaches the database is
exactly one transaction of the store.

**The row.**  A timestamp is kept by what the statements compare it with: a
lease deadline is ahead of `now()` or behind it, `run_after` is later, due or
overdue.  A lease id is the ordinal of its claim (`minted` counts them), NULL is
0.  `acked` is not in the code: it remembers whose `ack()` returned normally.

**The callers of the store** may present any lease that was ever handed out, at
any time.  A `StaleLease` writes nothing and is not a step.

**The queue.**  Each `await` that reaches Postgres or the broker is a step:
`enqueue` is insert, publish, mark; `reserve` is take, claim, hold; `ack` is the
row, then the settle of the `finally`; `nack` is the row, the settle, the
publish, the mark; a maintenance pass is retire, one step per lapsed job, the
query for orphans, and publish and mark per orphan.  The broker is external: the
work queue forgets order, a message leaves the parking queue no earlier than its
TTL, the unsettled deliveries of a channel return when it closes, each as often as
`x-delivery-limit` allows (a message carries its `returns`).  A delivery
that was taken back is `live = FALSE` in the hands of its process, and settling
it does nothing.  A worker that crashes is started again; a connection may be
lost and made again under a process (`Blip`).

**The supervisor.**  `turn[w].pc` is the await `run_once` is at: reserve, spawn,
watch (the `asyncio.wait` over child, stop, cap and heartbeat), extend, term and
kill (the two halves of `SolveProcess.stop`), put, ack, nack, discard, close.
`ending` is the `Ending` it decided on.  A child is alive or not, deaf to SIGTERM
or not, and has said nothing, solved, failed, or something the parent cannot
read.  The queue is taken at its word: reserve is a claim of any claimable job.
The worker's clock (`spent`, `capped`) is independent of the database's
(`LeaseExpires`).  A crash of the container ends the child with it.

**The clock of a solve.**  In `Supervisor` a deadline has passed or it has not.
`Heartbeat` has the numbers: the wait of `_supervise` is the next beat or the cap,
whichever is sooner; a heartbeat is given up when the next one is due, and its
statement may have reached the row all the same, or reach it and be answered late;
`_extend`'s three answers, `Lease.expired` by the worker's own clock, the grace,
and an ending that is reported without a heartbeat.  The other workers are a row
that is taken once its lease has lapsed.  Assumed, and not in the code: the event
loop is punctual; claim and spawn together take no longer than one interval; the
calls at the end of a turn take no longer than `Report` (nothing bounds them); the
wall clocks differ by no more than `MaxSkew`.  A message that cannot be read is
`Supervisor`'s business.

**The session log.**  A transaction is open from its first statement to its
commit; `allocate_seq` takes the row lock of the session, so it is enabled only
when no other open transaction has numbered a row there, and the number is the
committed counter plus what this transaction has taken.  What it wrote is its own
until `Commit`; `Rollback` may come at any point.  The jobs of a transition are locked
before the sessions, one row after another (`LockJob`): most statements have one,
the update of `retire_lapsed` has several and nothing orders them, so two sweeps
may each hold the row the other waits for.  Postgres ends one of them, which is a
`Rollback`; its pass fails and the maintenance loop tries again.  Which jobs a sweep
finds is `JobStore`'s business: here it may find any set, and a row that was changed
while the sweep waited for it is locked and not moved.

**The connection.**  asyncio runs a coroutine from one await to the next, and an
action is what happens between two.  A call of the repository is one step
(`SessionLog` has what is behind it), and its caller goes on in another, so that a
cancellation may find the call not made, or made with its answer lost.  A
cancellation is delivered (`Cancelled`) at the await the turn is at: nothing
handles it before the first step, the body hands over to the shielded
`_mark_failed`, and a second one lets that write go on alone (`loose`).  `done`
and `acked` are not in the code: they remember what was sent.  A replica shuts down
in one of two ways: uvicorn closes every socket and waits for the connections
(`ServerCloses`; the lifespan's drain then finds none, as `api/main.py:50-57` and
`docs/websocket.md` tell), or something calls the drain while they are open (`Drain`),
for which the code keeps it.

## 3. The runs

| run | instance | shows |
|---|---|---|
| `job_store` | 2 jobs, one in a session, limits 1 and 2 | the table's invariants, one event per transition, the refinement |
| `queue_produce` | 1 job, 2 producers, 1 worker, one producer crash, a delivery limit of 2 | the dual write: no job lost, no delivery forgotten, every job ends |
| `queue_consume` | 1 job, 1 producer, 2 workers, 2 tries; one failure of any kind | one live consumer, a job that was never tried is not lost |
| `queue_recover` | 1 job, 1 worker, 3 tries; three of: a lost ack or nack, a failing spawn, publish, pass | every job ends or is lost to a late mark, every slot comes back |
| `supervise_race` | 1 job, 2 workers; one crash, one failing claim, start, report | whatever is written last, a done row points at the bytes of the attempt that was acked |
| `supervise_answers` | 1 job, 1 worker; a failing heartbeat, artifact write, message; a stop, a cap | each ending has its cause, each lease its answer; a solve without standing stops, a wedged child is capped, a stop halts |
| `heartbeat` | lease 13, beat 3, cap 16, grace 1, prompt 1, one miss allowed | a lease outlasts the misses it has room for; a child that lost its lease, was stopped or passed its cap is gone in bounded time |
| `session_log` | 2 sessions with 2 jobs each, 2 transactions, 1 key, pages of 1 | no gap and no number twice, whoever waits in a cycle is a sweep in the middle of its update, a reader skips nothing (the refinement) |
| `chat_connection` | 1 client, 1 key, a queue of 2 frames, 1 chunk, one failure of any kind | one reply per message, done is final, no turn outlives its connection, a connection that is lost, overflows, is drained or closed by the server ends, a reply that began to stream is settled |
| `queue_late_mark` | as produce, with a worker crash | *violated*: the mark that comes late loses the job |
| `chat_unanswered` | `start_assistant_message` fails once | *violated*: the retry is acked and never answered |
| `chat_resume_burst` | a log of 3, a queue of 2, a resume limit of 3 | *violated*: every replay overflows the queue before a frame is sent |

**Bounds.**  `max_attempts` is 3, the default, in `queue_recover`: a mark that comes
late does harm when two nacks leave the job waiting, the one whose mark is delayed and
the one whose row it falls on, and the third attempt is then the one that is lost.
`queue_produce` passes with 3 too, but needs four minutes; `queue_consume` looks at
the first try and at one lease after another.  Everywhere else it is at most 2: one
attempt that ends badly and one that is the last.  The theorems are for any number.
One job is enough for the queue and the workers, because nothing but
the prefetch window is shared by jobs, and the store's run has two.  In the
queue's runs `MaxFaults` bounds all failures together, of the kinds in `Failures`;
in the others each kind has its own bound, one.  The runs differ in the kinds they
allow, so that a violation names the failure it needs: `NoJobLost` fails as soon
as a late mark meets a worker crash, or any other failure between a nack and its
publish, and a run that allowed every kind would say no more than that.  What still
holds with every kind is `NewJobNeverLost`.  `x-delivery-limit` is 20.  `queue_produce` has a limit of 2
for the two channels its producers close, and fails with a limit of 1; the other
queue runs close two channels at the most, and the broker does not count there
(`Counting`).  That a closed channel counts is what the comment on `_QUORUM` says.
The durations of `heartbeat` are in the proportions of `WorkerConfig`, as small as
they can be with a strict order between grace, beat, lease and cap; 13 is the
least lease for which `Comfortable` holds, so an interval more anywhere shows, and
the theorems of `Heartbeat_proofs` drop the numbers.
`MaxCopies` bounds the offers of the maintenance loop that pile up while nobody
takes the job.  `MaxSeq` bounds the numbers of a session: two, a message and a transition, a
turn, or one row of each of two sweeps, which is what those need to wait for each
other's jobs or sessions, and more than the page.  The send
queue has 2 places, so that a frame, a frame with a sentinel, and neither fit in
it; one chunk more makes it overflow.
One client that comes back shows what one connection leaves to the next: the same
key is submitted on both.  It comes back after the replica has closed the old
connection: two that overlap have too many interleavings for a run, and their safety
rests on the theorems of `ChatConnection_proofs`.  In `chat_resume_burst` 3 > 2
stands for 200 > 64, the defaults of `ws_resume_max_messages` and `ws_send_queue_size`.

**Symmetry** is used in `session_log` only, which checks no liveness: the jobs
within a session and the two connections are interchangeable, sessions are not
(they are sorted by id).

**Fairness.**
`JobQueue`: the clock, the broker's deliveries and dead-lettering, every coroutine
that can run, a supervisor's ending (its solve has a wall-clock cap), the
maintenance loop, and the end of a producer's patience (`FOLLOW_SECONDS`).
`Heartbeat` needs none: its properties are bounds on time.
`Supervisor`: each coroutine that can go on does, and a child that has reported is
reaped; nothing is owed by the child, the clock or the operator, and
what depends on them is stated from the moment they have acted.
`ChatConnection`: the event loop (writer, reader, `serve`, the turns), a reply
that ends, a write that goes on without its turn, and a peer that takes what is written to it or is found to be gone
(uvicorn's keepalive sees to that).  `ReconnectingSpec` adds a client that
connects and resumes, as `core/frames.py` describes it.  Nothing is assumed of
failures, of clients that submit, or of the server's cancellation.

Deadlock is not checked by TLC in runs where the system may rest: all jobs are
finished, a session has used its numbers, the replica has shut down.

Definitions whose comment begins "Mutant" are slips a change to the code could
make; each property is known to fail when one of them takes the place of the
definition it follows.

### What the models showed of the code

A mark that comes late is worth telling in one place.  `mark_published` sets
`published_at` whatever the row has come to since the publish.  `enqueue` (this is
`queue_late_mark`), a `nack` (`job_queue.py:347`) and a maintenance pass (428) all
publish first and mark later, and if between the two another worker claims the message
and nacks, the mark hides that row from `unpublished`.  As long as the second nack's own
publish follows, no harm is done; if it does not, the job is lost: after a worker
crash, but also after a publish that fails.  With the default of three attempts no
producer is needed, two nacks are enough: `NoJobLost` fails in the instance of
`queue_late_mark` with two workers, a published job and `Limits = {3}`, and
`EveryJobFinishes` fails in `queue_recover`, which therefore checks
`EveryJobFinishesOrIsLost`.  A job that was never tried is safe from all this
(`NewJobNeverLost`), and so is every job while each nack is followed by its publish
(`NoJobLostIfPublished`).

Beside the three violated runs, these were found while modelling.  They are kept
as known behaviours, and the properties that hold are stated around them.

- `job_queue.py:261`: a `claim()` that raises leaves its delivery unsettled and
  unreachable.  At prefetch 1 the worker is offered nothing until it reconnects.
- `supervisor.py:190`: so does a child that cannot be started; its delivery stays
  in `_held` until the row is retired by the process that holds it.
- `job_queue.py:62`: every process that starts the queue consumes from it,
  `dev/enqueue` too, which reserves nothing; `close` returns what it was handed,
  and the return counts.  One past the limit the broker drops the message of a job
  that is queued and published, which neither `unpublished` nor
  `lapsed_reservable` looks for.  With `DeliveryLimit = 1` `queue_produce` shows
  it as a violation of `NoJobLost`.
- `job_queue.py:414`: a pass settles the delivery of a lease that an extend has
  revived since the list was read.
- `job_store.py:334`: the update of `retire_lapsed` locks its rows in the order it
  comes to them.  Two replicas that sweep at once may deadlock there, before either
  has come to the sessions: the sort that lines 360-362 speak of orders the
  allocator's row locks only, and the order of lines 491-494, `jobs` before
  `chat_sessions`, says nothing of two `jobs` rows.  The pass that Postgres ends is
  tried again.  Nothing but two sweeps can deadlock (`OnlySweepsDeadlock`).
- `dev/enqueue.py:81`: a producer consumes, and may be handed, and hold, the
  message of the job it follows.
- `process.py:163`: `_read_and_reap` turns only `EOFError` into `Died`.  A child
  that a signal ends in the middle of its message makes `recv` raise `OSError`; it
  leaves `stop`, `_kill` and `_supervise`, `_finish` is not called, and the row
  stays `running` until the lease lapses, which `supervisor.py:459` says must not
  happen.  `EveryLeaseAnswered` is stated around it, and fails without its second
  disjunct.
- `process.py:147`: once the collector has raised, `stop` raises before SIGKILL,
  and a child that is deaf to SIGTERM is left running.
- `core/config.py:76`: "two consecutive failures still leave a third attempt before
  the deadline".  With a lease of 60 s and a beat of 20 s two heartbeats that fail
  at once leave the third exactly at the deadline, and one that takes its whole
  interval before it fails uses up what two would.  With the default durations
  `LeaseOutlastsMisses` promises nothing beyond zero misses: one miss would need
  a lease of 65 s plus the promptness and the report.
- `supervisor.py:353`: giving a job back on its last attempt makes it dead.
- `chat_handler.py:234`: `last_seq` is the highest seq applied.  A reply is
  numbered when it is opened, so the ack of the next message passes it, and a
  client that loses the connection in between is never told how it ended.
- `chat_handler.py:339`: `fail_assistant_message` has no condition on the status:
  a turn that is cancelled after its text was stored marks it failed.  It never
  happens to a reply whose `done` was sent (`DoneIsFinal`).
- `chat_handler.py:341`: the `_mark_failed` of a turn that raised is not shielded:
  one cancellation there leaves the row `streaming`, where the comment at 335 names
  only a second one.  `StreamedReplySettles` is stated around it.
- `ws.py:194`: `for_session` has no callers: a transition of a job, or a reply on
  another connection, reaches an open connection by a resume only, and an ack of a
  later message passes it.
- `chat_handler.py:294`: a turn that is cancelled before its first step, or whose
  reader is cancelled between opening the reply and acking it, leaves the row
  `streaming`.
- `chat_handler.py:256`: the two rows of a turn are adjacent only while nobody else
  writes in the session: another tab or a job's transition may number a row
  between them.
- `ws.py:93`: a close that is requested while the queue is full reports 1013, not
  the code asked for.

## 4. What is proved

`JobStore_proofs`, for any set of jobs, any subset of them in sessions and any
positive limits (`StoreAssumption`):

- `InvHolds`: the inductive invariant `IInv`, a conjunction of facts about one
  row, the number of claims made on it and the leases whose `ack` returned.  The
  invariants of the run are not inductive one by one: that the newest lease is
  the live one needs that attempts are counted, that a result has one owner needs
  that a lease is only held while running.
- `LiveLeaseIsNewestHolds`, `AckedOwnsResultHolds`, `HandOutsBounded`,
  `CancelNeverFailureHolds`, `TypeCorrect`, `LogTellsStateHolds`.
- `FinishedStaysFinishedHolds`, `EachTransitionRecorded`: the action properties.
- `TableImplementsLifecycle`: the table implements `JobLifecycle`.

`Heartbeat_proofs`, for all durations that `WorkerConfig.__post_init__` accepts, any
skew and any number of misses (`HeartbeatAssumption`):

- `InvHolds`: `IInv` gives the latest `wake` of each await by four yardsticks, the
  stop (`AfterStop`), the cap (`AfterCap`), the deadline of the row (`AfterLapse`)
  and the lease less what the misses cost (`OfTheLease`).  The properties speak of
  `now` and of a living child only; they are inductive once each await says how
  long it may last and what the worker may still believe of its lease.
- `StopsInTimeHolds`, `LapsedSolveStopsHolds`, `LeaseOutlastsMissesHolds`,
  `TypeCorrect`.

`TypeStep`, `BoundsStep` and `LeaseStep` go through the actions, one step each; the
arithmetic is linear but for `Cost`, whose two lemmas are all that is used of it.

`ChatConnection_proofs`, for any clients and keys, any queue size, limits and
failures (`ChatConnectionAssumption`), so for connections that overlap too:

- `InvHolds`: `IInv` is the types (with the rows that turns may touch being
  replies, `Roles`, and a reader's message being recorded, `Keyed`) and three parts.
  `Once`: no reader is about to open a reply that exists, and no two are about to
  open the same one.  `Final`: a row has one writer at a time, so that after `done`
  no turn, no shielded `_mark_failed` and no reader can still reach it.  `Quiet`:
  the turns of a connection go before its reader, the reader before it closes.
- `OneReplyPerKeyHolds`, `DoneIsFinalHolds`, `NoTurnOutlivesConnectionHolds`,
  `TypeCorrect`.

The three parts rest on `LogStep`, that rows stay where they are with their kind
and key and that only replies change, and on `SendOK`, that a frame changes one
queue and none of the tasks around it.

`SessionLog_proofs`, for any sessions and jobs, any number of connections and keys,
any page and any bound on the numbers (`SessionLogAssumption`):

- `InvHolds`: `IInv` says that the row lock of a session has one holder
  (`Exclusive`), that the committed rows carry the numbers below the counter and
  what the holder has written the numbers from it on (`Committed`, `Pending`), that
  a client's key is recorded once, that sessions are locked in ascending order
  (`Ordered`) and only once all jobs are (`Phases`), and that a read under way holds the first page of what was committed
  after the cursor when it began, split over the two tables (`Reading`).
- `GapFreeHolds`, `TypeCorrect`.
- `OnlySweepsDeadlockHolds`: in a set of transactions that all wait for and are waited
  for by one another, each has locked some of its jobs and not the rest.  Who has no
  job yet is waited for by nobody; who has all of them waits for a session, and the
  one that waits for the last of those waits for one that does not wait.
- `LogImplementsChatLog`: the refinement.  A commit appends, in the order of the
  numbers, what nobody else could number meanwhile; a page of the two tables
  (`FirstOfTwo`) is the next part of the log.

`Supervisor_proofs`, for any jobs, workers, limits and failures
(`SupervisorAssumption`):

- `WorkersImplementStore`: each step is one statement of the table, under a lease
  that was drawn, or leaves the table alone (`StepIsStatement`).  So the invariant
  and the theorems of `JobStore_proofs` hold of the table the workers share.
- `InvHolds`: `IInv` adds, per worker, what each await knows: the lease it holds is
  the one the table minted for it and nobody else's turn has it, bytes are written
  before the ack that points at them and only for a child that solved, an ending
  that was decided is not turned into another, the cause of a stop outlives the
  stop, and a child is alive only during the turn that started it.
- `ResultIsOwnHolds`, `DecisionIsOutcomeHolds`, `StoppedForCauseHolds`,
  `ChildGoneBetweenTurnsHolds`, `TypeCorrect`.
- `EveryLeaseAnsweredHolds`, when no child fails to start and no report is lost
  (`MaxFaults` is 0 for both): the two failures which the code leaves to the
  deadline of the lease.  With them the property is false, as the runs' bounds say.

`JobQueue_proofs`, for any jobs, processes, prefetch, limits, counting or not, and any
failures (`QueueAssumption`):

- `StepsAreStatements`: as for the workers, each step is one statement of the table or
  leaves it alone.
- `InvHolds`: `IInv` adds that the broker counts at least the deliveries a process
  still knows of, in `_incoming`, in `reserve` and behind a claim (`Covered`: settling
  never takes what is not there), that leases in use were drawn and are apart
  (`Leased`, `Apart`), and that a producer holds nothing (`Passive`).  A step that
  touches the deliveries of a process has one of a few shapes (`NextShapes`), and
  `DeliveriesStep` goes through those instead of the actions.
- `AtMostOneLiveConsumerHolds`, `TypeCorrect`.
- `NoDeliveryForgottenHolds`, when neither `"claim"` nor `"spawn"` is among the
  failures: then the count is exact, and what is held is held by the task under way.
  With either it is false, as the first two entries of the list in section 3 say.

`NoJobLost_proofs`, about the messages:

- `NoJobLostIfPublished`, in every behaviour in which a nack that made a job wait is
  followed by its publish (`NackIsPublished`), and no channel closes with a message
  that came back as often as the broker allows (`NothingDropped`, which is empty if it
  does not count).  `LostInv` says three things.
  `Tokens`: a row that waits, and that the maintenance loop will not look for or soon
  will not, has a message that can reach a consumer; and if it may not be claimed yet,
  one that arrives no earlier than it may (`Ahead`), for every other could be refused.
  `NewUntried`: only a nack puts off a job that was tried.  `Told`: who is about to
  publish or to mark a job knows its row, and does not publish at once what was
  enqueued for later.
- `NoJobLostHolds`: the same when none of `"worker_crash"`, `"finish"`, `"publish"` is
  among the failures, the three that come between a nack and its publish.  With any of
  them the property is false: a mark that comes late takes `published` FALSE, the
  only protection of such a row, away (`queue_late_mark`).  If the
  broker counts, the theorem also asks that no connection drops and that there are no
  more producers than it counts to: `Returned` says that a message comes back no more
  often than channels have closed, and a producer closes its own once.  This covers
  `queue_produce`, and the bound is sharp: one less, and section 3 tells how a job is
  lost.

- `NewJobNeverLostIfKept` and `NewJobNeverLostHolds`: for a job that was never tried
  the nacks do not matter, and the first needs no more than `NothingDropped`.  `NewInv`
  is the part of `LostInv` that speaks of queued rows.  The second needs nothing at all
  of the failures when the broker does not count; when it counts, that no worker goes
  down and no connection drops, and that there are no more producers than it counts to.

The proof follows one message (`HasStep`: it goes only with a claim or a refusal of
its own job), what was not sent yet (`SentStep`, `AheadStep`) and one row (`RowStep`:
quiet, marked, inserted or given back).

The argument for the store: a lemma per statement (`ClaimedOK`, `NackedOK`, ...) about the row
it writes, `WriteOK` from one row to the table, and `NextMovesRows`, that every
step moves each row along one statement or leaves it, from which the refinement
and the action properties follow.

Only model-checked: liveness, which is out of the prover's reach.

## 5. Not modelled

The head-of-line order of the parking queue; the texts of errors and messages;
`lease_owner`; the handshake and the cap on connections of a session; pings and
frames that do not parse; settings, probes, migrations and the bytes a solver
makes.  Reads of no consequence to the state (`get`) are left out.

## 6. Plan

Done: the store, the queue, the supervisor and its clock, the session log, the
connection.

1. The cursor of `dev/chat.html`, so that what a reconnecting client may miss is a
   property; the registry's cap.
2. Proofs: `NoJobLost` with a broker that counts and workers whose connection drops,
   by a bound on the failures.
