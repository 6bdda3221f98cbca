------------------------------ MODULE JobStore ------------------------------
(***************************************************************************)
(* PostgresJobStore: the `jobs` table, one action per method, each method  *)
(* one transaction.  A job is identified with its idempotency key, which   *)
(* the unique constraint ties to one row.                                  *)
(*                                                                         *)
(* The callers are as bad as they can be: any lease id that was ever handed*)
(* out may be presented at any time, by a consumer that stalled, was       *)
(* superseded, or already answered.  A call that the fence refuses raises  *)
(* StaleLease and writes nothing, so it is not a step.                     *)
(***************************************************************************)
EXTENDS JobRow, Sequences

CONSTANTS Jobs,       \* job ids
          InSession,  \* the jobs whose row has a session_id
          Limits      \* values of JobRequest.max_attempts

ASSUME StoreAssumption == /\ InSession \subseteq Jobs
                          /\ Limits \subseteq Nat \ {0}

VARIABLES rows,    \* job -> Row
          minted,  \* job -> how many lease ids claim() has drawn
          events,  \* job -> the states recorded in job_events, in seq order
          acked    \* job -> the lease ids whose ack() returned normally

vars == <<rows, minted, events, acked>>

TypeOK == /\ rows \in [Jobs -> Row]
          /\ minted \in [Jobs -> Nat]
          /\ events \in [Jobs -> Seq(JobState)]
          /\ acked \in [Jobs -> SUBSET Nat]

Init == /\ rows = [j \in Jobs |-> AbsentRow]
        /\ minted = [j \in Jobs |-> 0]
        /\ events = [j \in Jobs |-> <<>>]
        /\ acked = [j \in Jobs |-> {}]

-----------------------------------------------------------------------------

\* _record_event: number the state just written in the session's log.  A job
\* without a session has nobody to tell.
Recorded(j, st) ==
  IF j \in InSession THEN [events EXCEPT ![j] = Append(@, st)] ELSE events

Write(j, r) == rows' = [rows EXCEPT ![j] = r]

WriteAndRecord(j, r) == /\ Write(j, r)
                        /\ events' = Recorded(j, r.state)

InsertOrGet(j, max, delay) ==
  /\ ~Exists(rows[j])
  /\ WriteAndRecord(j, Inserted(max, delay))
  /\ UNCHANGED <<minted, acked>>

MarkPublished(j) ==
  /\ Exists(rows[j])
  /\ Write(j, MarkedPublished(rows[j]))
  /\ UNCHANGED <<minted, events, acked>>

\* Mutants: the event forgotten; one for a running job too; no look at the state.
CancelSilently(j) ==
  /\ Exists(rows[j])
  /\ rows[j].state \notin Terminal
  /\ Write(j, CancelledRow(rows[j]))
  /\ UNCHANGED <<minted, events, acked>>

CancelLoudly(j) ==
  /\ Exists(rows[j])
  /\ rows[j].state \notin Terminal
  /\ WriteAndRecord(j, CancelledRow(rows[j]))
  /\ UNCHANGED <<minted, acked>>

CancelAnything(j) ==
  /\ Exists(rows[j])
  /\ WriteAndRecord(j, CancelledRow(rows[j]))
  /\ UNCHANGED <<minted, acked>>

\* A terminal job is returned unchanged; a running one keeps its state and
\* records no event.
Cancel(j) ==
  /\ Exists(rows[j])
  /\ rows[j].state \notin Terminal
  /\ IF rows[j].state = "running"
     THEN Write(j, CancelledRow(rows[j])) /\ UNCHANGED events
     ELSE WriteAndRecord(j, CancelledRow(rows[j]))
  /\ UNCHANGED <<minted, acked>>

Claim(j) ==
  /\ Claimable(rows[j])
  /\ minted' = [minted EXCEPT ![j] = @ + 1]
  /\ WriteAndRecord(j, Claimed(rows[j], minted[j] + 1))
  /\ UNCHANGED acked

Extend(j, l) ==
  /\ Fenced(rows[j], l)
  /\ Write(j, Extended(rows[j]))
  /\ UNCHANGED <<minted, events, acked>>

\* The consumer passes the key of the artifact it wrote under its own lease.
Ack(j, l) ==
  /\ Fenced(rows[j], l)
  /\ WriteAndRecord(j, Acked(rows[j], l))
  /\ acked' = [acked EXCEPT ![j] = @ \cup {l}]
  /\ UNCHANGED minted

Nack(j, l, delay) ==
  /\ Fenced(rows[j], l)
  /\ WriteAndRecord(j, Nacked(rows[j], delay))
  /\ UNCHANGED <<minted, acked>>

\* One statement over the whole table, and one event for every row it moved.
RetireLapsed ==
  /\ \E j \in Jobs : Retirable(rows[j])
  /\ rows' = [j \in Jobs |-> IF Retirable(rows[j])
                             THEN Retired(rows[j]) ELSE rows[j]]
  /\ events' = [j \in Jobs |-> IF Retirable(rows[j]) /\ j \in InSession
                               THEN Append(events[j], Retired(rows[j]).state)
                               ELSE events[j]]
  /\ UNCHANGED <<minted, acked>>

\* The database's clock passes a lease's deadline ...
LeaseExpires(j) ==
  /\ rows[j].state = "running"
  /\ ~rows[j].expired
  /\ Write(j, DeadlinePassed(rows[j]))
  /\ UNCHANGED <<minted, events, acked>>

\* ... and a waiting job's run_after, then run_after + orphan_after.
RunAfterPasses(j) ==
  /\ rows[j].state \in {"queued", "failed"}
  /\ rows[j].run_after # "overdue"
  /\ Write(j, RunAfterPassed(rows[j]))
  /\ UNCHANGED <<minted, events, acked>>

JobStep(j) ==
  \/ \E max \in Limits, delay \in BOOLEAN : InsertOrGet(j, max, delay)
  \/ MarkPublished(j)
  \/ Cancel(j)
  \/ Claim(j)
  \/ \E l \in 1..minted[j] : Extend(j, l)
  \/ \E l \in 1..minted[j] : Ack(j, l)
  \/ \E l \in 1..minted[j], delay \in BOOLEAN : Nack(j, l, delay)
  \/ LeaseExpires(j)
  \/ RunAfterPasses(j)

Next == RetireLapsed \/ \E j \in Jobs : JobStep(j)

Spec == Init /\ [][Next]_vars

-----------------------------------------------------------------------------
(* What makes the table correct.                                           *)

\* A row has a lease exactly while it is running, and that lease is the last
\* one claim() drew: a consumer that was superseded can never be the one the
\* fence lets through.
LiveLeaseIsNewest ==
  \A j \in Jobs :
    /\ (rows[j].state = "running") <=> (rows[j].lease_id # NoLease)
    /\ rows[j].lease_id \in {NoLease, minted[j]}

\* A consumer whose ack() returned normally owns the job's result for good: the
\* job is done, its result_ref is that consumer's, and no claim was made after
\* the consumer's own.  In particular no two consumers are told they finished.
AckedOwnsResult ==
  \A j \in Jobs : \A l \in acked[j] :
    /\ rows[j].state = "done"
    /\ rows[j].result_ref = l
    /\ l = minted[j]

\* Every hand-out is counted, however the previous one ended, and a job is never
\* handed out more often than max_attempts: not by a consumer that nacks, and
\* not by one that dies without a word.
HandOutsCountedAndBounded ==
  \A j \in Jobs :
    /\ rows[j].attempts = minted[j]
    /\ rows[j].attempts <= rows[j].max_attempts
    /\ rows[j].state \in {"queued", "failed"}
         => rows[j].attempts < rows[j].max_attempts

\* Once cancel_requested is set no path reports the job as a failure, nor puts
\* it back in the queue; and nobody's job ends cancelled who did not ask for it.
CancelNeverFailure ==
  \A j \in Jobs :
    /\ rows[j].cancel_requested
         => rows[j].state \in {"running", "done", "cancelled"}
    /\ rows[j].state = "cancelled"
         => /\ rows[j].cancel_requested
            /\ rows[j].error # "lease_expired"

\* The session's log tells the truth about the job: its last event is the row's
\* state and its first is the enqueue.
LogTellsState ==
  \A j \in InSession :
    IF Exists(rows[j])
    THEN /\ events[j] # <<>>
         /\ events[j][Len(events[j])] = rows[j].state
         /\ events[j][1] = "queued"
    ELSE events[j] = <<>>

\* Each transition of a row, and each new hand-out, is recorded exactly once and
\* with the state it led to; nothing else is recorded.
EachTransitionRecordedOnce ==
  [][\A j \in Jobs :
       IF /\ j \in InSession
          /\ \/ rows[j].state # rows'[j].state
             \/ rows[j].attempts # rows'[j].attempts
       THEN events'[j] = Append(events[j], rows'[j].state)
       ELSE events'[j] = events[j]]_vars

\* Nothing that a client can read of a finished job changes afterwards: a late
\* consumer, a second cancel or a sweep leave its outcome alone.
FinishedStaysFinished ==
  [][\A j \in Jobs :
       rows[j].state \in Terminal =>
         /\ rows'[j].state = rows[j].state
         /\ rows'[j].result_ref = rows[j].result_ref
         /\ rows'[j].error = rows[j].error
         /\ rows'[j].attempts = rows[j].attempts
         /\ rows'[j].cancel_requested = rows[j].cancel_requested]_vars

\* The table implements the life cycle of core/jobs.py.
Life(r) == [state    |-> r.state,
            attempts |-> r.attempts,
            limit    |-> r.max_attempts,
            stop     |-> r.cancel_requested]

Lifecycle == INSTANCE JobLifecycle WITH life <- [j \in Jobs |-> Life(rows[j])]

ImplementsLifecycle == Lifecycle!Spec

=============================================================================
