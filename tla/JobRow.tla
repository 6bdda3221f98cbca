------------------------------- MODULE JobRow -------------------------------
(***************************************************************************)
(* One row of the `jobs` table, and every UPDATE that job_store.py runs on *)
(* it, as operators from a row to a row.  A statement's WHERE clause is a  *)
(* predicate, its SET list is the row it produces.                         *)
(*                                                                         *)
(* Timestamps are kept by what the statements compare them with.  A lease  *)
(* deadline is either ahead of now() or behind it (`expired`); run_after   *)
(* is ahead of now() ("later"), behind it ("due"), or behind it by more    *)
(* than orphan_after ("overdue").                                          *)
(***************************************************************************)
EXTENDS Naturals

JobState == {"queued", "running", "done", "failed", "dead", "cancelled"}

\* JobState.terminal: nothing further happens without a new enqueue.
Terminal == {"done", "dead", "cancelled"}

RunAfter == {"later", "due", "overdue"}

\* The last failure's text, told apart by who wrote it.
ErrorText == {"none", "reported", "lease_expired"}

\* A lease id is the position of its claim among the job's claims; 0 is NULL.
NoLease == 0

Row == [state            : JobState \cup {"absent"},
        attempts         : Nat,
        max_attempts     : Nat,
        lease_id         : Nat,
        expired          : BOOLEAN,
        run_after        : RunAfter,
        cancel_requested : BOOLEAN,
        published        : BOOLEAN,
        error            : ErrorText,
        result_ref       : Nat]

\* No row has been inserted for the job's (session_id, idempotency_key).
AbsentRow == [state            |-> "absent",
              attempts         |-> 0,
              max_attempts     |-> 0,
              lease_id         |-> NoLease,
              expired          |-> FALSE,
              run_after        |-> "due",
              cancel_requested |-> FALSE,
              published        |-> FALSE,
              error            |-> "none",
              result_ref       |-> NoLease]

-----------------------------------------------------------------------------
(* The WHERE clauses.                                                      *)

Exists(r) == r.state # "absent"

\* _WAITING: queued or backing off, and its time has come.
Waiting(r) == r.state \in {"queued", "failed"} /\ r.run_after # "later"

\* Mutant: the sweep offers a job however often it was tried.
LapsedForever(r) == r.state = "running" /\ r.expired /\ ~r.cancel_requested

\* _LAPSED: the consumer stopped answering and the job may go round again.
Lapsed(r) == /\ r.state = "running"
             /\ r.expired
             /\ r.attempts < r.max_attempts
             /\ ~r.cancel_requested

\* Mutant: one attempt too many before a job is given up.
RetirableLate(r) == /\ r.state = "running"
                    /\ r.expired
                    /\ r.attempts > r.max_attempts \/ r.cancel_requested

\* retire_lapsed: the consumer stopped answering and nothing is left to try.
Retirable(r) == /\ r.state = "running"
                /\ r.expired
                /\ r.attempts >= r.max_attempts \/ r.cancel_requested

\* Mutant: the sweep looks for failed jobs and forgets the new ones.
OrphanedFailed(r) == ~r.published /\ r.state = "failed" /\ r.run_after = "overdue"

\* unpublished: committed, and the broker was never told.
Orphaned(r) == /\ ~r.published
               /\ r.state \in {"queued", "failed"}
               /\ r.run_after = "overdue"

Claimable(r) == Waiting(r) \/ Lapsed(r)

\* Mutant: a running row lets any lease through.
FencedByState(r, l) == l # NoLease /\ r.state = "running"

\* _fencing: the token alone decides, never the deadline.
Fenced(r, l) == Exists(r) /\ l # NoLease /\ r.lease_id = l

-----------------------------------------------------------------------------
(* The SET lists.                                                          *)

Delayed(delay) == IF delay THEN "later" ELSE "due"

Inserted(max, delay) ==
  [AbsentRow EXCEPT !.state = "queued",
                    !.max_attempts = max,
                    !.run_after = Delayed(delay)]

Claimed(r, l) ==
  [r EXCEPT !.state = "running",
            !.attempts = r.attempts + 1,
            !.lease_id = l,
            !.expired = FALSE]

Extended(r) == [r EXCEPT !.expired = FALSE]

\* Mutant: only the deadline is cleared.
ReleasedDeadline(r) == [r EXCEPT !.expired = FALSE]

\* _RELEASED: every write that ends a claim drops the whole lease.
Released(r) == [r EXCEPT !.lease_id = NoLease, !.expired = FALSE]

Acked(r, ref) ==
  [Released(r) EXCEPT !.state = "done", !.result_ref = ref]

ReturnsToQueue(r) == ~r.cancel_requested /\ r.attempts < r.max_attempts

\* Mutant: the attempts are looked at before the request to cancel.
NackedStateByAttempts(r) ==
  IF r.attempts >= r.max_attempts THEN "dead"
  ELSE IF r.cancel_requested THEN "cancelled" ELSE "failed"

\* Mutant: a state the check constraint does not know.
NackedStateRetrying(r) ==
  IF r.cancel_requested THEN "cancelled"
  ELSE IF r.attempts >= r.max_attempts THEN "dead" ELSE "retrying"

NackedState(r) ==
  IF r.cancel_requested THEN "cancelled"
  ELSE IF r.attempts >= r.max_attempts THEN "dead" ELSE "failed"

\* Mutant: published_at is left standing.
NackedPublished(r, delay) ==
  [Released(r) EXCEPT !.state = NackedState(r),
                      !.error = "reported",
                      !.run_after = Delayed(delay)]

Nacked(r, delay) ==
  [Released(r) EXCEPT !.state = NackedState(r),
                      !.error = "reported",
                      !.run_after = Delayed(delay),
                      !.published = r.published /\ ~ReturnsToQueue(r)]

CancelledRow(r) ==
  [r EXCEPT !.cancel_requested = TRUE,
            !.state = IF r.state = "running" THEN "running" ELSE "cancelled"]

\* Mutant: a lapsed lease is always a failure.
RetiredDead(r) == [Released(r) EXCEPT !.state = "dead", !.error = "lease_expired"]

Retired(r) ==
  [Released(r) EXCEPT
     !.state = IF r.cancel_requested THEN "cancelled" ELSE "dead",
     !.error = IF r.cancel_requested \/ r.error # "none"
               THEN r.error ELSE "lease_expired"]

MarkedPublished(r) == [r EXCEPT !.published = TRUE]

-----------------------------------------------------------------------------
(* The database's clock: a lease's deadline goes by, and a waiting job's   *)
(* run_after, then run_after + orphan_after.                               *)

DeadlinePassed(r) == [r EXCEPT !.expired = TRUE]

RunAfterPassed(r) ==
  [r EXCEPT !.run_after = IF r.run_after = "later" THEN "due" ELSE "overdue"]

=============================================================================
