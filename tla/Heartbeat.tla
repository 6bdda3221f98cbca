------------------------------ MODULE Heartbeat ------------------------------
(***************************************************************************)
(* The clock of one solve: how the durations of worker/config.py and the   *)
(* loop of worker/supervisor.py keep a lease while a child works, and how  *)
(* late the child may still be there when it should not be.                *)
(*                                                                         *)
(* Supervisor has the same loop with time left out: there a deadline has   *)
(* passed or it has not.  Here time is a number, there is one worker and   *)
(* one attempt, and the rest of the world is a row that another worker or  *)
(* a sweep takes once the lease has lapsed.                                *)
(*                                                                         *)
(* Time moves in ticks.  The event loop is punctual: nothing in it blocks  *)
(* for longer than a system call, so what is due is done before time goes  *)
(* on.  The child and the clients take as long as they like, and so do the *)
(* calls of a heartbeat.  The other calls do not, which the code enforces  *)
(* nowhere: claim and spawn together end within one interval, and the      *)
(* calls at the end of a turn within Report.                               *)
(***************************************************************************)
EXTENDS Integers

CONSTANTS Lease, ExtendEvery, SolveTimeout, Grace,  \* WorkerConfig
          Prompt,     \* a call is slow when it takes longer than this
          MaxMisses,  \* slow or failed calls in a row that are looked at
          Report,     \* bound on put, ack and nack at the end of a turn
          MaxSkew     \* bound on the difference of the two wall clocks

\* WorkerConfig.__post_init__, and the durations are durations.
ASSUME HeartbeatAssumption ==
  /\ Lease \in Nat /\ SolveTimeout \in Nat \ {0} /\ Grace \in Nat \ {0}
  /\ ExtendEvery \in Nat \ {0} /\ ExtendEvery < Lease
  /\ Prompt \in 0..ExtendEvery
  /\ MaxMisses \in Nat /\ Report \in Nat /\ MaxSkew \in Nat

Never == -1

VARIABLES
  now,        \* the time, by the clock of the database
  skew,       \* the wall clock of the worker is this much ahead of it
  pc,         \* the await that the turn is at
  wake,       \* when that await ends, if nothing ends it before
  cap,        \* when the solve will have used its wall-clock time
  child,      \* whether the child lives
  deadline,   \* lease_expires_at of the row
  taken,      \* the row is another worker's, or was retired
  known,      \* expires_at of the lease the worker holds
  called,     \* when the call that is open was made
  answer,     \* what the row said to it, if it has
  misses,     \* calls since the last one that was answered promptly
  stopAt,     \* when the supervisor was asked to stop
  cancelled   \* cancel_requested

rowVars == <<deadline, taken, cancelled>>
vars == <<now, skew, pc, wake, cap, child, rowVars, known, called, answer, misses,
          stopAt>>

TypeOK ==
  /\ now \in Nat
  /\ skew \in -MaxSkew .. MaxSkew
  /\ pc \in {"spawn", "watch", "extend", "kill", "finish", "over"}
  /\ wake \in Nat /\ cap \in Nat /\ deadline \in Nat /\ known \in Nat /\ called \in Nat
  /\ child \in BOOLEAN /\ taken \in BOOLEAN /\ cancelled \in BOOLEAN
  /\ answer \in {"none", "renewed", "cancelled", "stale"}
  /\ misses \in 0 .. MaxMisses + 1
  /\ stopAt \in Nat \cup {Never}

\* reserve's claim has just been made.
Init ==
  /\ now = 0
  /\ skew \in -MaxSkew .. MaxSkew
  /\ pc = "spawn" /\ wake = ExtendEvery
  /\ cap = 0
  /\ child = FALSE
  /\ deadline = Lease /\ known = Lease
  /\ taken = FALSE /\ cancelled = FALSE
  /\ called = 0 /\ answer = "none"
  /\ misses = 0
  /\ stopAt = Never

Stopping == stopAt # Never

Lapsed == now > deadline

Least(m, n) == IF m < n THEN m ELSE n

\* What the call that is open, or has just ended, adds to the misses.
MissesAfter(prompt) ==
  IF prompt THEN 0 ELSE IF misses > MaxMisses THEN misses ELSE misses + 1

InTime == now <= called + Prompt

-----------------------------------------------------------------------------
(* The turn.                                                               *)

\* Mutant: the wait is a heartbeat long, whenever the cap is.
WaitOneBeat(c) == now + ExtendEvery

\* Mutant: the wait is a lease long.
WaitOneLease(c) == now + Least(Lease, IF c > now THEN c - now ELSE 0)

\* The wait for the child, the stop, the next heartbeat or the cap.
WaitUntil(c) == now + Least(ExtendEvery, IF c > now THEN c - now ELSE 0)

\* The claim is answered, the child started and _supervise entered.
Start ==
  /\ pc = "spawn"
  /\ child' = TRUE
  /\ cap' = now + SolveTimeout
  /\ misses' = MissesAfter(InTime)
  /\ pc' = "watch" /\ wake' = WaitUntil(cap')
  /\ UNCHANGED <<now, skew, rowVars, known, called, answer, stopAt>>

Woken == ~child \/ Stopping \/ now = wake

\* _kill: SIGTERM, and SIGKILL when the grace is over.
Kill == pc' = "kill" /\ wake' = now + Grace

WakeReported ==
  /\ pc = "watch"
  /\ ~child
  /\ pc' = "finish" /\ wake' = now + Report
  /\ UNCHANGED <<now, skew, cap, child, rowVars, known, called, answer, misses, stopAt>>

WakeStopping ==
  /\ pc = "watch"
  /\ child
  /\ Stopping
  /\ Kill
  /\ UNCHANGED <<now, skew, cap, child, rowVars, known, called, answer, misses, stopAt>>

WakeCapped ==
  /\ pc = "watch"
  /\ child /\ ~Stopping /\ Woken
  /\ now >= cap
  /\ Kill
  /\ UNCHANGED <<now, skew, cap, child, rowVars, known, called, answer, misses, stopAt>>

\* The heartbeat: extend is called, and given up when the next one is due.
WakeBeat ==
  /\ pc = "watch"
  /\ child /\ ~Stopping /\ Woken
  /\ now < cap
  /\ pc' = "extend" /\ wake' = now + ExtendEvery
  /\ called' = now /\ answer' = "none"
  /\ UNCHANGED <<now, skew, cap, child, rowVars, known, misses, stopAt>>

\* Mutant: the lease is counted from when the call was made, minus a lease.
ExtendBackdates ==
  /\ pc = "extend"
  /\ answer = "none" /\ ~taken
  /\ deadline' = called - Lease
  /\ answer' = IF cancelled THEN "cancelled" ELSE "renewed"
  /\ UNCHANGED <<now, skew, pc, wake, cap, child, taken, cancelled, known, called,
                 misses, stopAt>>

\* The statement of extend reaches the row.
ExtendLands ==
  /\ pc = "extend"
  /\ answer = "none"
  /\ IF taken
     THEN answer' = "stale" /\ UNCHANGED deadline
     ELSE /\ deadline' = now + Lease
          /\ answer' = IF cancelled THEN "cancelled" ELSE "renewed"
  /\ UNCHANGED <<now, skew, pc, wake, cap, child, taken, cancelled, known, called,
                 misses, stopAt>>

Renewed ==
  /\ pc = "extend"
  /\ answer = "renewed"
  /\ known' = deadline
  /\ misses' = MissesAfter(InTime)
  /\ pc' = "watch" /\ wake' = WaitUntil(cap)
  /\ UNCHANGED <<now, skew, cap, child, rowVars, called, answer, stopAt>>

\* StaleLease, or a row that says the job was cancelled.
Refused ==
  /\ pc = "extend"
  /\ answer \in {"stale", "cancelled"}
  /\ misses' = IF InTime THEN misses ELSE MissesAfter(FALSE)
  /\ Kill
  /\ UNCHANGED <<now, skew, cap, child, rowVars, known, called, answer, stopAt>>

\* Lease.expired, by the clock of the worker.
Expired == now + skew >= known

\* Mutant: a database out of reach says nothing about the lease, ever.
MissedForEver ==
  /\ pc = "extend"
  /\ misses' = MissesAfter(FALSE)
  /\ pc' = "watch" /\ wake' = WaitUntil(cap)
  /\ UNCHANGED <<now, skew, cap, child, rowVars, known, called, answer, stopAt>>

\* extend raised, or its time was over; it may have renewed the lease or not.
Missed ==
  /\ pc = "extend"
  /\ misses' = MissesAfter(FALSE)
  /\ IF Expired THEN Kill ELSE pc' = "watch" /\ wake' = WaitUntil(cap)
  /\ UNCHANGED <<now, skew, cap, child, rowVars, known, called, answer, stopAt>>

\* The grace is over.
GraceOver ==
  /\ pc = "kill"
  /\ child
  /\ now = wake
  /\ child' = FALSE
  /\ UNCHANGED <<now, skew, pc, wake, cap, rowVars, known, called, answer, misses, stopAt>>

Killed ==
  /\ pc = "kill"
  /\ ~child
  /\ pc' = "finish" /\ wake' = now + Report
  /\ UNCHANGED <<now, skew, cap, child, rowVars, known, called, answer, misses, stopAt>>

\* _finish: without a heartbeat, the artifact and the row.
Finish ==
  /\ pc = "finish"
  /\ pc' = "over"
  /\ UNCHANGED <<now, skew, wake, cap, child, rowVars, known, called, answer, misses,
                 stopAt>>

-----------------------------------------------------------------------------
(* The child, the clients, the other workers, and time.                    *)

\* It has reported and exited, has died, or has obeyed SIGTERM.
ChildEnds ==
  /\ child
  /\ child' = FALSE
  /\ UNCHANGED <<now, skew, pc, wake, cap, rowVars, known, called, answer, misses, stopAt>>

\* SIGTERM to the supervisor.
Stop ==
  /\ pc # "over"
  /\ ~Stopping
  /\ stopAt' = now
  /\ UNCHANGED <<now, skew, pc, wake, cap, child, rowVars, known, called, answer, misses>>

Cancel ==
  /\ pc # "over"
  /\ ~cancelled
  /\ cancelled' = TRUE
  /\ UNCHANGED <<now, skew, pc, wake, cap, child, deadline, taken, known, called, answer,
                 misses, stopAt>>

\* Another worker claims the row, or a sweep retires it.
Taken ==
  /\ pc # "over"
  /\ Lapsed
  /\ ~taken
  /\ taken' = TRUE
  /\ UNCHANGED <<now, skew, pc, wake, cap, child, deadline, cancelled, known, called,
                 answer, misses, stopAt>>

\* A turn that can go on does so before time does.
Due == \/ now = wake
       \/ pc = "watch" /\ Woken
       \/ pc = "kill" /\ ~child

Tick ==
  /\ pc # "over"
  /\ ~Due
  /\ now' = now + 1
  /\ UNCHANGED <<skew, pc, wake, cap, child, rowVars, known, called, answer, misses,
                 stopAt>>

Next ==
  \/ Start \/ WakeReported \/ WakeStopping \/ WakeCapped \/ WakeBeat
  \/ ExtendLands \/ Renewed \/ Refused \/ Missed
  \/ GraceOver \/ Killed \/ Finish
  \/ ChildEnds \/ Stop \/ Cancel \/ Taken \/ Tick

Spec == Init /\ [][Next]_vars

-----------------------------------------------------------------------------
(* What the durations promise.                                             *)

\* The calls that were not answered promptly, the open one included.
Misses == IF pc \in {"spawn", "extend"} /\ ~InTime THEN misses + 1 ELSE misses

\* The lease is long enough for MaxMisses calls in a row that take a whole
\* interval each and fail, and for the end of the turn.
Comfortable ==
  Lease >= 2 * Prompt + ExtendEvery + 2 * ExtendEvery * MaxMisses + Grace + Report

\* With such durations the lease is still the worker's when the turn ends,
\* whatever ended it, unless more than MaxMisses calls in a row went wrong.
LeaseOutlastsMisses ==
  Comfortable /\ Misses <= MaxMisses /\ pc # "over" => ~Lapsed

\* A database that cannot be reached, or that answers only now and then, leaves
\* no child working for long on a lease that has lapsed: at most the wait and the
\* call that were under way, and the grace.
LapsedSolveStops ==
  child => now < deadline + 2 * ExtendEvery + Grace + MaxSkew

\* A shutdown and the cap are acted upon when the call that is open is over.
StopsInTime ==
  child => /\ Stopping => now <= stopAt + ExtendEvery + Grace
           /\ now < cap + ExtendEvery + Grace

=============================================================================
