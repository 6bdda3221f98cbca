---------------------------- MODULE JobLifecycle ----------------------------
(***************************************************************************)
(* What the queue promises about one job, with leases, deadlines, messages *)
(* and processes left out: the six states of JobState, how many times the  *)
(* job was handed out, and whether somebody asked for it to stop.  This is *)
(* the contract of the JobQueue protocol in core/jobs.py.                  *)
(*                                                                         *)
(* Several jobs may move in one step, because retire_lapsed finishes every *)
(* abandoned job in one statement; each of them moves along an edge.       *)
(***************************************************************************)
EXTENDS Naturals

CONSTANT Jobs

VARIABLE life  \* job -> [state, attempts, limit, stop]

Stage(state, attempts, limit, stop) ==
  [state |-> state, attempts |-> attempts, limit |-> limit, stop |-> stop]

Unborn == Stage("absent", 0, 0, FALSE)

\* enqueue: a job begins queued, never handed out, with a positive limit.
Enqueued(a, b) ==
  /\ a = Unborn
  /\ b.state = "queued" /\ b.attempts = 0 /\ b.limit > 0 /\ ~b.stop

\* reserve: a job that nobody asked to stop is handed out once more, and
\* never more often than its limit allows.
HandedOut(a, b) ==
  /\ a.state \in {"queued", "failed", "running"}
  /\ ~a.stop
  /\ a.attempts < a.limit
  /\ b = Stage("running", a.attempts + 1, a.limit, a.stop)

\* ack: the work finished, asked to stop or not.
Finished(a, b) ==
  /\ a.state = "running"
  /\ b = Stage("done", a.attempts, a.limit, a.stop)

\* nack, or a lapsed lease: the state says whether the job may run again.
GivenBack(a, b) ==
  /\ a.state = "running"
  /\ \/ /\ a.stop
        /\ b = Stage("cancelled", a.attempts, a.limit, a.stop)
     \/ /\ ~a.stop /\ a.attempts < a.limit
        /\ b = Stage("failed", a.attempts, a.limit, a.stop)
     \/ /\ ~a.stop /\ a.attempts >= a.limit
        /\ b = Stage("dead", a.attempts, a.limit, a.stop)

\* cancel: the transition itself before a consumer has the job, and only a
\* request afterwards.
StopRequested(a, b) ==
  \/ /\ a.state \in {"queued", "failed"}
     /\ b = Stage("cancelled", a.attempts, a.limit, TRUE)
  \/ /\ a.state = "running"
     /\ b = Stage("running", a.attempts, a.limit, TRUE)

Edge(a, b) ==
  \/ Enqueued(a, b)
  \/ HandedOut(a, b)
  \/ Finished(a, b)
  \/ GivenBack(a, b)
  \/ StopRequested(a, b)

Init == life = [j \in Jobs |-> Unborn]

Next == \A j \in Jobs : Edge(life[j], life'[j]) \/ life'[j] = life[j]

Spec == Init /\ [][Next]_life

=============================================================================
