----------------------------- MODULE Supervisor -----------------------------
(***************************************************************************)
(* The workers: worker/supervisor.py's one loop over a lease and a child,  *)
(* worker/process.py's handle on the child, worker/child.py's one message, *)
(* and the artifact written before the row is told.                        *)
(*                                                                         *)
(* The queue is taken at its word here: reserve is a claim of any job that *)
(* may be claimed, and ack, nack and extend are the table's (JobQueue has  *)
(* the broker behind them).  Every await is a place where the other        *)
(* workers, the child, the clock and the clients may step in.              *)
(***************************************************************************)
EXTENDS JobRow, Sequences

CONSTANTS Jobs, InSession, Limits,  \* as in JobStore
          Workers,
          NoJob,     \* a worker that has reserved nothing yet
          Halting,   \* workers that may be asked to stop
          Slow,      \* workers whose cap and known deadline may pass
          MaxFaults  \* bound on each kind of failure

FaultKinds == {"crash", "reserve", "spawn", "extend", "put", "report", "pipe"}

ASSUME SupervisorAssumption ==
  /\ InSession \subseteq Jobs
  /\ Limits \subseteq Nat \ {0}
  /\ NoJob \notin Jobs
  /\ Halting \subseteq Workers
  /\ Slow \subseteq Workers
  /\ MaxFaults \in [FaultKinds -> Nat]

VARIABLES
  rows, minted, events, acked,  \* the table, see JobStore
  objects,   \* the bucket: which attempt's bytes are at which key
  turn,      \* worker -> where its run_once is, and what it holds
  child,     \* worker -> its newest child and what came through the pipe
  stopping,  \* workers that were asked to stop
  faults     \* failures so far, by kind

tableVars == <<rows, minted, events, acked>>
vars == <<tableVars, objects, turn, child, stopping, faults>>

Store == INSTANCE JobStore

\* Ending: why the supervisor stopped watching.  "none" is before it did.
Ending == {"none", "completed", "cancelled", "timed_out", "stale",
           "undefendable", "released"}

Turn == [pc     : {"idle", "reserve", "spawn", "watch", "extend", "term", "kill",
                   "put", "ack", "nack", "discard", "close", "halted"},
         job    : Jobs \cup {NoJob},
         lease  : Nat,
         ending : Ending,
         capped : BOOLEAN,  \* the wall-clock cap has passed
         spent  : BOOLEAN]  \* the deadline of the last renewal has passed

NoTurn == [pc |-> "idle", job |-> NoJob, lease |-> NoLease, ending |-> "none",
           capped |-> FALSE, spent |-> FALSE]

\* A child is deaf when its solver handles or ignores SIGTERM.  "garbled" is a
\* message the parent cannot read: cut off by a signal, or not unpicklable.
Child == [alive : BOOLEAN,
          deaf  : BOOLEAN,
          said  : {"nothing", "solved", "failed", "garbled"}]

\* What a solver makes of its payload; `synthetic` may also ignore SIGTERM, take
\* any time it likes, or leave without a word.
SolverOutcome == {"solved", "failed"}

NoChild == [alive |-> FALSE, deaf |-> FALSE, said |-> "nothing"]

\* Mutant: the attempts of a job share a key.
ArtifactKeyOfJob(j, l) == <<j, NoLease>>

\* artifact_key
ArtifactKey(j, l) == <<j, l>>

TypeOK ==
  /\ Store!TypeOK
  /\ objects \subseteq [key : (Jobs \cup {NoJob}) \X Nat, by : Nat]
  /\ turn \in [Workers -> Turn]
  /\ child \in [Workers -> Child]
  /\ stopping \subseteq Workers
  /\ faults \in [FaultKinds -> Nat]

Init == /\ Store!Init
        /\ objects = {}
        /\ turn = [w \in Workers |-> NoTurn]
        /\ child = [w \in Workers |-> NoChild]
        /\ stopping = {}
        /\ faults = [k \in FaultKinds |-> 0]

Fault(k) == /\ faults[k] < MaxFaults[k]
            /\ faults' = [faults EXCEPT ![k] = @ + 1]

At(w, pc) == turn[w].pc = pc

Goto(w, pc) == turn' = [turn EXCEPT ![w].pc = pc]

\* Once the supervisor decides, that is the turn's ending.
Decide(w, ending, pc) ==
  turn' = [turn EXCEPT ![w].ending = ending, ![w].pc = pc]

-----------------------------------------------------------------------------
(* The child and its handle.                                               *)

\* _read_and_reap is over: it raised, or the child is gone.
Collected(w) == ~child[w].alive \/ child[w].said = "garbled"

\* A signal that ends the child may cut off its message.
Dies(w) ==
  /\ child[w].alive
  /\ \/ /\ child' = [child EXCEPT ![w].alive = FALSE]
        /\ UNCHANGED faults
     \/ /\ child[w].said = "nothing"
        /\ child' = [child EXCEPT ![w].alive = FALSE, ![w].said = "garbled"]
        /\ Fault("pipe")

\* stop begins with SIGTERM, unless the child has been reaped.
Terminate(w) ==
  IF child[w].alive /\ ~child[w].deaf
  THEN Dies(w) ELSE UNCHANGED <<child, faults>>

\* run_child sends its one outcome ...
ChildReports(w, outcome) ==
  /\ child[w].alive
  /\ child[w].said = "nothing"
  /\ child' = [child EXCEPT ![w].said = outcome]
  /\ UNCHANGED <<tableVars, objects, turn, stopping, faults>>

\* ... one that will not unpickle ...
ChildGarbles(w) ==
  /\ child[w].alive
  /\ child[w].said = "nothing"
  /\ child' = [child EXCEPT ![w].said = "garbled"]
  /\ Fault("pipe")
  /\ UNCHANGED <<tableVars, objects, turn, stopping>>

\* ... or goes without a word.
ChildDies(w) ==
  /\ child[w].said = "nothing"
  /\ Dies(w)
  /\ UNCHANGED <<tableVars, objects, turn, stopping>>

\* It returns from run_child, or is killed _REAP_AFTER its report.
ChildReaped(w) ==
  /\ child[w].alive
  /\ child[w].said \in SolverOutcome
  /\ child' = [child EXCEPT ![w].alive = FALSE]
  /\ UNCHANGED <<tableVars, objects, turn, stopping, faults>>

-----------------------------------------------------------------------------
(* run and run_once                                                        *)

RunHalts(w) == /\ At(w, "idle")
               /\ w \in stopping
               /\ Goto(w, "halted")
               /\ UNCHANGED <<tableVars, objects, child, stopping, faults>>

RunOnce(w) == /\ At(w, "idle")
              /\ w \notin stopping
              /\ Goto(w, "reserve")
              /\ UNCHANGED <<tableVars, objects, child, stopping, faults>>

Reserved(w, j) ==
  /\ At(w, "reserve")
  /\ Store!Claim(j)
  /\ turn' = [turn EXCEPT ![w] = [NoTurn EXCEPT !.pc = "spawn",
                                                !.job = j,
                                                !.lease = minted[j] + 1]]
  /\ UNCHANGED <<objects, child, stopping, faults>>

ReservedNothing(w) == /\ At(w, "reserve")
                      /\ Goto(w, "idle")
                      /\ UNCHANGED <<tableVars, objects, child, stopping, faults>>

\* The error ends the turn; the claim may have been committed all the same.
ReserveFails(w) ==
  /\ At(w, "reserve")
  /\ \/ UNCHANGED tableVars
     \/ \E j \in Jobs : Store!Claim(j)
  /\ Goto(w, "idle")
  /\ Fault("reserve")
  /\ UNCHANGED <<objects, child, stopping>>

Spawn(w) ==
  /\ At(w, "spawn")
  /\ \E deaf \in BOOLEAN :
       child' = [child EXCEPT ![w] = [alive |-> TRUE, deaf |-> deaf,
                                      said |-> "nothing"]]
  /\ Goto(w, "watch")
  /\ UNCHANGED <<tableVars, objects, stopping, faults>>

\* Before the `try`: nobody answers for the lease.
SpawnFails(w) == /\ At(w, "spawn")
                 /\ Goto(w, "idle")
                 /\ Fault("spawn")
                 /\ UNCHANGED <<tableVars, objects, child, stopping>>

-----------------------------------------------------------------------------
(* _supervise: what a wake-up finds, in the order it looks.                *)

\* _report: an artifact to install, or a failed attempt.
Reported(w) == IF child[w].said = "solved" THEN "put" ELSE "nack"

\* Mutant: the error of an outcome that cannot be read leaves the turn.
WakeReportedRaises(w) ==
  /\ At(w, "watch")
  /\ Collected(w)
  /\ Decide(w, "completed", IF child[w].said = "garbled" THEN "close" ELSE Reported(w))
  /\ UNCHANGED <<tableVars, objects, child, stopping, faults>>

\* _reported makes a failed attempt of an outcome that cannot be read.
WakeReported(w) ==
  /\ At(w, "watch")
  /\ Collected(w)
  /\ Decide(w, "completed", Reported(w))
  /\ UNCHANGED <<tableVars, objects, child, stopping, faults>>

WakeStopping(w) ==
  /\ At(w, "watch")
  /\ ~Collected(w)
  /\ w \in stopping
  /\ Decide(w, "released", "term")
  /\ UNCHANGED <<tableVars, objects, child, stopping, faults>>

WakeCapped(w) ==
  /\ At(w, "watch")
  /\ ~Collected(w)
  /\ w \notin stopping
  /\ turn[w].capped
  /\ Decide(w, "timed_out", "term")
  /\ UNCHANGED <<tableVars, objects, child, stopping, faults>>

WakeBeat(w) ==
  /\ At(w, "watch")
  /\ ~Collected(w)
  /\ w \notin stopping
  /\ ~turn[w].capped
  /\ Goto(w, "extend")
  /\ UNCHANGED <<tableVars, objects, child, stopping, faults>>

\* Mutant: the renewed row's cancel_requested is not looked at.
RenewedBlindly(w) ==
  /\ At(w, "extend")
  /\ Store!Extend(turn[w].job, turn[w].lease)
  /\ turn' = [turn EXCEPT ![w].spent = FALSE, ![w].pc = "watch"]
  /\ UNCHANGED <<objects, child, stopping, faults>>

\* Mutant: the cap is counted from the last renewal.
RenewedWithCap(w) ==
  LET cancelled == rows[turn[w].job].cancel_requested IN
  /\ At(w, "extend")
  /\ Store!Extend(turn[w].job, turn[w].lease)
  /\ turn' = [turn EXCEPT ![w].spent = FALSE,
                          ![w].capped = FALSE,
                          ![w].pc = IF cancelled THEN "term" ELSE "watch",
                          ![w].ending = IF cancelled THEN "cancelled" ELSE @]
  /\ UNCHANGED <<objects, child, stopping, faults>>

\* The heartbeat is also the look at cancel_requested.
Renewed(w) ==
  LET cancelled == rows[turn[w].job].cancel_requested IN
  /\ At(w, "extend")
  /\ Store!Extend(turn[w].job, turn[w].lease)
  /\ turn' = [turn EXCEPT ![w].spent = FALSE,
                          ![w].pc = IF cancelled THEN "term" ELSE "watch",
                          ![w].ending = IF cancelled THEN "cancelled" ELSE @]
  /\ UNCHANGED <<objects, child, stopping, faults>>

RenewalStale(w) ==
  /\ At(w, "extend")
  /\ ~Fenced(rows[turn[w].job], turn[w].lease)
  /\ Decide(w, "stale", "term")
  /\ UNCHANGED <<tableVars, objects, child, stopping, faults>>

\* Mutant: no answer is taken for a lost lease.
UnreachableIsStale(w) ==
  /\ At(w, "extend")
  /\ UNCHANGED tableVars
  /\ Decide(w, "stale", "term")
  /\ Fault("extend")
  /\ UNCHANGED <<objects, child, stopping>>

\* The store did not answer, in time or at all, and may have renewed the lease
\* without the worker knowing.  Only a lease whose known deadline has passed is
\* given up.
Unreachable(w) ==
  /\ At(w, "extend")
  /\ UNCHANGED tableVars \/ Store!Extend(turn[w].job, turn[w].lease)
  /\ IF turn[w].spent THEN Decide(w, "undefendable", "term") ELSE Goto(w, "watch")
  /\ Fault("extend")
  /\ UNCHANGED <<objects, child, stopping>>

-----------------------------------------------------------------------------
(* _kill and _finish                                                       *)

\* stop: SIGTERM, and then the grace.
KillBegins(w) == /\ At(w, "term")
                 /\ Terminate(w)
                 /\ Goto(w, "kill")
                 /\ UNCHANGED <<tableVars, objects, stopping>>

\* Mutant: the grace is over and the child is left to itself.
GraceOverLeaves(w) ==
  /\ At(w, "kill")
  /\ ~Collected(w)
  /\ Goto(w, IF turn[w].ending = "stale" THEN "discard" ELSE "nack")
  /\ UNCHANGED <<tableVars, objects, child, stopping, faults>>

\* Mutant: it is asked again.
GraceOverAsks(w) ==
  /\ At(w, "kill")
  /\ ~Collected(w)
  /\ Terminate(w)
  /\ UNCHANGED <<tableVars, objects, turn, stopping>>

\* The grace is over: SIGKILL.
GraceOver(w) ==
  /\ At(w, "kill")
  /\ ~Collected(w)
  /\ Dies(w)
  /\ UNCHANGED <<tableVars, objects, turn, stopping>>

\* Mutant: an artifact that arrived inside the grace is installed.
KilledButSolved(w) ==
  /\ At(w, "kill")
  /\ Collected(w)
  /\ Goto(w, IF child[w].said = "solved" THEN "put"
             ELSE IF turn[w].ending = "stale" THEN "discard" ELSE "nack")
  /\ UNCHANGED <<tableVars, objects, child, stopping, faults>>

\* stop returns the child's outcome, whatever it is, and it is discarded; if the
\* message cannot be read stop raises, and no ending reaches _finish.
Killed(w) ==
  /\ At(w, "kill")
  /\ Collected(w)
  /\ Goto(w, IF child[w].said = "garbled" THEN "close"
             ELSE IF turn[w].ending = "stale" THEN "discard" ELSE "nack")
  /\ UNCHANGED <<tableVars, objects, child, stopping, faults>>

Discard(w) == /\ At(w, "discard")
              /\ Goto(w, "close")
              /\ UNCHANGED <<tableVars, objects, child, stopping, faults>>

\* retry_in is given for a failed attempt, not for a job that is given back.
Backoff(w) == turn[w].ending \in {"completed", "timed_out"}

\* nack, and a StaleLease swallowed.
Nack(w) ==
  LET j == turn[w].job
      l == turn[w].lease
  IN
  /\ At(w, "nack")
  /\ IF Fenced(rows[j], l) THEN Store!Nack(j, l, Backoff(w))
     ELSE UNCHANGED tableVars
  /\ Goto(w, "close")
  /\ UNCHANGED <<objects, child, stopping, faults>>

\* The store fails the nack: swallowed by _release, raised by the others.
NackFails(w) ==
  /\ At(w, "nack")
  /\ \/ UNCHANGED tableVars
     \/ Store!Nack(turn[w].job, turn[w].lease, Backoff(w))
  /\ Goto(w, "close")
  /\ Fault("report")
  /\ UNCHANGED <<objects, child, stopping>>

\* put_object: the bytes of this attempt replace what was at the key.
Written(w) ==
  LET key == ArtifactKey(turn[w].job, turn[w].lease) IN
  objects' = {o \in objects : o.key # key} \cup {[key |-> key, by |-> turn[w].lease]}

Put(w) == /\ At(w, "put")
          /\ Written(w)
          /\ Goto(w, "ack")
          /\ UNCHANGED <<tableVars, child, stopping, faults>>

\* Mutant: the error of a failed write leaves the turn.
PutRaises(w) == /\ At(w, "put")
                /\ UNCHANGED objects
                /\ Goto(w, "close")
                /\ Fault("put")
                /\ UNCHANGED <<tableVars, child, stopping>>

\* A failed write is a failed attempt, whether or not the object was stored.
PutFails(w) == /\ At(w, "put")
               /\ UNCHANGED objects \/ Written(w)
               /\ Goto(w, "nack")
               /\ Fault("put")
               /\ UNCHANGED <<tableVars, child, stopping>>

\* ack, and a StaleLease swallowed: the artifact is an orphan.
Ack(w) ==
  LET j == turn[w].job
      l == turn[w].lease
  IN
  /\ At(w, "ack")
  /\ IF Fenced(rows[j], l) THEN Store!Ack(j, l) ELSE UNCHANGED tableVars
  /\ Goto(w, "close")
  /\ UNCHANGED <<objects, child, stopping, faults>>

AckFails(w) ==
  /\ At(w, "ack")
  /\ \/ UNCHANGED tableVars
     \/ Store!Ack(turn[w].job, turn[w].lease)
  /\ Goto(w, "close")
  /\ Fault("report")
  /\ UNCHANGED <<objects, child, stopping>>

\* aclose is stop once more.  The collector has ended, so it returns or raises
\* at once and never gets as far as SIGKILL.
Close(w) == /\ At(w, "close")
            /\ Terminate(w)
            /\ turn' = [turn EXCEPT ![w].pc = "idle", ![w].capped = FALSE, ![w].spent = FALSE]
            /\ UNCHANGED <<tableVars, objects, stopping>>

-----------------------------------------------------------------------------
(* The clock, the clients, the operator, and other processes.              *)

Enqueue(j) == /\ \E max \in Limits : Store!InsertOrGet(j, max, FALSE)
              /\ UNCHANGED <<objects, turn, child, stopping, faults>>

Environment(j) ==
  /\ \/ Store!Cancel(j) \/ Store!LeaseExpires(j) \/ Store!RunAfterPasses(j)
     \/ Store!RetireLapsed
  /\ UNCHANGED <<objects, turn, child, stopping, faults>>

CapPasses(w) == /\ w \in Slow
                /\ At(w, "watch") \/ At(w, "extend")
                /\ ~turn[w].capped
                /\ turn' = [turn EXCEPT ![w].capped = TRUE]
                /\ UNCHANGED <<tableVars, objects, child, stopping, faults>>

\* By the worker's own clock, which need not agree with the database's.
DeadlinePasses(w) == /\ w \in Slow
                     /\ At(w, "watch") \/ At(w, "extend")
                     /\ ~turn[w].spent
                     /\ turn' = [turn EXCEPT ![w].spent = TRUE]
                     /\ UNCHANGED <<tableVars, objects, child, stopping, faults>>

\* SIGTERM to the supervisor, at any time.
Stop(w) == /\ w \in Halting
           /\ w \notin stopping
           /\ stopping' = stopping \cup {w}
           /\ UNCHANGED <<tableVars, objects, turn, child, faults>>

\* The container dies, child and all, and is started again.
Crash(w) == /\ Fault("crash")
            /\ turn' = [turn EXCEPT ![w] = NoTurn]
            /\ child' = [child EXCEPT ![w] = NoChild]
            /\ stopping' = stopping \ {w}
            /\ UNCHANGED <<tableVars, objects>>

-----------------------------------------------------------------------------

\* A coroutine that can go on does.
Turning(w) ==
  \/ RunHalts(w) \/ RunOnce(w) \/ ReservedNothing(w) \/ Spawn(w)
  \/ \E j \in Jobs : Reserved(w, j)
  \/ WakeReported(w) \/ WakeStopping(w) \/ WakeCapped(w) \/ WakeBeat(w)
  \/ Renewed(w) \/ RenewalStale(w)
  \/ KillBegins(w) \/ GraceOver(w) \/ Killed(w)
  \/ Discard(w) \/ Nack(w) \/ Put(w) \/ Ack(w) \/ Close(w)

Failing(w) ==
  \/ ReserveFails(w) \/ SpawnFails(w) \/ Unreachable(w) \/ PutFails(w)
  \/ NackFails(w) \/ AckFails(w) \/ Crash(w)

Childs(w) ==
  \/ \E outcome \in SolverOutcome : ChildReports(w, outcome)
  \/ ChildGarbles(w) \/ ChildDies(w) \/ ChildReaped(w)

Next ==
  \/ \E w \in Workers :
       \/ Turning(w) \/ Failing(w) \/ Childs(w)
       \/ CapPasses(w) \/ DeadlinePasses(w) \/ Stop(w)
  \/ \E j \in Jobs : Enqueue(j) \/ Environment(j)

Spec == Init /\ [][Next]_vars

\* The event loop runs what can run and a child that reported is reaped.  No
\* child owes a report, no deadline has to pass, nobody has to stop anything.
FairSpec == /\ Spec
            /\ \A w \in Workers : WF_vars(Turning(w)) /\ WF_vars(ChildReaped(w))

-----------------------------------------------------------------------------
(* What the workers promise.                                               *)

\* A job that is done points at an artifact that is there, and its bytes are
\* those of the very attempt whose ack put the pointer: a crash between the
\* write and the ack, a late competitor or a retry never makes it another's.
ResultIsOwn ==
  \A j \in Jobs :
    rows[j].state = "done" =>
      [key |-> ArtifactKey(j, rows[j].result_ref), by |-> rows[j].result_ref]
        \in objects

\* Once the supervisor has decided to stop the child, that decision is the
\* outcome: whatever the child still reports on the way down is neither
\* written nor acknowledged.
DecisionIsOutcome ==
  \A w \in Workers :
    turn[w].ending \notin {"none", "completed"} =>
      /\ turn[w].lease \notin acked[turn[w].job]
      /\ \A o \in objects : o # [key |-> ArtifactKey(turn[w].job, turn[w].lease),
                                 by  |-> turn[w].lease]

\* A solve is stopped for a cause: a shutdown, its cap, a cancellation, a lease
\* that is another's, or one that can no longer be defended.  A store that does
\* not answer is not one.
StoppedForCause ==
  \A w \in Workers :
    At(w, "term") \/ At(w, "kill") =>
      \/ w \in stopping
      \/ turn[w].capped
      \/ turn[w].spent
      \/ rows[turn[w].job].cancel_requested
      \/ ~Fenced(rows[turn[w].job], turn[w].lease)

BetweenTurns(w) == turn[w].pc \in {"idle", "reserve", "halted"}

\* What the parent could not read made the collector raise.
Unreadable(w) == child[w].said = "garbled"

\* No turn leaves a child behind that holds a CPU, but one that is deaf and whose
\* message could not be read: stop raises before it comes to SIGKILL.
ChildGoneBetweenTurns ==
  \A w \in Workers :
    BetweenTurns(w) => ~child[w].alive \/ (child[w].deaf /\ Unreadable(w))

\* No turn leaves its lease behind: when a worker looks for the next job, the row
\* of the last one does not wait for it any more.  An outcome that cannot be read
\* is answered for too (_reported), unless it was read while the child was being
\* stopped: that error is nobody's (_kill).
EveryLeaseAnswered ==
  \A w \in Workers :
    BetweenTurns(w) /\ turn[w].job # NoJob =>
      \/ ~Fenced(rows[turn[w].job], turn[w].lease)
      \/ turn[w].ending \notin {"none", "completed"} /\ Unreadable(w)

Standing(w) == /\ Fenced(rows[turn[w].job], turn[w].lease)
               /\ ~rows[turn[w].job].cancel_requested

\* A solve that was cancelled, or whose lease was taken, is stopped in the end,
\* by a child that ignores every request too, if what it says can be read.
SolveWithoutStandingStops ==
  \A w \in Workers :
    ~BetweenTurns(w) /\ child[w].alive /\ ~Standing(w)
      ~> ~child[w].alive \/ (child[w].deaf /\ Unreadable(w))

\* A solve that passes its cap ends its turn, however it renews its lease.
CapEndsTurn ==
  \A w \in Workers : turn[w].capped /\ ~BetweenTurns(w) ~> BetweenTurns(w)

\* A worker that is asked to stop does, and leaves no child behind, with the
\* exception of ChildGoneBetweenTurns.
StopHalts ==
  \A w \in Workers :
    w \in stopping ~> \/ w \notin stopping
                      \/ At(w, "halted")
                         /\ (~child[w].alive \/ (child[w].deaf /\ Unreadable(w)))

=============================================================================
