-------------------------- MODULE Heartbeat_proofs --------------------------
(***************************************************************************)
(* What Heartbeat promises holds for all durations that WorkerConfig       *)
(* accepts, however slow the calls, however far apart the clocks.          *)
(*                                                                         *)
(* Every wait of the turn ends at wake, and time does not pass it.  So the *)
(* invariant says of each await how late its wake can be, by each of four  *)
(* yardsticks: the stop, the cap, the deadline of the row and, when few    *)
(* calls went wrong, the same deadline with the whole lease before it.     *)
(***************************************************************************)
EXTENDS Heartbeat, TLAPS

\* Time waits for the turn.
Punctual == pc # "over" => now <= wake

\* A child lives only while it is watched or killed.
Childless == pc \in {"spawn", "finish", "over"} => ~child

\* Before the child is started the claim is the newest word on the lease.
Claimed ==
  pc = "spawn" =>
    /\ wake = ExtendEvery /\ called = 0 /\ misses = 0
    /\ deadline = Lease /\ known = Lease

\* The worker never believes more than the row says.
Believed == known <= deadline /\ deadline <= now + Lease

\* A call ends within one interval; an answer that is not a refusal has renewed.
Calling ==
  pc = "extend" =>
    /\ wake = called + ExtendEvery
    /\ called <= now
    /\ called < cap
    /\ answer \in {"renewed", "cancelled"} => called + Lease <= deadline

\* The yardstick of a shutdown.
AfterStop ==
  /\ pc = "kill" => wake <= now + Grace
  /\ Stopping =>
       /\ pc = "watch" => now <= stopAt + ExtendEvery
       /\ pc = "extend" => wake <= stopAt + ExtendEvery
       /\ pc = "kill" => wake <= stopAt + ExtendEvery + Grace

\* The yardstick of the cap.
AfterCap ==
  /\ pc = "watch" => wake < cap + ExtendEvery
  /\ pc = "kill" => wake < cap + ExtendEvery + Grace

\* The yardstick of a lease that nobody renews.
AfterLapse ==
  /\ pc = "watch" => wake < deadline + ExtendEvery + MaxSkew
  /\ pc = "extend" => called < deadline + ExtendEvery + MaxSkew
  /\ pc = "kill" => wake < deadline + 2 * ExtendEvery + Grace + MaxSkew

\* What n calls in a row that go wrong can cost: a wait and a call each.
Cost(n) == 2 * ExtendEvery * n

\* The yardstick of a lease that was renewed misses calls ago.
OfTheLease ==
  misses <= MaxMisses =>
    LET latest == deadline - Lease + Prompt + ExtendEvery + Cost(misses) IN
    /\ pc = "watch" => wake <= latest
    /\ pc = "extend" => called <= latest
    /\ pc = "kill" => wake <= latest + Prompt + Grace
    /\ pc = "finish" => wake <= latest + Prompt + Grace + Report

Bounds == /\ Punctual /\ Childless /\ Claimed /\ Believed /\ Calling
          /\ AfterStop /\ AfterCap /\ AfterLapse

IInv == TypeOK /\ Bounds /\ OfTheLease

USE HeartbeatAssumption
USE DEF Never

-----------------------------------------------------------------------------
(* Each step keeps the types, the bounds, and what is left of the lease.   *)

\* No step leaves the types.
LEMMA TypeStep == TypeOK /\ Believed /\ [Next]_vars => TypeOK'
  <1> SUFFICES ASSUME TypeOK, Believed, [Next]_vars PROVE TypeOK'
    OBVIOUS
  <1> USE DEF TypeOK, Believed, rowVars, Kill, Least, WaitUntil, MissesAfter, InTime, Stopping
  <1>1. CASE Start
    BY <1>1 DEF Start
  <1>2. CASE WakeReported
    BY <1>2 DEF WakeReported
  <1>3. CASE WakeStopping
    BY <1>3 DEF WakeStopping
  <1>4. CASE WakeCapped
    BY <1>4 DEF WakeCapped
  <1>5. CASE WakeBeat
    BY <1>5 DEF WakeBeat
  <1>6. CASE ExtendLands
    BY <1>6 DEF ExtendLands
  <1>7. CASE Renewed
    BY <1>7 DEF Renewed
  <1>8. CASE Refused
    BY <1>8 DEF Refused
  <1>9. CASE Missed
    BY <1>9 DEF Missed
  <1>10. CASE GraceOver
    BY <1>10 DEF GraceOver
  <1>11. CASE Killed
    BY <1>11 DEF Killed
  <1>12. CASE Finish
    BY <1>12 DEF Finish
  <1>13. CASE ChildEnds
    BY <1>13 DEF ChildEnds
  <1>14. CASE Stop
    BY <1>14 DEF Stop
  <1>15. CASE Cancel
    BY <1>15 DEF Cancel
  <1>16. CASE Taken
    BY <1>16 DEF Taken
  <1>17. CASE Tick
    BY <1>17 DEF Tick
  <1>18. CASE UNCHANGED vars
    BY <1>18 DEF vars, rowVars
  <1>19. QED
    BY <1>1, <1>2, <1>3, <1>4, <1>5, <1>6, <1>7, <1>8, <1>9, <1>10, <1>11, <1>12, <1>13, <1>14, <1>15, <1>16, <1>17, <1>18 DEF Next

\* Each step keeps the wake of its await within the stop, the cap and the deadline.
LEMMA BoundsStep == TypeOK /\ Bounds /\ [Next]_vars => Bounds'
  <1> SUFFICES ASSUME TypeOK, Bounds, [Next]_vars PROVE Bounds'
    OBVIOUS
  <1> USE DEF TypeOK, Bounds, Punctual, Childless, Claimed, Believed, Calling,
              AfterStop, AfterCap, AfterLapse, Woken, Expired, Due, Lapsed,
              rowVars, Kill, Least, WaitUntil, MissesAfter, InTime, Stopping
  <1>1. CASE Start
    BY <1>1 DEF Start
  <1>2. CASE WakeReported
    BY <1>2 DEF WakeReported
  <1>3. CASE WakeStopping
    BY <1>3 DEF WakeStopping
  <1>4. CASE WakeCapped
    BY <1>4 DEF WakeCapped
  <1>5. CASE WakeBeat
    BY <1>5 DEF WakeBeat
  <1>6. CASE ExtendLands
    BY <1>6 DEF ExtendLands
  <1>7. CASE Renewed
    BY <1>7 DEF Renewed
  <1>8. CASE Refused
    BY <1>8 DEF Refused
  <1>9. CASE Missed
    BY <1>9 DEF Missed
  <1>10. CASE GraceOver
    BY <1>10 DEF GraceOver
  <1>11. CASE Killed
    BY <1>11 DEF Killed
  <1>12. CASE Finish
    BY <1>12 DEF Finish
  <1>13. CASE ChildEnds
    BY <1>13 DEF ChildEnds
  <1>14. CASE Stop
    BY <1>14 DEF Stop
  <1>15. CASE Cancel
    BY <1>15 DEF Cancel
  <1>16. CASE Taken
    BY <1>16 DEF Taken
  <1>17. CASE Tick
    BY <1>17 DEF Tick
  <1>18. CASE UNCHANGED vars
    BY <1>18 DEF vars, rowVars
  <1>19. QED
    BY <1>1, <1>2, <1>3, <1>4, <1>5, <1>6, <1>7, <1>8, <1>9, <1>10, <1>11, <1>12, <1>13, <1>14, <1>15, <1>16, <1>17, <1>18 DEF Next

\* One more call that goes wrong costs a wait and a call.
LEMMA CostStep ==
  /\ Cost(0) = 0
  /\ \A n \in Nat : Cost(n) \in Nat /\ Cost(n + 1) = Cost(n) + 2 * ExtendEvery
  BY DEF Cost

\* Fewer calls that go wrong cost no more.
LEMMA CostGrows ==
  ASSUME NEW m \in Nat, NEW n \in Nat, m <= n
  PROVE  Cost(m) <= Cost(n)
  <1>1. PICK d \in Nat : n = m + d
    BY n - m \in Nat
  <1>2. Cost(n) = Cost(m) + 2 * ExtendEvery * d
    BY <1>1 DEF Cost
  <1>3. 2 * ExtendEvery * d \in Nat
    BY <1>1
  <1>4. QED
    BY <1>2, <1>3, CostStep

\* Each step keeps the wake of its await within the latest renewal's lease, less
\* what the calls that went wrong since have cost.
LEMMA LeaseStep == TypeOK /\ Bounds /\ OfTheLease /\ [Next]_vars => OfTheLease'
  <1> SUFFICES ASSUME TypeOK, Bounds, OfTheLease, [Next]_vars PROVE OfTheLease'
    OBVIOUS
  <1>a. /\ Cost(0) = 0
        /\ Cost(misses) \in Nat
        /\ Cost(misses + 1) = Cost(misses) + 2 * ExtendEvery
    BY CostStep DEF TypeOK
  <1> USE <1>a DEF TypeOK, Bounds, Punctual, Childless, Claimed, Believed, Calling,
                   OfTheLease, Woken, Due, rowVars, Kill, Least, WaitUntil, MissesAfter,
                   InTime, Stopping
  <1>1. CASE Start
    BY <1>1 DEF Start
  <1>2. CASE WakeReported
    BY <1>2 DEF WakeReported
  <1>3. CASE WakeStopping
    BY <1>3 DEF WakeStopping
  <1>4. CASE WakeCapped
    BY <1>4 DEF WakeCapped
  <1>5. CASE WakeBeat
    BY <1>5 DEF WakeBeat
  <1>6. CASE ExtendLands
    BY <1>6 DEF ExtendLands
  <1>7. CASE Renewed
    BY <1>7 DEF Renewed
  <1>8. CASE Refused
    BY <1>8 DEF Refused
  <1>9. CASE Missed
    BY <1>9 DEF Missed
  <1>10. CASE GraceOver
    BY <1>10 DEF GraceOver
  <1>11. CASE Killed
    BY <1>11 DEF Killed
  <1>12. CASE Finish
    BY <1>12 DEF Finish
  <1>13. CASE ChildEnds
    BY <1>13 DEF ChildEnds
  <1>14. CASE Stop
    BY <1>14 DEF Stop
  <1>15. CASE Cancel
    BY <1>15 DEF Cancel
  <1>16. CASE Taken
    BY <1>16 DEF Taken
  <1>17. CASE Tick
    BY <1>17 DEF Tick
  <1>18. CASE UNCHANGED vars
    BY <1>18 DEF vars, rowVars
  <1>19. QED
    BY <1>1, <1>2, <1>3, <1>4, <1>5, <1>6, <1>7, <1>8, <1>9, <1>10, <1>11, <1>12, <1>13, <1>14, <1>15, <1>16, <1>17, <1>18 DEF Next

-----------------------------------------------------------------------------
(* The theorems.                                                           *)

\* The claim has just been made: nothing is late.
LEMMA InitOK == Init => IInv
  <1> SUFFICES ASSUME Init PROVE IInv
    OBVIOUS
  <1>1. TypeOK
    <2>1. child \in BOOLEAN /\ taken \in BOOLEAN /\ cancelled \in BOOLEAN
      BY Zenon DEF Init
    <2>2. ExtendEvery \in Nat /\ Lease \in Nat /\ 0 \in 0 .. MaxMisses + 1
      OBVIOUS
    <2>3. QED
      BY <2>1, <2>2, Z3 DEF Init, TypeOK
  <1>2. Bounds
    BY DEF Init, Bounds, Punctual, Childless, Claimed, Believed, Calling, AfterStop,
           AfterCap, AfterLapse, Stopping
  <1>3. OfTheLease
    BY DEF Init, OfTheLease
  <1>4. QED
    BY <1>1, <1>2, <1>3 DEF IInv

\* The bounds on every await are kept by every step, for all durations.
THEOREM InvHolds == Spec => []IInv
  <1>1. IInv /\ [Next]_vars => IInv'
    BY TypeStep, BoundsStep, LeaseStep DEF IInv, Bounds
  <1>2. QED
    BY InitOK, <1>1, PTL DEF Spec

\* The clock of a solve keeps its types.
THEOREM TypeCorrect == Spec => []TypeOK
  <1>1. IInv => TypeOK
    BY DEF IInv
  <1>2. QED
    BY <1>1, InvHolds, PTL

\* A child is gone an interval and a grace after the stop, or after its cap
\* (_supervise: the cap is enforced between two beats, never within a call).
THEOREM StopsInTimeHolds == Spec => []StopsInTime
  <1>1. IInv => StopsInTime
    <2> SUFFICES ASSUME IInv, child PROVE StopsInTime
      BY DEF StopsInTime
    <2> USE DEF IInv, TypeOK, Bounds, Punctual, Childless, Calling, AfterStop, AfterCap
    <2>1. CASE pc = "watch"
      BY <2>1 DEF StopsInTime, Stopping
    <2>2. CASE pc = "extend"
      BY <2>2 DEF StopsInTime, Stopping
    <2>3. CASE pc = "kill"
      BY <2>3 DEF StopsInTime, Stopping
    <2>4. QED
      BY <2>1, <2>2, <2>3
  <1>2. QED
    BY <1>1, InvHolds, PTL

\* No child works beside the worker that took its job over for longer than two
\* intervals, the grace and the difference of the clocks (_supervise, _extend).
THEOREM LapsedSolveStopsHolds == Spec => []LapsedSolveStops
  <1>1. IInv => LapsedSolveStops
    BY DEF IInv, TypeOK, Bounds, Punctual, Childless, Calling, AfterLapse,
           LapsedSolveStops
  <1>2. QED
    BY <1>1, InvHolds, PTL

\* With durations that leave room for MaxMisses calls that go wrong, no lease
\* lapses under its worker while no more than those do (WorkerConfig).
THEOREM LeaseOutlastsMissesHolds == Spec => []LeaseOutlastsMisses
  <1>1. IInv => LeaseOutlastsMisses
    <2> SUFFICES ASSUME IInv, Comfortable, Misses <= MaxMisses, pc # "over"
                 PROVE  ~Lapsed
      BY DEF LeaseOutlastsMisses
    <2> USE DEF IInv, TypeOK, Bounds, Punctual, Childless, Claimed, Calling, OfTheLease,
                Lapsed, InTime
    <2>1. Lease >= 2 * Prompt + ExtendEvery + Cost(MaxMisses) + Grace + Report
      BY DEF Comfortable, Cost
    <2>2. /\ Misses \in Nat /\ misses <= Misses
          /\ Cost(misses) \in Nat /\ Cost(Misses) \in Nat /\ Cost(MaxMisses) \in Nat
          /\ Cost(misses + 1) = Cost(misses) + 2 * ExtendEvery
      BY CostStep DEF Misses
    <2>3. Cost(misses) <= Cost(MaxMisses) /\ Cost(Misses) <= Cost(MaxMisses)
      BY <2>2, CostGrows
    <2> HIDE DEF IInv
    <2>4. CASE pc = "spawn"
      BY <2>4 DEF IInv
    <2>5. CASE pc = "extend"
      BY <2>1, <2>2, <2>3, <2>5 DEF IInv, Misses
    <2>6. CASE pc \in {"watch", "kill", "finish"}
      BY <2>1, <2>2, <2>3, <2>6 DEF IInv
    <2>7. QED
      BY <2>4, <2>5, <2>6 DEF IInv
  <1>2. QED
    BY <1>1, InvHolds, PTL

=============================================================================
