---------------------------- MODULE MCSessionLog ----------------------------
(* Two sessions of two jobs each and two connections: two sweeps may come   *)
(* to the same rows, and sweeps of different rows need each other's         *)
(* sessions.  The session with a client has room for two rows, of a turn or *)
(* of transitions or one of each, and a page is shorter than that.          *)
EXTENDS SessionLog, TLC

CONSTANTS j1, j2, j3, j4, t1, t2

MCSessionOf == [j \in Jobs |-> IF j \in {j1, j2} THEN 1 ELSE 2]

MCMaxSeq == [s \in Sessions |-> 2]

\* The jobs of a session and the connections are alike.
MCSymmetry ==
  Permutations({j1, j2}) \cup Permutations({j3, j4}) \cup Permutations({t1, t2})

=============================================================================
