----------------------------- MODULE MCJobQueue -----------------------------
(* One job, one or two workers and at most two producers.                 *)
EXTENDS JobQueue

CONSTANTS j1, w1, w2, p1, p2

=============================================================================
