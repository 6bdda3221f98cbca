----------------------------- MODULE MCJobStore -----------------------------
(* Two jobs, one of them in a chat session, that may be tried once or twice.*)
EXTENDS JobStore

CONSTANTS j1, j2

MCJobs == {j1, j2}
MCInSession == {j1}
MCLimits == {1, 2}

=============================================================================
