---------------------------- MODULE MCSupervisor ----------------------------
(* One job that is tried at most twice, and one or two workers.            *)
EXTENDS Supervisor

CONSTANTS j1, w1, w2

\* Each kind of failure that a run allows happens at most once.
MCFaults(some) == [k \in FaultKinds |-> IF k \in some THEN 1 ELSE 0]

MCAnswerable == MCFaults({"extend", "put", "pipe"})
MCRace == MCFaults({"crash", "reserve", "spawn", "report"})

=============================================================================
