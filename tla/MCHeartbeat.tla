---------------------------- MODULE MCHeartbeat ----------------------------
(* The durations are small numbers in the proportions that matter.         *)
EXTENDS Heartbeat

=============================================================================
