-------------------------- MODULE MCChatConnection --------------------------
(* One client that connects, submits, resumes and leaves as it likes: a turn *)
(* runs on the connection its message was submitted on, and the message is   *)
(* submitted again there and on the next.                                    *)
EXTENDS ChatConnection

MCAllFailures == FaultKinds

=============================================================================
