------------------------------ MODULE ChatLog -------------------------------
(***************************************************************************)
(* What core/chat_repository.py promises of a session's log, with nothing  *)
(* said of tables, counters or locks: every session has one sequence of    *)
(* entries that only grows at its end, an assistant's entry is the only    *)
(* one that changes after it was written, and whoever reads the log from   *)
(* where it stopped has read a beginning of it, without a hole.            *)
(***************************************************************************)
EXTENDS Naturals, Sequences, SequencesExt, FiniteSets

CONSTANTS Sessions, Keys, Jobs

\* A user's message has the client's key, a transition its job.
Entry ==
  [kind : {"user"}, of : Keys, status : {"complete"}]
    \cup [kind : {"event"}, of : Jobs, status : {"complete"}]
    \cup [kind : {"assistant"}, of : {"reply"}, status : {"streaming", "complete", "failed"}]

VARIABLES log,  \* session -> sequence of entries
          read  \* session -> the numbers of the entries a reader was given

vars == <<log, read>>

Init == /\ log = [s \in Sessions |-> <<>>]
        /\ read = [s \in Sessions |-> {}]

\* One transaction: it adds to the logs of one or several sessions, and tells
\* them nothing twice that has a client's key.
Write ==
  /\ \A s \in Sessions :
       /\ IsPrefix(log[s], log'[s])
       /\ Range(log'[s]) \subseteq Entry
       /\ \A k \in Keys :
            Cardinality({i \in DOMAIN log'[s] :
                           log'[s][i].kind = "user" /\ log'[s][i].of = k}) <= 1
  /\ UNCHANGED read

\* A reply is finished, whatever was said of it before.
Finish(s, i, status) ==
  /\ i \in DOMAIN log[s]
  /\ log[s][i].kind = "assistant"
  /\ log' = [log EXCEPT ![s][i].status = status]
  /\ UNCHANGED read

\* The next entries of the log, as many as the reader is given at once.
Read(s, upto) == /\ read' = [read EXCEPT ![s] = 1..upto]
                 /\ read[s] \subseteq read'[s]
                 /\ UNCHANGED log

Next ==
  \/ Write
  \/ \E s \in Sessions :
       \/ \E i \in DOMAIN log[s], status \in {"complete", "failed"} :
            Finish(s, i, status)
       \/ \E upto \in 0..Len(log[s]) : Read(s, upto)

Spec == Init /\ [][Next]_vars

=============================================================================
