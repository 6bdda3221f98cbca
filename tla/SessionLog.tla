----------------------------- MODULE SessionLog -----------------------------
(***************************************************************************)
(* The session log in Postgres: chat_messages and job_events, numbered     *)
(* from one counter, chat_sessions.next_seq, by adapters/postgres/seq.py.  *)
(*                                                                         *)
(* A transaction of chat_repository.py or job_store.py is several          *)
(* statements, and others run between them: each statement that waits for  *)
(* a row lock or takes one is an action, and so are commit and rollback.   *)
(* The rows a transaction has written are its own until it commits; the    *)
(* locks it holds are those of the jobs its statement has come to, one row *)
(* after another, and of the sessions it has numbered rows of.             *)
(***************************************************************************)
EXTENDS Integers, FiniteSets

CONSTANTS Sessions,   \* in the order of their ids
          Live,       \* the sessions that have a client, who writes and reads
          Keys,       \* client_msg_id
          Jobs,       \* those of a session; the others are in no log
          SessionOf,  \* the session of each job
          Txs,        \* connections that write
          Limit,      \* rows a reader is given at once, ws_resume_max_messages
          MaxSeq      \* bound on the numbers handed out in each session

ASSUME SessionLogAssumption ==
  /\ Sessions \subseteq Nat
  /\ Live \subseteq Sessions
  /\ SessionOf \in [Jobs -> Sessions]
  /\ Limit \in Nat \ {0}
  /\ MaxSeq \in [Sessions -> Nat]

VARIABLES
  next_seq,  \* session -> its counter; 0 is a session without a row
  rows,      \* the committed rows of both tables
  tx,        \* connection -> its open transaction
  reader     \* session -> a client that reads its log

vars == <<next_seq, rows, tx, reader>>

Messages == {"user", "assistant"}

Draft == [session : Sessions, kind : {"user"}, of : Keys]
           \cup [session : Sessions, kind : {"assistant"}, of : {"reply"}]
           \cup [session : Sessions, kind : {"event"}, of : Jobs]

\* A row of either table: a draft, its number, and the status of a message.
Row == [draft : Draft, seq : Nat \ {0}, status : {"streaming", "complete", "failed"}]

\* moves are the jobs its statement has still to lock, jobs those it has; todo
\* is what it has still to number, wrote what it has.
Tx == [open : BOOLEAN, moves : SUBSET Jobs, jobs : SUBSET Jobs,
       todo : SUBSET Draft, wrote : SUBSET Row]

NoTx == [open |-> FALSE, moves |-> {}, jobs |-> {}, todo |-> {}, wrote |-> {}]

\* cursor is the number the client resumes from and got every number it was
\* given; page is the messages of a read that is under way, and snapshot the
\* transitions it will find.
Reader == [reading : BOOLEAN, cursor : Nat, got : SUBSET Nat,
           page : SUBSET Nat, snapshot : SUBSET Nat]

NoReader == [reading |-> FALSE, cursor |-> 0, got |-> {}, page |-> {}, snapshot |-> {}]

TypeOK == /\ next_seq \in [Sessions -> Nat]
          /\ rows \subseteq Row
          /\ tx \in [Txs -> Tx]
          /\ reader \in [Sessions -> Reader]

Init == /\ next_seq = [s \in Sessions |-> 0]
        /\ rows = {}
        /\ tx = [t \in Txs |-> NoTx]
        /\ reader = [s \in Sessions |-> NoReader]

RowsOf(s) == {r \in rows : r.draft.session = s}

\* What a transaction has numbered in a session, and so holds the lock of.
WroteIn(t, s) == {r \in tx[t].wrote : r.draft.session = s}

\* Mutant: the number is read with a select.
SessionNeverHeld(t, s) == FALSE

SessionHeld(t, s) == \E u \in Txs \ {t} : WroteIn(u, s) # {}

JobHeld(t, j) == \E u \in Txs \ {t} : j \in tx[u].jobs

\* _record_event, for each row the statement moved.
Events(jobs) == {[session |-> SessionOf[j], kind |-> "event", of |-> j] : j \in jobs}

\* What the open transactions have numbered in a session, or will.
Claims == UNION {{<<t, d>> : d \in Events(tx[t].moves) \cup tx[t].todo
                                     \cup {r.draft : r \in tx[t].wrote}} : t \in Txs}

Room(s, n) == LET mine == {c \in Claims : c[2].session = s}
              IN next_seq[s] + Cardinality(mine) + n <= MaxSeq[s] + 1

Begin(t, moves, todo) ==
  /\ ~tx[t].open
  /\ tx' = [tx EXCEPT ![t] = [NoTx EXCEPT !.open = TRUE, !.moves = moves, !.todo = todo]]

-----------------------------------------------------------------------------
(* The transactions.                                                       *)

EnsureSession(s) == /\ next_seq[s] = 0
                    /\ next_seq' = [next_seq EXCEPT ![s] = 1]
                    /\ UNCHANGED <<rows, tx, reader>>

RecordUserMessage(t, s, k) ==
  /\ Room(s, 1)
  /\ Begin(t, {}, {[session |-> s, kind |-> "user", of |-> k]})
  /\ UNCHANGED <<next_seq, rows, reader>>

StartAssistantMessage(t, s) ==
  /\ Room(s, 1)
  /\ Begin(t, {}, {[session |-> s, kind |-> "assistant", of |-> "reply"]})
  /\ UNCHANGED <<next_seq, rows, reader>>

\* A statement of job_store.py on one row.
Transition(t, j) ==
  /\ Room(SessionOf[j], 1)
  /\ Begin(t, {j}, {})
  /\ UNCHANGED <<next_seq, rows, reader>>

\* The one statement that moves several.  Which jobs have lapsed is JobStore's;
\* now() is the beginning of the transaction and cancel_requested is read by the
\* statement, so two sweeps at once need not find the same ones.
RetireLapsed(t, jobs) ==
  /\ jobs # {}
  /\ \A s \in Sessions : Room(s, Cardinality({j \in jobs : SessionOf[j] = s}))
  /\ Begin(t, jobs, {})
  /\ UNCHANGED <<next_seq, rows, reader>>

\* The statement comes to a row and waits for whoever has it.  Nothing orders
\* the rows of an update.  One that was changed meanwhile, so that it is no
\* longer what the statement looks for, stays locked but is not moved.
LockJob(t, j) ==
  /\ j \in tx[t].moves
  /\ ~JobHeld(t, j)
  /\ \E moved \in SUBSET {j} :
       tx' = [tx EXCEPT ![t].moves = @ \ {j}, ![t].jobs = @ \cup {j},
                        ![t].todo = @ \cup Events(moved)]
  /\ UNCHANGED <<next_seq, rows, reader>>

\* Mutant: retire_lapsed records in the order of RETURNING.
IsNextUnsorted(d, todo) == d \in todo

\* sorted by session, for retire_lapsed.
IsNext(d, todo) == \A e \in todo : d.session <= e.session

\* Mutant: one is subtracted from the number before the update.
NextNumberTooLow(t, s) == next_seq[s] + Cardinality(WroteIn(t, s)) - 1

NextNumber(t, s) == next_seq[s] + Cardinality(WroteIn(t, s))

\* allocate_seq waits for whoever else has numbered a row of the session; then
\* the row is inserted with the number.  A user's message is inserted unless
\* its key has been recorded.
Number(t, d) ==
  LET s == d.session
      row == [draft |-> d, seq |-> NextNumber(t, s),
              status |-> IF d.kind = "assistant" THEN "streaming" ELSE "complete"]
  IN
  /\ tx[t].moves = {}
  /\ d \in tx[t].todo
  /\ IsNext(d, tx[t].todo)
  /\ ~SessionHeld(t, s)
  /\ next_seq[s] > 0
  /\ ~\E r \in rows : d.kind = "user" /\ r.draft = d
  /\ tx' = [tx EXCEPT ![t].todo = @ \ {d}, ![t].wrote = @ \cup {row}]
  /\ UNCHANGED <<next_seq, rows, reader>>

\* The key has been recorded: rolled back before the row of the first is read.
Duplicate(t, d) ==
  /\ tx[t].moves = {}
  /\ d \in tx[t].todo
  /\ ~SessionHeld(t, d.session)
  /\ \E r \in rows : d.kind = "user" /\ r.draft = d
  /\ tx' = [tx EXCEPT ![t] = NoTx]
  /\ UNCHANGED <<next_seq, rows, reader>>

\* LookupError: there is no such session.
NoSuchSession(t, d) ==
  /\ tx[t].moves = {}
  /\ d \in tx[t].todo
  /\ next_seq[d.session] = 0
  /\ tx' = [tx EXCEPT ![t] = NoTx]
  /\ UNCHANGED <<next_seq, rows, reader>>

Commit(t) ==
  /\ tx[t].open
  /\ tx[t].moves = {}
  /\ tx[t].todo = {}
  /\ next_seq' = [s \in Sessions |-> next_seq[s] + Cardinality(WroteIn(t, s))]
  /\ rows' = rows \cup tx[t].wrote
  /\ tx' = [tx EXCEPT ![t] = NoTx]
  /\ UNCHANGED reader

\* The caller is cancelled, its process dies, the connection is lost, or the
\* database ends a deadlock.
Rollback(t) == /\ tx[t].open
               /\ tx' = [tx EXCEPT ![t] = NoTx]
               /\ UNCHANGED <<next_seq, rows, reader>>

\* complete_assistant_message and fail_assistant_message: no guard but the id.
Finish(r, status) ==
  /\ r.draft.kind = "assistant"
  /\ rows' = (rows \ {r}) \cup {[r EXCEPT !.status = status]}
  /\ UNCHANGED <<next_seq, tx, reader>>

-----------------------------------------------------------------------------
(* log_since: two statements over one snapshot.                            *)

\* order_by(seq).limit(n)
First(n, seqs) == {i \in seqs : Cardinality({k \in seqs : k < i}) < n}

Since(s, kinds) ==
  First(Limit, {r.seq : r \in {q \in RowsOf(s) : /\ q.draft.kind \in kinds
                                                /\ q.seq > reader[s].cursor}})

MessagesSince(s) ==
  /\ ~reader[s].reading
  /\ reader' = [reader EXCEPT ![s].reading = TRUE,
                              ![s].page = Since(s, Messages),
                              ![s].snapshot = Since(s, {"event"})]
  /\ UNCHANGED <<next_seq, rows, tx>>

\* The client resumes from the last row it was given.
Handed(s, seqs) ==
  reader' = [reader EXCEPT ![s] =
    [NoReader EXCEPT !.got = reader[s].got \cup seqs,
                     !.cursor = IF seqs = {} THEN reader[s].cursor
                                ELSE CHOOSE n \in seqs : \A i \in seqs : i <= n]]

\* Mutant: each statement sees what is committed when it runs.
EventsSinceCommitted(s) ==
  /\ reader[s].reading
  /\ Handed(s, First(Limit, reader[s].page \cup Since(s, {"event"})))
  /\ UNCHANGED <<next_seq, rows, tx>>

\* Repeatable read: the second statement sees what the first could.
EventsSince(s) ==
  /\ reader[s].reading
  /\ Handed(s, First(Limit, reader[s].page \cup reader[s].snapshot))
  /\ UNCHANGED <<next_seq, rows, tx>>

-----------------------------------------------------------------------------

Proceed(t) == \/ \E j \in tx[t].moves : LockJob(t, j)
              \/ \E d \in tx[t].todo : Number(t, d) \/ Duplicate(t, d) \/ NoSuchSession(t, d)
              \/ Commit(t)

Next ==
  \/ \E s \in Sessions : EnsureSession(s)
  \/ \E s \in Live : MessagesSince(s) \/ EventsSince(s)
  \/ \E t \in Txs :
       \/ \E s \in Live :
            StartAssistantMessage(t, s) \/ \E k \in Keys : RecordUserMessage(t, s, k)
       \/ \E j \in Jobs : Transition(t, j)
       \/ \E jobs \in SUBSET Jobs : RetireLapsed(t, jobs)
       \/ Proceed(t)
       \/ Rollback(t)
  \/ \E r \in rows, status \in {"complete", "failed"} : Finish(r, status)

Spec == Init /\ [][Next]_vars

-----------------------------------------------------------------------------
(* What the log promises.                                                  *)

\* The numbers of a session, over both tables, are those below the counter and
\* each is the number of one row: nothing that was rolled back, refused or lost
\* a race consumed one.
GapFree ==
  \A s \in Sessions :
    /\ {r.seq : r \in RowsOf(s)} = 1..next_seq[s] - 1
    /\ \A q, r \in RowsOf(s) : q.seq = r.seq => q = r

WaitsForJob(t, u) == tx[t].moves \cap tx[u].jobs # {}

WaitsForSession(t, u) ==
  /\ tx[t].moves = {}
  /\ \E d \in tx[t].todo : IsNext(d, tx[t].todo) /\ WroteIn(u, d.session) # {}

\* The row a transaction waits for, or may come to next, is locked by another.
WaitsFor(t, u) == t # u /\ (WaitsForJob(t, u) \/ WaitsForSession(t, u))

\* Some jobs of the statement are locked, and some are still to be.
MidSweep(t) == tx[t].moves # {} /\ tx[t].jobs # {}

\* Transactions that wait for each other in a cycle are sweeps which the update
\* of retire_lapsed has brought to different rows first.  No claim, settlement,
\* cancel or chat message is ever among them, and no sweep that has come to
\* recording its events.
OnlySweepsDeadlock ==
  \A some \in SUBSET {t \in Txs : tx[t].open} :
    (\A t \in some : (\E u \in some : WaitsFor(t, u)) /\ (\E u \in some : WaitsFor(u, t)))
      => \A t \in some : MidSweep(t)

\* The entries of each session, in the order of their numbers, are the log the
\* protocol describes, and what its clients have been given is a beginning of
\* it: a page of the two tables never skips a row that is committed later.
EntryAt(s, n) ==
  LET r == CHOOSE q \in RowsOf(s) : q.seq = n
  IN [kind |-> r.draft.kind, of |-> r.draft.of, status |-> r.status]

LogOf(s) == [n \in 1..Cardinality(RowsOf(s)) |-> EntryAt(s, n)]

Log == INSTANCE ChatLog WITH
         log <- [s \in Sessions |-> LogOf(s)],
         read <- [s \in Sessions |-> reader[s].got]

ImplementsChatLog == Log!Spec

=============================================================================
