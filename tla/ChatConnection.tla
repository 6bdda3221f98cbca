--------------------------- MODULE ChatConnection ---------------------------
(***************************************************************************)
(* The connections of one session on one replica: core/chat_handler.py's   *)
(* reader and turns, core/ws.py's send queue, writer and registry, and the *)
(* route of api/chat.py around them.                                       *)
(*                                                                         *)
(* asyncio runs a coroutine from one await to the next, so an action is    *)
(* what happens between two of them.  A call of the repository is one step *)
(* (SessionLog has what is behind it), and its caller goes on in another:  *)
(* in between it may be cancelled, with the call done and the answer lost. *)
(***************************************************************************)
EXTENDS Naturals, Sequences, FiniteSets, SequencesExt

CONSTANTS Tabs,         \* clients; each has at most one connection at a time
          Keys,         \* client_msg_id
          NoKey,
          Backlog,      \* transitions in the log before anyone connects
          QueueSize,    \* ws_send_queue_size
          MaxTurns,     \* ws_max_concurrent_turns
          MaxChunks,    \* bound on the chunks of a reply
          ResumeLimit,  \* ws_resume_max_messages
          Leaving,      \* tabs that may lose their connection
          MayDrain,     \* whether the replica may shut down
          Failures,     \* kinds of failure that may happen
          MaxFaults     \* bound on the failures

FaultKinds == {"ensure", "record", "start", "complete", "fail", "log", "respond"}

ASSUME ChatConnectionAssumption ==
  /\ NoKey \notin Keys
  /\ {Backlog, MaxChunks} \subseteq Nat
  /\ {QueueSize, MaxTurns, ResumeLimit} \subseteq Nat \ {0}
  /\ Leaving \subseteq Tabs
  /\ MayDrain \in BOOLEAN
  /\ Failures \subseteq FaultKinds
  /\ MaxFaults \in Nat

VARIABLES
  log,      \* the session log, by seq
  conn,     \* tab -> its connection: the send queue and the tasks around it
  reader,   \* tab -> where _read_frames is
  turns,    \* seq of a reply -> the task that streams it; _live_replies is the
            \* keys of these, entry for entry
  loose,    \* replies whose _mark_failed goes on without its turn
  client,   \* tab -> what the frames told it
  acked,    \* keys whose message was acked
  done,     \* replies whose done was sent
  unmarked, \* replies whose _mark_failed failed, or was cancelled unshielded
  draining, \* the replica shuts down
  faults    \* failures so far

vars == <<log, conn, reader, turns, loose, client, acked, done, unmarked, draining, faults>>

\* The key of a reply is not in its row: it says which message it answers.
Entry == [kind : {"user", "assistant", "event"},
          key : Keys \cup {NoKey},
          status : {"streaming", "complete", "failed"}]

\* final: the row that is named will not change any more.
Frame == [type : {"ack", "delta", "done", "message", "error", "close"},
          seq : Nat, final : BOOLEAN]

Plain(type) == [type |-> type, seq |-> 0, final |-> FALSE]

Conn == [phase : {"closed", "ensure", "open", "teardown"},
         writer : {"get", "send", "done"},
         out : Seq(Frame), hand : Seq(Frame),
         overflowed : BOOLEAN, gone : BOOLEAN]

NoConn == [phase |-> "closed", writer |-> "done", out |-> <<>>, hand |-> <<>>,
           overflowed |-> FALSE, gone |-> FALSE]

Reader == [pc : {"receive", "record", "reack", "start", "ack", "resume", "replay",
                 "ending", "ended"},
           key : Keys \cup {NoKey},
           reply : Nat,
           page : Seq(Frame)]

NoReader == [pc |-> "ended", key |-> NoKey, reply |-> 0, page |-> <<>>]

\* new has not run its first step; saving and failing are calls of the
\* repository, saved has the answer of one; shielded is the handler of a
\* cancellation; over waits for its done callback.
Turn == [tab : Tabs, key : Keys, chunks : Nat, cancelled : BOOLEAN,
         pc : {"new", "stream", "saving", "saved", "failing", "shielded", "over"}]

TypeOK ==
  /\ log \in Seq(Entry)
  /\ conn \in [Tabs -> Conn]
  /\ \A t \in Tabs : Len(conn[t].out) <= QueueSize
  /\ reader \in [Tabs -> Reader]
  /\ DOMAIN turns \subseteq DOMAIN log
  /\ \A n \in DOMAIN turns : turns[n] \in Turn
  /\ loose \subseteq DOMAIN log
  /\ client \in [Tabs -> [cursor : Nat, told : SUBSET Nat]]
  /\ acked \subseteq Keys
  /\ done \cup unmarked \subseteq DOMAIN log
  /\ draining \in BOOLEAN
  /\ faults \in 0..MaxFaults

Transition == [kind |-> "event", key |-> NoKey, status |-> "complete"]

Init == /\ log = [n \in 1..Backlog |-> Transition]
        /\ conn = [t \in Tabs |-> NoConn]
        /\ reader = [t \in Tabs |-> NoReader]
        /\ turns = <<>>
        /\ loose = {}
        /\ client = [t \in Tabs |-> [cursor |-> 0, told |-> {}]]
        /\ acked = {}
        /\ done = {}
        /\ unmarked = {}
        /\ draining = FALSE
        /\ faults = 0

Fault(k) == k \in Failures /\ faults < MaxFaults /\ faults' = faults + 1

-----------------------------------------------------------------------------
(* core/ws.py: the queue and the writer.                                   *)

\* Mutant: the overflow is marked and the frames are queued all the same.
QueuedUnbounded(c, frames) ==
  [c EXCEPT !.out = @ \o frames,
            !.overflowed = @ \/ Len(c.out \o frames) > QueueSize]

\* send, once for each frame: what does not fit marks the connection, and
\* nothing more is queued.
Queued(c, frames) ==
  LET all == c.out \o frames IN
  CASE c.overflowed -> c
    [] ~c.overflowed /\ Len(all) <= QueueSize -> [c EXCEPT !.out = all]
    [] OTHER -> [c EXCEPT !.out = SubSeq(all, 1, QueueSize), !.overflowed = TRUE]

Send(t, frames) == conn' = [conn EXCEPT ![t] = Queued(@, frames)]

\* Mutant: a sentinel that does not fit is dropped like a frame after an overflow.
CloseIfRoom(c) ==
  LET told == Queued(c, <<Plain("error")>>) IN
  IF Len(told.out) < QueueSize
  THEN [told EXCEPT !.out = Append(@, Plain("close"))] ELSE told

\* request_close: the frame like any other, and the sentinel if there is room.
CloseRequested(c) ==
  LET told == Queued(c, <<Plain("error")>>) IN
  IF Len(told.out) < QueueSize
  THEN [told EXCEPT !.out = Append(@, Plain("close"))]
  ELSE [told EXCEPT !.overflowed = TRUE]

Serving(t) == conn[t].phase = "open"

WriterGets(t) ==
  /\ Serving(t)
  /\ conn[t].writer = "get"
  /\ conn[t].out # <<>>
  /\ LET frame == Head(conn[t].out)
         stop == frame.type = "close" \/ conn[t].overflowed
     IN conn' = [conn EXCEPT ![t].out = Tail(@),
                             ![t].writer = IF stop THEN "done" ELSE "send",
                             ![t].hand = IF stop THEN <<>> ELSE <<frame>>]
  /\ UNCHANGED <<log, reader, turns, loose, client, acked, done, unmarked, draining, faults>>

\* The client applies a frame: last_seq is the highest seq it has applied.
Applied(c, frame) ==
  [cursor |-> IF frame.seq > c.cursor THEN frame.seq ELSE c.cursor,
   told |-> IF frame.final THEN c.told \cup {frame.seq} ELSE c.told]

WriterSends(t) ==
  /\ Serving(t)
  /\ conn[t].writer = "send"
  /\ ~conn[t].gone
  /\ conn' = [conn EXCEPT ![t].writer = "get", ![t].hand = <<>>]
  /\ client' = [client EXCEPT ![t] = Applied(@, Head(conn[t].hand))]
  /\ UNCHANGED <<log, reader, turns, loose, acked, done, unmarked, draining, faults>>

\* The peer is gone: the frame is lost, and the writer may learn of it or not.
WriterLoses(t) ==
  /\ Serving(t)
  /\ conn[t].writer = "send"
  /\ conn[t].gone
  /\ \E pc \in {"get", "done"} :
       conn' = [conn EXCEPT ![t].writer = pc, ![t].hand = <<>>]
  /\ UNCHANGED <<log, reader, turns, loose, client, acked, done, unmarked, draining, faults>>

-----------------------------------------------------------------------------
(* The repository.                                                         *)

Row(kind, k, status) == [kind |-> kind, key |-> k, status |-> status]

Recorded(k) == \E n \in DOMAIN log : log[n] = Row("user", k, "complete")

SeqOfKey(k) == CHOOSE n \in DOMAIN log : log[n] = Row("user", k, "complete")

Status(n, status) == log' = [log EXCEPT ![n].status = status]

-----------------------------------------------------------------------------
(* The reader.                                                             *)

At(t, pc) == Serving(t) /\ reader[t].pc = pc

Goto(t, pc) == reader' = [reader EXCEPT ![t].pc = pc]

TurnsOf(t) == {n \in DOMAIN turns : turns[n].tab = t}

\* _dispatch of a user_message: the cap, and then _start_turn.
Submit(t, k) ==
  /\ At(t, "receive")
  /\ ~conn[t].gone
  /\ IF Cardinality(TurnsOf(t)) >= MaxTurns
     THEN Send(t, <<Plain("error")>>) /\ UNCHANGED reader
     ELSE /\ reader' = [reader EXCEPT ![t].pc = "record", ![t].key = k]
          /\ UNCHANGED conn
  /\ UNCHANGED <<log, turns, loose, client, acked, done, unmarked, draining, faults>>

\* Mutant: a message whose stream is not on this connection is taken for a new one.
RecordUnlessStreaming(t) ==
  /\ At(t, "record")
  /\ IF \E n \in TurnsOf(t) : turns[n].key = reader[t].key
     THEN Goto(t, "reack") /\ UNCHANGED log
     ELSE /\ Goto(t, "start")
          /\ log' = IF Recorded(reader[t].key) THEN log
                    ELSE Append(log, Row("user", reader[t].key, "complete"))
  /\ UNCHANGED <<conn, turns, loose, client, acked, done, unmarked, draining, faults>>

\* record_user_message: the key makes a duplicate of whatever has been recorded.
Record(t) ==
  /\ At(t, "record")
  /\ IF Recorded(reader[t].key)
     THEN Goto(t, "reack") /\ UNCHANGED log
     ELSE Goto(t, "start") /\ log' = Append(log, Row("user", reader[t].key, "complete"))
  /\ UNCHANGED <<conn, turns, loose, client, acked, done, unmarked, draining, faults>>

\* The client is told that the message was not stored, whether it was or not.
RecordFails(t) ==
  /\ At(t, "record")
  /\ \/ UNCHANGED log
     \/ /\ ~Recorded(reader[t].key)
        /\ log' = Append(log, Row("user", reader[t].key, "complete"))
  /\ Goto(t, "receive")
  /\ Send(t, <<Plain("error")>>)
  /\ Fault("record")
  /\ UNCHANGED <<turns, loose, client, acked, done, unmarked, draining>>

Start(t) ==
  /\ At(t, "start")
  /\ log' = Append(log, Row("assistant", reader[t].key, "streaming"))
  /\ reader' = [reader EXCEPT ![t].pc = "ack", ![t].reply = Len(log) + 1]
  /\ UNCHANGED <<conn, turns, loose, client, acked, done, unmarked, draining, faults>>

StartFails(t) ==
  /\ At(t, "start")
  /\ UNCHANGED log \/ log' = Append(log, Row("assistant", reader[t].key, "streaming"))
  /\ Goto(t, "receive")
  /\ Send(t, <<Plain("error")>>)
  /\ Fault("start")
  /\ UNCHANGED <<turns, loose, client, acked, done, unmarked, draining>>

AckFrame(k) == [type |-> "ack", seq |-> SeqOfKey(k), final |-> TRUE]

\* The ack of a new message, and the task of its turn.
AckAndSpawn(t) ==
  LET k == reader[t].key
      n == reader[t].reply
  IN
  /\ At(t, "ack")
  /\ Send(t, <<AckFrame(k)>>)
  /\ turns' = [i \in DOMAIN turns \cup {n} |->
                 IF i = n THEN [tab |-> t, key |-> k, chunks |-> 0,
                                cancelled |-> FALSE, pc |-> "new"]
                 ELSE turns[i]]
  /\ Goto(t, "receive")
  /\ acked' = acked \cup {k}
  /\ UNCHANGED <<log, loose, client, done, unmarked, draining, faults>>

\* A duplicate is acked again, with the stream it has on this connection, if any.
Reack(t) ==
  /\ At(t, "reack")
  /\ Send(t, <<AckFrame(reader[t].key)>>)
  /\ Goto(t, "receive")
  /\ acked' = acked \cup {reader[t].key}
  /\ UNCHANGED <<log, turns, loose, client, done, unmarked, draining, faults>>

Resume(t) == /\ At(t, "receive")
             /\ ~conn[t].gone
             /\ Goto(t, "resume")
             /\ UNCHANGED <<log, conn, turns, loose, client, acked, done, unmarked, draining, faults>>

\* log_since the client's cursor, one past the limit: refused rather than cut.
LogSince(t) ==
  LET missed == SubSeq(log, client[t].cursor + 1, Len(log))
      page == [i \in DOMAIN missed |->
                 [type |-> "message", seq |-> client[t].cursor + i,
                  final |-> missed[i].status # "streaming"]]
  IN
  /\ At(t, "resume")
  /\ reader' = [reader EXCEPT
       ![t].pc = "replay",
       ![t].page = IF Len(missed) > ResumeLimit THEN <<Plain("error")>> ELSE page]
  /\ UNCHANGED <<log, conn, turns, loose, client, acked, done, unmarked, draining, faults>>

\* The loop that sends the page awaits nothing.
Replay(t) ==
  /\ At(t, "replay")
  /\ Send(t, reader[t].page)
  /\ reader' = [reader EXCEPT ![t].pc = "receive", ![t].page = <<>>]
  /\ UNCHANGED <<log, turns, loose, client, acked, done, unmarked, draining, faults>>

ResumeFails(t) ==
  /\ At(t, "resume")
  /\ Goto(t, "receive")
  /\ Send(t, <<Plain("error")>>)
  /\ Fault("log")
  /\ UNCHANGED <<log, turns, loose, client, acked, done, unmarked, draining>>

-----------------------------------------------------------------------------
(* The turns.                                                              *)

Doing(n, pc) == n \in DOMAIN turns /\ turns[n].pc = pc /\ ~turns[n].cancelled

Turned(n, pc) == turns' = [turns EXCEPT ![n].pc = pc]

FirstStep(n) ==
  /\ Doing(n, "new")
  /\ Turned(n, "stream")
  /\ UNCHANGED <<log, conn, reader, loose, client, acked, done, unmarked, draining, faults>>

Chunk(n) ==
  /\ Doing(n, "stream")
  /\ turns[n].chunks < MaxChunks
  /\ Send(turns[n].tab, <<Plain("delta")>>)
  /\ turns' = [turns EXCEPT ![n].chunks = @ + 1]
  /\ UNCHANGED <<log, reader, loose, client, acked, done, unmarked, draining, faults>>

Exhausted(n) ==
  /\ Doing(n, "stream")
  /\ Turned(n, "saving")
  /\ UNCHANGED <<log, conn, reader, loose, client, acked, done, unmarked, draining, faults>>

RespondFails(n) ==
  /\ Doing(n, "stream")
  /\ Turned(n, "failing")
  /\ Fault("respond")
  /\ UNCHANGED <<log, conn, reader, loose, client, acked, done, unmarked, draining>>

DoneFrame(n) == [type |-> "done", seq |-> n, final |-> TRUE]

\* Mutant: done is queued and then the text is stored.
SaveAfterDone(n) ==
  /\ Doing(n, "saving")
  /\ Turned(n, "saved")
  /\ Send(turns[n].tab, <<DoneFrame(n)>>)
  /\ done' = done \cup {n}
  /\ UNCHANGED <<log, reader, loose, client, acked, unmarked, draining, faults>>

\* complete_assistant_message
Save(n) ==
  /\ Doing(n, "saving")
  /\ Status(n, "complete")
  /\ Turned(n, "saved")
  /\ UNCHANGED <<conn, reader, loose, client, acked, done, unmarked, draining, faults>>

SaveFails(n) ==
  /\ Doing(n, "saving")
  /\ UNCHANGED log \/ Status(n, "complete")
  /\ Turned(n, "failing")
  /\ Fault("complete")
  /\ UNCHANGED <<conn, reader, loose, client, acked, done, unmarked, draining>>

Done(n) ==
  /\ Doing(n, "saved")
  /\ Send(turns[n].tab, <<DoneFrame(n)>>)
  /\ done' = done \cup {n}
  /\ Turned(n, "over")
  /\ UNCHANGED <<log, reader, loose, client, acked, unmarked, draining, faults>>

\* _mark_failed: what goes wrong in it is only logged.
MarkFailed(n) ==
  \/ Status(n, "failed") /\ UNCHANGED <<unmarked, faults>>
  \/ UNCHANGED log /\ unmarked' = unmarked \cup {n} /\ Fault("fail")

\* _mark_failed for a turn that raised, and the error frame.
Failed(n) ==
  /\ Doing(n, "failing")
  /\ MarkFailed(n)
  /\ Send(turns[n].tab, <<Plain("error")>>)
  /\ Turned(n, "over")
  /\ UNCHANGED <<reader, loose, client, acked, done, draining>>

\* Mutant: the handler of a cancellation is cancelled with its turn.
CancelledTwice(n) ==
  /\ n \in DOMAIN turns
  /\ turns[n].cancelled
  /\ LET pc == turns[n].pc IN
     /\ turns' = [turns EXCEPT
          ![n].cancelled = FALSE,
          ![n].pc = IF pc \in {"stream", "saving", "saved"} THEN "shielded" ELSE "over"]
     /\ \/ /\ UNCHANGED log
           /\ unmarked' = IF pc = "failing" THEN unmarked \cup {n} ELSE unmarked
        \/ pc = "failing" /\ Status(n, "failed") /\ UNCHANGED unmarked
  /\ UNCHANGED <<conn, reader, loose, client, acked, done, draining, faults>>

\* A cancellation arrives: before the first step, where nothing handles it; in
\* the body; in the handler of a failure, whose write it may or may not stop; or
\* in the handler of an earlier one, whose write goes on without the turn.
Cancelled(n) ==
  /\ n \in DOMAIN turns
  /\ turns[n].cancelled
  /\ LET pc == turns[n].pc IN
     /\ turns' = [turns EXCEPT
          ![n].cancelled = FALSE,
          ![n].pc = IF pc \in {"stream", "saving", "saved"} THEN "shielded" ELSE "over"]
     /\ loose' = IF pc = "shielded" THEN loose \cup {n} ELSE loose
     /\ \/ /\ UNCHANGED log
           /\ unmarked' = IF pc = "failing" THEN unmarked \cup {n} ELSE unmarked
        \/ pc = "failing" /\ Status(n, "failed") /\ UNCHANGED unmarked
  /\ UNCHANGED <<conn, reader, client, acked, done, draining, faults>>

\* The shielded _mark_failed.
Shielded(n) ==
  /\ Doing(n, "shielded")
  /\ MarkFailed(n)
  /\ Turned(n, "over")
  /\ UNCHANGED <<conn, reader, loose, client, acked, done, draining>>

\* ... that has lost its turn goes on, unless the process ends first.
LooseEnds(n) ==
  /\ n \in loose
  /\ loose' = loose \ {n}
  /\ MarkFailed(n) \/ (draining /\ UNCHANGED <<log, unmarked, faults>>)
  /\ UNCHANGED <<conn, reader, turns, client, acked, done, draining>>

\* _finished, the done callback.
Evict(n) ==
  /\ Doing(n, "over")
  /\ turns' = [i \in DOMAIN turns \ {n} |-> turns[i]]
  /\ UNCHANGED <<log, conn, reader, loose, client, acked, done, unmarked, draining, faults>>

-----------------------------------------------------------------------------
(* serve and the route.                                                    *)

Connect(t) ==
  /\ conn[t].phase = "closed"
  /\ ~draining
  /\ conn' = [conn EXCEPT ![t] = [NoConn EXCEPT !.phase = "ensure"]]
  /\ UNCHANGED <<log, reader, turns, loose, client, acked, done, unmarked, draining, faults>>

\* ensure_session, and the reader and the writer are started.
Serve(t) ==
  /\ conn[t].phase = "ensure"
  /\ conn' = [conn EXCEPT ![t].phase = "open", ![t].writer = "get"]
  /\ reader' = [reader EXCEPT ![t] = [NoReader EXCEPT !.pc = "receive"]]
  /\ UNCHANGED <<log, turns, loose, client, acked, done, unmarked, draining, faults>>

ServeFails(t) ==
  /\ conn[t].phase = "ensure"
  /\ conn' = [conn EXCEPT ![t] = NoConn]
  /\ Fault("ensure")
  /\ UNCHANGED <<log, reader, turns, loose, client, acked, done, unmarked, draining>>

CancelTurns(t) ==
  turns' = [n \in DOMAIN turns |->
              IF turns[n].tab = t /\ turns[n].pc # "over"
              THEN [turns[n] EXCEPT !.cancelled = TRUE] ELSE turns[n]]

\* The peer is gone: the iteration ends, and with it the turns.
Disconnected(t) ==
  /\ At(t, "receive")
  /\ conn[t].gone
  /\ Goto(t, "ending")
  /\ CancelTurns(t)
  /\ UNCHANGED <<log, conn, loose, client, acked, done, unmarked, draining, faults>>

\* Mutant: the turns are cancelled and nobody waits for them.
ReaderEndsAtOnce(t) ==
  /\ conn[t].phase \in {"open", "teardown"}
  /\ reader[t].pc = "ending"
  /\ reader' = [reader EXCEPT ![t] = NoReader]
  /\ UNCHANGED <<log, conn, turns, loose, client, acked, done, unmarked, draining, faults>>

ReaderEnds(t) ==
  /\ conn[t].phase \in {"open", "teardown"}
  /\ reader[t].pc = "ending"
  /\ TurnsOf(t) = {}
  /\ reader' = [reader EXCEPT ![t] = NoReader]
  /\ UNCHANGED <<log, conn, turns, loose, client, acked, done, unmarked, draining, faults>>

\* Mutant: serve waits for the writer.
OneEndedWriter(t) == conn[t].writer = "done"

\* What asyncio.wait waits for.
OneEnded(t) == conn[t].writer = "done" \/ reader[t].pc = "ended"

\* The `finally`: writer and reader are cancelled.  A reader that was waiting for
\* its turns passes the cancellation on to them: for them it is the second.
Unwound(t) ==
  /\ conn' = [conn EXCEPT ![t].phase = "teardown", ![t].writer = "done", ![t].hand = <<>>]
  /\ IF reader[t].pc = "ended" THEN UNCHANGED <<reader, turns>>
     ELSE Goto(t, "ending") /\ CancelTurns(t)
  /\ UNCHANGED <<log, loose, client, acked, done, unmarked, draining, faults>>

Teardown(t) == Serving(t) /\ OneEnded(t) /\ Unwound(t)

\* The server has closed the sockets, or was drained, and cancels serve when its
\* grace period is over: in the wait, in the `finally` it was in already, or before
\* there is anything to unwind.
ServerCancels(t) ==
  /\ draining
  /\ \/ conn[t].phase \in {"open", "teardown"} /\ Unwound(t)
     \/ /\ conn[t].phase = "ensure"
        /\ conn' = [conn EXCEPT ![t] = NoConn]
        /\ UNCHANGED <<log, reader, turns, loose, client, acked, done, unmarked, draining, faults>>

\* close, and registry.remove.
Closed(t) ==
  /\ conn[t].phase = "teardown"
  /\ reader[t].pc = "ended"
  /\ conn' = [conn EXCEPT ![t] = NoConn]
  /\ UNCHANGED <<log, reader, turns, loose, client, acked, done, unmarked, draining, faults>>

Leave(t) ==
  /\ t \in Leaving
  /\ conn[t].phase # "closed"
  /\ ~conn[t].gone
  /\ conn' = [conn EXCEPT ![t].gone = TRUE]
  /\ UNCHANGED <<log, reader, turns, loose, client, acked, done, unmarked, draining, faults>>

\* uvicorn on SIGTERM: every socket is closed, and the server waits for the
\* connections; the drain of the lifespan finds none of them.
ServerCloses ==
  /\ MayDrain
  /\ draining' = TRUE
  /\ conn' = [t \in Tabs |-> IF conn[t].phase = "closed" THEN conn[t]
                             ELSE [conn[t] EXCEPT !.gone = TRUE]]
  /\ UNCHANGED <<log, reader, turns, loose, client, acked, done, unmarked, faults>>

\* registry.drain, of every connection it holds, by whoever calls it in time: a
\* server that keeps its sockets until then, or a hook before the shutdown.
Drain ==
  /\ MayDrain
  /\ ~draining
  /\ draining' = TRUE
  /\ conn' = [t \in Tabs |-> IF conn[t].phase = "closed" THEN conn[t]
                             ELSE CloseRequested(conn[t])]
  /\ UNCHANGED <<log, reader, turns, loose, client, acked, done, unmarked, faults>>

-----------------------------------------------------------------------------

Writing(t) == WriterGets(t) \/ WriterSends(t) \/ WriterLoses(t)

Reading(t) ==
  \/ Record(t) \/ Start(t) \/ AckAndSpawn(t) \/ Reack(t) \/ LogSince(t) \/ Replay(t)
  \/ Disconnected(t) \/ ReaderEnds(t)

Handling(t) == Serve(t) \/ Teardown(t) \/ Closed(t)

Replying(n) ==
  \/ FirstStep(n) \/ Exhausted(n) \/ Save(n) \/ Done(n) \/ Failed(n)
  \/ Cancelled(n) \/ Shielded(n) \/ Evict(n)

Failing(t) == RecordFails(t) \/ StartFails(t) \/ ResumeFails(t) \/ ServeFails(t)

Next ==
  \/ \E t \in Tabs :
       \/ Writing(t) \/ Reading(t) \/ Handling(t) \/ Failing(t)
       \/ Connect(t) \/ Leave(t) \/ Resume(t) \/ ServerCancels(t)
       \/ \E k \in Keys : Submit(t, k)
  \/ \E n \in DOMAIN log :
       Replying(n) \/ Chunk(n) \/ RespondFails(n) \/ SaveFails(n) \/ LooseEnds(n)
  \/ Drain \/ ServerCloses

Spec == Init /\ [][Next]_vars

\* asyncio runs what can run; the repository answers; a reply ends.  A frame that
\* is written to a peer that is there is taken.
FairSpec == /\ Spec
            /\ \A t \in Tabs : /\ WF_vars(Writing(t))
                              /\ WF_vars(Reading(t))
                              /\ WF_vars(Handling(t))
                              /\ WF_vars(\E n \in TurnsOf(t) : Replying(n))
            /\ WF_vars(\E n \in loose : LooseEnds(n))

\* ... and a client that reconnects and asks for what it missed, and nothing else.
ReconnectingSpec == FairSpec /\ \A t \in Tabs : WF_vars(Connect(t)) /\ WF_vars(Resume(t))

-----------------------------------------------------------------------------
(* Properties.                                                             *)

\* However often a message is submitted, over whichever connections, one reply
\* is opened for it (_start_turn; the re-ack of a recorded message).
OneReplyPerKey ==
  \A m, n \in DOMAIN log :
    (log[m].kind = "assistant" /\ log[n].kind = "assistant" /\ log[m].key = log[n].key)
      => m = n

\* A reply whose done was sent is complete in the log, then and for good: no
\* cancellation and no failed write behind it takes it back (_run_turn).
DoneIsFinal == \A n \in done : log[n].status = "complete"

\* When the route has closed a connection, none of its turns runs any more
\* (_read_frames gathers them, serve gathers _read_frames).
NoTurnOutlivesConnection ==
  \A n \in DOMAIN turns : conn[turns[n].tab].phase # "closed"

\* An acked message has been given a reply: "the client resends under the same
\* client_msg_id and the idempotency key makes that safe however far the first
\* attempt got" (_dispatch).
AckedHasReply ==
  \A k \in acked : \E n \in DOMAIN log : log[n].kind = "assistant" /\ log[n].key = k

\* The rows that a reply can have in this instance.
Replies == 1 .. Backlog + 2 * Cardinality(Keys)

Settled(n) == n \in DOMAIN log => log[n].status # "streaming"

Streams(n) == n \in DOMAIN turns /\ turns[n].pc = "stream"

\* A connection whose peer has left, or which could not take a frame, or whose
\* replica shuts down, ends, with its turns, whatever its queue holds and without
\* the server cancelling anything (run_writer, _incoming, serve; request_close:
\* "the sentinel is queued even on an already-overflowed connection").
ConnectionEnds ==
  \A t \in Tabs :
    (conn[t].gone \/ conn[t].overflowed \/ draining) ~> (conn[t].phase = "closed")

\* A reply that began to stream is settled in the log in the end, however its
\* turn is interrupted: at any await, by a second cancellation in the handler of
\* the first, by an error of the responder or of complete_assistant_message.
\* What stops it is a _mark_failed that fails, or that is cancelled in the
\* handler of such an error, which shields nothing, or the end of the process.
StreamedReplySettles ==
  \A n \in Replies :
    Streams(n) ~> Settled(n) \/ n \in unmarked \/ draining

\* A client that reconnects and resumes catches up with the log: "the client
\* reconnects and, from 1b, replays what it missed" (send).
ResumeCatchesUp ==
  \A t \in Tabs : (client[t].cursor < Len(log)) ~> (client[t].cursor >= Len(log))

=============================================================================
