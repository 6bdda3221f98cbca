------------------------ MODULE ChatConnection_proofs ------------------------
(***************************************************************************)
(* What ChatConnection promises, for any number of clients that submit the *)
(* same messages over connections that overlap.                            *)
(*                                                                         *)
(* The log only grows, and only replies change in it (Kept).  From that    *)
(* follow the three parts of the invariant that are not types: Once, where *)
(* recording the message is what lets a reader open its reply; Final,      *)
(* where a row has one writer at a time; and Quiet, the order in which a   *)
(* connection comes apart.                                                 *)
(***************************************************************************)
EXTENDS ChatConnection, TLAPS

USE ChatConnectionAssumption

\* The parts of TypeOK.
Logged == log \in Seq(Entry)

\* ... with the one frame that the writer is sending.
Connections ==
  /\ conn \in [Tabs -> Conn]
  /\ \A t \in Tabs :
       /\ Len(conn[t].out) <= QueueSize
       /\ conn[t].writer = "send" => Len(conn[t].hand) = 1

Readers == reader \in [Tabs -> Reader]

Tasks == /\ DOMAIN turns \subseteq DOMAIN log
         /\ \A n \in DOMAIN turns : turns[n] \in Turn
         /\ loose \subseteq DOMAIN log

Rest == /\ client \in [Tabs -> [cursor : Nat, told : SUBSET Nat]]
        /\ acked \subseteq Keys
        /\ done \cup unmarked \subseteq DOMAIN log
        /\ draining \in BOOLEAN
        /\ faults \in 0 .. MaxFaults

\* The parts make TypeOK.
LEMMA TypeParts == Logged /\ Connections /\ Readers /\ Tasks /\ Rest => TypeOK
  <1>1. Connections => conn \in [Tabs -> Conn] /\ \A t \in Tabs : Len(conn[t].out) <= QueueSize
    BY DEF Connections
  <1> QED BY <1>1 DEF TypeOK, Logged, Readers, Tasks, Rest

\* A reader with a message has its key; the ones past record_user_message, in the log.
Keyed == \A t \in Tabs :
  /\ reader[t].pc \in {"record", "start", "ack", "reack"} => reader[t].key \in Keys
  /\ reader[t].pc \in {"start", "ack", "reack"} => Recorded(reader[t].key)

\* The frames without a seq are frames.
LEMMA PlainOK == \A type \in {"delta", "error", "close"} : Plain(type) \in Frame
  BY DEF Plain, Frame

\* A prefix of a sequence: of what fits into the queue.
LEMMA SubSeqOK ==
  ASSUME NEW S, NEW s \in Seq(S), NEW n \in Nat, n <= Len(s)
  PROVE  SubSeq(s, 1, n) \in Seq(S) /\ Len(SubSeq(s, 1, n)) = n
  OBVIOUS

\* The queue may differ, and nothing else.
SameTasks(d, c) == d.phase = c.phase /\ d.writer = c.writer /\ d.hand = c.hand

\* send keeps the queue in its bound, whatever it is given.
LEMMA QueuedOK ==
  ASSUME NEW c \in Conn, Len(c.out) <= QueueSize, NEW frames \in Seq(Frame)
  PROVE  /\ Queued(c, frames) \in Conn
         /\ Len(Queued(c, frames).out) <= QueueSize
         /\ SameTasks(Queued(c, frames), c)
  <1> DEFINE all == c.out \o frames
  <1>1. all \in Seq(Frame)
    BY DEF Conn
  <1> HIDE DEF all
  <1>2. CASE c.overflowed
    BY <1>2 DEF Queued, Conn, SameTasks
  <1>3. CASE ~c.overflowed /\ Len(all) <= QueueSize
    <2>1. Queued(c, frames) = [c EXCEPT !.out = all]
      BY <1>3, <1>1 DEF Queued, all, Conn
    <2> QED BY <2>1, <1>3, <1>1 DEF Conn, SameTasks
  <1>4. CASE ~c.overflowed /\ ~(Len(all) <= QueueSize)
    <2> DEFINE cut == SubSeq(all, 1, QueueSize)
    <2>1. Queued(c, frames) = [c EXCEPT !.out = cut, !.overflowed = TRUE]
      BY <1>4, <1>1 DEF Queued, all, Conn
    <2>2. cut \in Seq(Frame) /\ Len(cut) = QueueSize
      BY <1>4, <1>1, SubSeqOK
    <2> HIDE DEF cut
    <2>3. Queued(c, frames) \in Conn
      BY <2>1, <2>2 DEF Conn
    <2>4. Queued(c, frames).out = cut /\ SameTasks(Queued(c, frames), c)
      BY <2>1 DEF Conn, SameTasks
    <2> QED BY <2>2, <2>3, <2>4
  <1>5. QED
    BY <1>2, <1>3, <1>4 DEF Conn

\* One frame is a sequence of frames.
LEMMA OneFrame == ASSUME NEW f \in Frame PROVE <<f>> \in Seq(Frame)
  OBVIOUS

\* request_close keeps the bound: the sentinel never goes past it.
LEMMA CloseOK ==
  ASSUME NEW c \in Conn, Len(c.out) <= QueueSize
  PROVE  /\ CloseRequested(c) \in Conn
         /\ Len(CloseRequested(c).out) <= QueueSize
         /\ SameTasks(CloseRequested(c), c)
  <1> DEFINE told == Queued(c, <<Plain("error")>>)
  <1>0. <<Plain("error")>> \in Seq(Frame)
    BY PlainOK, OneFrame
  <1>1. told \in Conn /\ Len(told.out) <= QueueSize /\ SameTasks(told, c)
    BY <1>0, QueuedOK
  <1>2. CloseRequested(c) = IF Len(told.out) < QueueSize
                            THEN [told EXCEPT !.out = Append(@, Plain("close"))]
                            ELSE [told EXCEPT !.overflowed = TRUE]
    BY DEF CloseRequested
  <1> HIDE DEF told
  <1>3. CASE Len(told.out) < QueueSize
    <2> DEFINE out == Append(told.out, Plain("close"))
    <2>1. out \in Seq(Frame) /\ Len(out) = Len(told.out) + 1
      BY <1>1, PlainOK DEF Conn
    <2>2. CloseRequested(c) = [told EXCEPT !.out = out]
      BY <1>2, <1>3 DEF Conn
    <2> HIDE DEF out
    <2>3. CloseRequested(c).out = out /\ SameTasks(CloseRequested(c), told)
      BY <1>1, <2>2 DEF Conn, SameTasks
    <2>4. CloseRequested(c) \in Conn
      BY <1>1, <2>1, <2>2 DEF Conn
    <2>5. Len(CloseRequested(c).out) <= QueueSize
      <3>1. Len(told.out) \in Nat
        BY <1>1 DEF Conn
      <3>2. Len(out) <= QueueSize
        BY <1>3, <2>1, <3>1
      <3> QED BY <2>3, <3>2
    <2> QED BY <1>1, <2>3, <2>4, <2>5 DEF SameTasks
  <1>4. CASE ~(Len(told.out) < QueueSize)
    BY <1>1, <1>2, <1>4 DEF Conn, SameTasks
  <1>5. QED
    BY <1>3, <1>4

\* A connection that begins to be served has not sent anything.
LEMMA ServedOK ==
  ASSUME NEW c \in Conn
  PROVE  LET d == [c EXCEPT !.phase = "open", !.writer = "get"]
         IN  d \in Conn /\ d.out = c.out /\ d.writer = "get"
  BY DEF Conn

\* A peer that is gone changes nothing else.
LEMMA GoneOK ==
  ASSUME NEW c \in Conn
  PROVE  LET d == [c EXCEPT !.gone = TRUE]
         IN  d \in Conn /\ d.out = c.out /\ SameTasks(d, c)
  BY DEF Conn, SameTasks

\* A frame that is sent changes one queue.
LEMMA SendOK ==
  ASSUME Connections, NEW t \in Tabs, NEW frames \in Seq(Frame), Send(t, frames)
  PROVE  /\ Connections'
         /\ \A u \in Tabs : SameTasks(conn'[u], conn[u])
  <1> DEFINE c == Queued(conn[t], frames)
  <1>1. c \in Conn /\ Len(c.out) <= QueueSize /\ SameTasks(c, conn[t])
    <2>1. conn[t] \in Conn /\ Len(conn[t].out) <= QueueSize
      BY DEF Connections
    <2> QED BY <2>1, QueuedOK
  <1>2. /\ conn' \in [Tabs -> Conn]
        /\ conn'[t] = c
        /\ \A u \in Tabs : u # t => conn'[u] = conn[u]
    BY <1>1 DEF Send, Connections
  <1> HIDE DEF c
  <1>3. \A u \in Tabs : SameTasks(conn'[u], conn[u])
    BY <1>1, <1>2 DEF SameTasks
  <1>4. \A u \in Tabs : Len(conn'[u].out) <= QueueSize
    BY <1>1, <1>2 DEF Connections
  <1> QED BY <1>2, <1>3, <1>4 DEF Connections, SameTasks

\* The ack of a recorded message names its row.
LEMMA SeqOfKeyOK ==
  ASSUME Logged, NEW k \in Keys, Recorded(k)
  PROVE  <<AckFrame(k)>> \in Seq(Frame)
  <1>1. SeqOfKey(k) \in DOMAIN log
    BY DEF SeqOfKey, Recorded
  <1>2. SeqOfKey(k) \in Nat
    BY <1>1 DEF Logged
  <1> QED BY <1>2, OneFrame DEF AckFrame, Frame

\* The done of a reply names its row.
LEMMA DoneFrameOK ==
  ASSUME Logged, NEW n \in DOMAIN log
  PROVE  <<DoneFrame(n)>> \in Seq(Frame)
  <1>2. n \in Nat
    BY DEF Logged
  <1> QED BY <1>2, OneFrame DEF DoneFrame, Frame

\* A connection that is closed or opened.
LEMMA NoConnOK ==
  /\ NoConn \in Conn
  /\ [NoConn EXCEPT !.phase = "ensure"] \in Conn
  /\ <<>> \in Seq(Frame)
  /\ Len(<<>>) = 0
  <1>1. <<>> \in Seq(Frame) /\ Len(<<>>) = 0
    OBVIOUS
  <1>2. NoConn \in Conn
    BY <1>1 DEF NoConn, Conn
  <1>3. [NoConn EXCEPT !.phase = "ensure"] \in Conn
    BY <1>2 DEF Conn
  <1> QED BY <1>1, <1>2, <1>3

\* The frames that tell of a chunk and of an error.
LEMMA PlainFrame ==
  <<Plain("delta")>> \in Seq(Frame) /\ <<Plain("error")>> \in Seq(Frame)
  BY PlainOK, OneFrame

\* The queues of all connections keep their bound, step by step.
LEMMA ConnStep ==
  Logged /\ Readers /\ Tasks /\ Connections /\ Keyed /\ [Next]_vars => Connections'
  <1> SUFFICES ASSUME Logged, Readers, Tasks, Connections, Keyed, [Next]_vars PROVE Connections'
    OBVIOUS
  <1>s. UNCHANGED conn => Connections'
    BY DEF Connections
  <1>1. ASSUME NEW t \in Tabs, WriterGets(t) PROVE Connections'
    <2> DEFINE frame == Head(conn[t].out)
               stop == frame.type = "close" \/ conn[t].overflowed
    <2>1. /\ conn[t].out \in Seq(Frame) /\ conn[t].out # <<>>
          /\ Len(conn[t].out) <= QueueSize
      BY <1>1 DEF WriterGets, Connections, Conn
    <2>2. /\ frame \in Frame /\ Tail(conn[t].out) \in Seq(Frame)
          /\ Len(Tail(conn[t].out)) <= QueueSize
      BY <2>1
    <2>3. CASE stop
      <3>1. conn' = [conn EXCEPT ![t].out = Tail(@), ![t].writer = "done", ![t].hand = <<>>]
        BY <1>1, <2>3 DEF WriterGets
      <3> HIDE DEF frame, stop
      <3> QED BY <2>2, <3>1, NoConnOK DEF Connections, Conn
    <2>4. CASE ~stop
      <3> DEFINE hand == <<frame>>
      <3>1. conn' = [conn EXCEPT ![t].out = Tail(@), ![t].writer = "send", ![t].hand = hand]
        BY <1>1, <2>4 DEF WriterGets
      <3>2. hand \in Seq(Frame) /\ Len(hand) = 1
        BY <2>2, OneFrame
      <3> HIDE DEF frame, stop, hand
      <3>3. conn' \in [Tabs -> Conn]
        <4> DEFINE c == [conn[t] EXCEPT !.out = Tail(conn[t].out), !.writer = "send",
                                       !.hand = hand]
        <4>1. conn[t] \in Conn
          BY DEF Connections
        <4>2. c \in Conn
          BY <2>2, <3>2, <4>1 DEF Conn
        <4>3. conn' = [conn EXCEPT ![t] = c]
          BY <3>1, <4>1 DEF Connections, Conn
        <4> HIDE DEF c
        <4> QED BY <4>2, <4>3 DEF Connections
      <3>4. /\ conn'[t].out = Tail(conn[t].out) /\ conn'[t].hand = hand
            /\ \A u \in Tabs : u # t => conn'[u] = conn[u]
        BY <3>1 DEF Connections, Conn
      <3> QED BY <2>2, <3>2, <3>3, <3>4 DEF Connections
    <2> QED BY <2>3, <2>4
  <1>2. ASSUME NEW t \in Tabs, WriterSends(t) PROVE Connections'
    BY <1>2, NoConnOK DEF WriterSends, Connections, Conn
  <1>3. ASSUME NEW t \in Tabs, WriterLoses(t) PROVE Connections'
    <2>1. PICK pc \in {"get", "done"} :
             conn' = [conn EXCEPT ![t].writer = pc, ![t].hand = <<>>]
      BY <1>3 DEF WriterLoses
    <2> QED BY <2>1, NoConnOK DEF Connections, Conn
  <1>4. ASSUME NEW t \in Tabs, Record(t) \/ Start(t) \/ LogSince(t) \/ Resume(t)
                 \/ Disconnected(t) \/ ReaderEnds(t)
        PROVE  Connections'
    BY <1>4, <1>s DEF Record, Start, LogSince, Resume, Disconnected, ReaderEnds
  <1>5. ASSUME NEW t \in Tabs, RecordFails(t) \/ StartFails(t) \/ ResumeFails(t)
        PROVE  Connections'
    BY <1>5, SendOK, PlainFrame DEF RecordFails, StartFails, ResumeFails
  <1>6. ASSUME NEW t \in Tabs, NEW k \in Keys, Submit(t, k) PROVE Connections'
    BY <1>6, <1>s, SendOK, PlainFrame DEF Submit
  <1>7. ASSUME NEW t \in Tabs, AckAndSpawn(t) \/ Reack(t) PROVE Connections'
    BY <1>7, SendOK, SeqOfKeyOK DEF AckAndSpawn, Reack, At, Keyed
  <1>8. ASSUME NEW t \in Tabs, Replay(t) PROVE Connections'
    BY <1>8, SendOK DEF Replay, Readers, Reader
  <1>9. ASSUME NEW t \in Tabs, Serve(t) PROVE Connections'
    <2>1. PICK c \in Conn : c = conn[t] /\ Len(c.out) <= QueueSize
      BY DEF Connections
    <2>2. PICK d : d = [c EXCEPT !.phase = "open", !.writer = "get"]
      OBVIOUS
    <2>3. d \in Conn /\ d.out = c.out /\ d.writer = "get"
      BY <2>2, ServedOK
    <2>4. conn' = [conn EXCEPT ![t] = d]
      BY <1>9, <2>1, <2>2 DEF Serve, Connections
    <2>5. "get" # "send"
      OBVIOUS
    <2> QED BY <2>1, <2>3, <2>4, <2>5 DEF Connections
  <1>10. ASSUME NEW t \in Tabs, Unwound(t) PROVE Connections'
    BY <1>10, NoConnOK DEF Unwound, Connections, Conn
  <1>11. ASSUME NEW t \in Tabs, conn' = [conn EXCEPT ![t] = NoConn] PROVE Connections'
    BY <1>11, NoConnOK DEF Connections, NoConn
  <1>12. ASSUME NEW t \in Tabs, Teardown(t) \/ ServerCancels(t) \/ ServeFails(t) \/ Closed(t)
         PROVE  Connections'
    BY <1>10, <1>11, <1>12 DEF Teardown, ServerCancels, ServeFails, Closed
  <1>13. ASSUME NEW t \in Tabs, Connect(t) \/ Leave(t) PROVE Connections'
    <2>1. CASE Connect(t)
      BY <2>1, NoConnOK DEF Connect, Connections, NoConn
    <2>2. CASE Leave(t)
      BY <2>2 DEF Leave, Connections, Conn
    <2> QED BY <1>13, <2>1, <2>2
  <1>14. ASSUME NEW n \in DOMAIN log, FirstStep(n) \/ Exhausted(n) \/ Save(n)
                  \/ Cancelled(n) \/ Shielded(n) \/ Evict(n)
                  \/ RespondFails(n) \/ SaveFails(n) \/ LooseEnds(n)
         PROVE  Connections'
    BY <1>14, <1>s DEF FirstStep, Exhausted, Save, Cancelled, Shielded, Evict,
      RespondFails, SaveFails, LooseEnds
  <1>15. ASSUME NEW n \in DOMAIN log, Done(n) PROVE Connections'
    BY <1>15, SendOK, DoneFrameOK DEF Done, Doing, Tasks, Turn
  <1>16. ASSUME NEW n \in DOMAIN log, Failed(n) \/ Chunk(n) PROVE Connections'
    BY <1>16, SendOK, PlainFrame DEF Failed, Chunk, Doing, Tasks, Turn
  <1>17. CASE Drain \/ ServerCloses
    <2>1. ASSUME NEW t \in Tabs
          PROVE  /\ conn'[t] \in Conn /\ Len(conn'[t].out) <= QueueSize
                 /\ SameTasks(conn'[t], conn[t])
      <3>1. conn[t] \in Conn /\ Len(conn[t].out) <= QueueSize
        BY DEF Connections
      <3>2. \/ conn'[t] \in {conn[t], CloseRequested(conn[t])}
            \/ conn'[t] = [conn[t] EXCEPT !.gone = TRUE]
        BY <1>17 DEF Drain, ServerCloses
      <3> QED BY <3>1, <3>2, CloseOK, GoneOK DEF SameTasks
    <2>2. conn' \in [Tabs -> Conn]
      BY <1>17, <2>1 DEF Drain, ServerCloses
    <2> QED BY <2>1, <2>2 DEF Connections, SameTasks
  <1>18. CASE UNCHANGED vars
    BY <1>18, <1>s DEF vars
  <1> QED
    BY <1>1, <1>2, <1>3, <1>4, <1>5, <1>6, <1>7, <1>8, <1>9, <1>12, <1>13, <1>14,
       <1>15, <1>16, <1>17, <1>18
    DEF Next, Writing, Reading, Handling, Failing, Replying

\* The rows that turns stream into, and are about to, are replies.
Roles ==
  /\ \A n \in DOMAIN turns \cup loose : log[n].kind = "assistant"
  /\ \A t \in Tabs :
       reader[t].pc = "ack" => /\ reader[t].reply \in DOMAIN log
                              /\ log[reader[t].reply].kind = "assistant"

\* What no step does to the log: rows stay, with kind and key, and only replies change.
Kept ==
  /\ Logged'
  /\ DOMAIN log \subseteq DOMAIN log'
  /\ \A n \in DOMAIN log :
       /\ log'[n].kind = log[n].kind
       /\ log'[n].key = log[n].key
       /\ log[n].kind # "assistant" => log'[n] = log[n]

\* A new row comes behind the others.
LEMMA AppendKept ==
  ASSUME Logged, NEW e \in Entry, log' = Append(log, e)
  PROVE  /\ Kept
         /\ Len(log) + 1 \notin DOMAIN log
         /\ DOMAIN log' = DOMAIN log \cup {Len(log) + 1}
         /\ \A n \in DOMAIN log : log'[n] = log[n]
         /\ log'[Len(log) + 1] = e
  BY DEF Logged, Kept

\* The status of one reply changes, and nothing else.
LEMMA StatusKept ==
  ASSUME Logged, NEW n \in DOMAIN log, log[n].kind = "assistant",
         NEW s \in {"complete", "failed"}, Status(n, s)
  PROVE  /\ Kept
         /\ DOMAIN log' = DOMAIN log
         /\ \A m \in DOMAIN log : m # n => log'[m] = log[m]
         /\ log'[n].status = s
  <1>1. log[n] \in Entry
    BY DEF Logged
  <1>2. [log[n] EXCEPT !.status = s] \in Entry
    BY <1>1 DEF Entry
  <1>3. DOMAIN log' = DOMAIN log /\ \A m \in DOMAIN log : m # n => log'[m] = log[m]
    BY DEF Status
  <1>4. log'[n] = [log[n] EXCEPT !.status = s]
    BY DEF Status
  <1>5. Logged'
    BY <1>2 DEF Logged, Status
  <1>6. /\ log'[n].kind = log[n].kind /\ log'[n].key = log[n].key
        /\ log'[n].status = s
    BY <1>1, <1>4 DEF Entry
  <1> QED BY <1>3, <1>5, <1>6 DEF Kept

\* The rows that are appended.
LEMMA RowOK ==
  ASSUME NEW kind \in {"user", "assistant"}, NEW k \in Keys,
         NEW s \in {"complete", "streaming"}
  PROVE  Row(kind, k, s) \in Entry
  BY DEF Row, Entry

\* A message that is recorded stays recorded.
LEMMA RecordedKept == Kept => \A k \in Keys : Recorded(k) => Recorded(k)'
  BY DEF Kept, Recorded, Row

\* Every step keeps the log.
LEMMA LogStep ==
  Logged /\ Readers /\ Tasks /\ Keyed /\ Roles /\ [Next]_vars => Kept
  <1> SUFFICES ASSUME Logged, Readers, Tasks, Keyed, Roles, [Next]_vars PROVE Kept
    OBVIOUS
  <1>s. UNCHANGED log => Kept
    BY DEF Kept, Logged
  <1>1. ASSUME NEW t \in Tabs, WriterGets(t) \/ WriterSends(t) \/ WriterLoses(t)
                 \/ AckAndSpawn(t) \/ Reack(t) \/ LogSince(t) \/ Replay(t) \/ Disconnected(t)
                 \/ ReaderEnds(t) \/ Serve(t) \/ Teardown(t) \/ Closed(t)
                 \/ ResumeFails(t) \/ ServeFails(t) \/ Connect(t) \/ Leave(t)
                 \/ Resume(t) \/ ServerCancels(t)
        PROVE  Kept
    BY <1>1, <1>s DEF WriterGets, WriterSends, WriterLoses, AckAndSpawn, Reack,
      LogSince, Replay, Disconnected, ReaderEnds, Serve, Teardown, Closed,
      ResumeFails, ServeFails, Connect, Leave, Resume, ServerCancels, Unwound
  <1>2. ASSUME NEW t \in Tabs, NEW k \in Keys, Submit(t, k) PROVE Kept
    BY <1>2, <1>s DEF Submit
  <1>3. ASSUME NEW t \in Tabs, Record(t) \/ RecordFails(t) PROVE Kept
    BY <1>3, <1>s, RowOK, AppendKept DEF Record, RecordFails, At, Keyed
  <1>4. ASSUME NEW t \in Tabs, Start(t) \/ StartFails(t) PROVE Kept
    BY <1>4, <1>s, RowOK, AppendKept DEF Start, StartFails, At, Keyed
  <1>5. ASSUME NEW n \in DOMAIN log, FirstStep(n) \/ Exhausted(n) \/ Done(n)
                 \/ Evict(n) \/ Chunk(n) \/ RespondFails(n)
        PROVE  Kept
    BY <1>5, <1>s DEF FirstStep, Exhausted, Done, Evict, Chunk, RespondFails
  <1>6. ASSUME NEW n \in DOMAIN log, Save(n) \/ SaveFails(n) PROVE Kept
    BY <1>6, <1>s, StatusKept DEF Save, SaveFails, Doing, Roles
  <1>7. ASSUME NEW n \in DOMAIN log, Failed(n) \/ Shielded(n) PROVE Kept
    BY <1>7, <1>s, StatusKept DEF Failed, Shielded, MarkFailed, Doing, Roles
  <1>8. ASSUME NEW n \in DOMAIN log, Cancelled(n) PROVE Kept
    BY <1>8, <1>s, StatusKept DEF Cancelled, Roles
  <1>9. ASSUME NEW n \in DOMAIN log, LooseEnds(n) PROVE Kept
    BY <1>9, <1>s, StatusKept DEF LooseEnds, MarkFailed, Roles
  <1>10. CASE Drain \/ ServerCloses
    BY <1>10, <1>s DEF Drain, ServerCloses
  <1>11. CASE UNCHANGED vars
    BY <1>11, <1>s DEF vars
  <1> QED
    BY <1>1, <1>2, <1>3, <1>4, <1>5, <1>6, <1>7, <1>8, <1>9, <1>10, <1>11
    DEF Next, Writing, Reading, Handling, Failing, Replying

\* A reader that has ended or begins.
LEMMA NoReaderOK ==
  /\ NoReader \in Reader /\ NoReader.pc = "ended"
  /\ [NoReader EXCEPT !.pc = "receive"] \in Reader
  /\ [NoReader EXCEPT !.pc = "receive"].pc = "receive"
  <1>1. NoReader \in Reader /\ NoReader.pc = "ended"
    BY NoConnOK DEF NoReader, Reader
  <1> QED BY <1>1 DEF Reader

\* Every step keeps the readers and the keys of their messages.
LEMMA ReaderStep ==
  Logged /\ Readers /\ Keyed /\ Kept /\ Rest /\ [Next]_vars => Readers' /\ Keyed'
  <1> SUFFICES ASSUME Logged, Readers, Keyed, Kept, Rest, [Next]_vars PROVE Readers' /\ Keyed'
    OBVIOUS
  <1>k. \A k \in Keys : Recorded(k) => Recorded(k)'
    BY RecordedKept
  <1>s. UNCHANGED reader => Readers' /\ Keyed'
    BY <1>k DEF Readers, Keyed
  <1>g. ASSUME NEW t \in Tabs, NEW pc \in {"receive", "resume", "ending"}, Goto(t, pc)
        PROVE  Readers' /\ Keyed'
    BY <1>g, <1>k DEF Readers, Reader, Keyed, Goto
  <1>1. ASSUME NEW t \in Tabs, WriterGets(t) \/ WriterSends(t) \/ WriterLoses(t)
                 \/ Closed(t) \/ ServeFails(t) \/ Connect(t) \/ Leave(t)
        PROVE  Readers' /\ Keyed'
    BY <1>1, <1>s DEF WriterGets, WriterSends, WriterLoses, Closed, ServeFails,
      Connect, Leave
  <1>2. ASSUME NEW t \in Tabs, NEW k \in Keys, Submit(t, k)
        PROVE  Readers' /\ Keyed'
    <2>1. CASE reader' = [reader EXCEPT ![t].pc = "record", ![t].key = k]
      BY <2>1, <1>k DEF Readers, Reader, Keyed
    <2> QED BY <1>2, <1>s, <2>1 DEF Submit
  <1>3. ASSUME NEW t \in Tabs, Record(t) PROVE Readers' /\ Keyed'
    <2>1. reader[t].key \in Keys
      BY <1>3 DEF Record, At, Keyed
    <2>2. CASE Recorded(reader[t].key) /\ Goto(t, "reack")
      BY <2>1, <2>2, <1>k DEF Readers, Reader, Keyed, Goto
    <2>3. CASE Goto(t, "start") /\ log' = Append(log, Row("user", reader[t].key, "complete"))
      <3>1. Recorded(reader[t].key)'
        <4>1. /\ Len(log) + 1 \in DOMAIN log'
              /\ log'[Len(log) + 1] = Row("user", reader[t].key, "complete")
          BY <2>1, <2>3, RowOK, AppendKept
        <4>2. reader'[t].key = reader[t].key
          BY <2>3 DEF Goto, Readers, Reader
        <4> QED BY <4>1, <4>2 DEF Recorded, Row
      <3>2. \A u \in Tabs : u # t => reader'[u] = reader[u]
        BY <2>3 DEF Goto, Readers
      <3>3. reader' \in [Tabs -> Reader] /\ reader'[t].key \in Keys
        BY <2>1, <2>3 DEF Goto, Readers, Reader
      <3> QED BY <1>k, <3>1, <3>2, <3>3 DEF Readers, Keyed
    <2> QED BY <1>3, <2>2, <2>3 DEF Record
  <1>4. ASSUME NEW t \in Tabs, Start(t) PROVE Readers' /\ Keyed'
    <2>1. /\ Len(log) + 1 \in Nat
          /\ reader[t].key \in Keys /\ Recorded(reader[t].key)
      BY <1>4 DEF Start, At, Keyed, Logged
    <2>2. reader' = [reader EXCEPT ![t].pc = "ack", ![t].reply = Len(log) + 1]
      BY <1>4 DEF Start
    <2> QED BY <2>1, <2>2, <1>k DEF Readers, Reader, Keyed
  <1>5. ASSUME NEW t \in Tabs, RecordFails(t) \/ StartFails(t) \/ AckAndSpawn(t)
                 \/ Reack(t) \/ Resume(t) \/ ResumeFails(t) \/ Disconnected(t)
        PROVE  Readers' /\ Keyed'
    BY <1>5, <1>g DEF RecordFails, StartFails, AckAndSpawn, Reack, Resume,
      ResumeFails, Disconnected
  <1>6. ASSUME NEW t \in Tabs, LogSince(t) PROVE Readers' /\ Keyed'
    <2>1. PICK page \in Seq(Frame) :
            reader' = [reader EXCEPT ![t].pc = "replay", ![t].page = page]
      <3> DEFINE missed == SubSeq(log, client[t].cursor + 1, Len(log))
                 page == [i \in DOMAIN missed |->
                            [type |-> "message", seq |-> client[t].cursor + i,
                             final |-> missed[i].status # "streaming"]]
      <3>1. client[t].cursor \in Nat /\ Len(log) \in Nat
        BY DEF Rest, Logged
      <3>2. missed \in Seq(Entry)
        BY <3>1 DEF Logged
      <3> HIDE DEF missed
      <3>3. \A i \in DOMAIN missed : page[i] \in Frame
        BY <3>1, <3>2 DEF Frame
      <3>4. page \in Seq(Frame)
        BY <3>2, <3>3
      <3>5. <<Plain("error")>> \in Seq(Frame)
        BY PlainFrame
      <3> QED BY <1>6, <3>4, <3>5 DEF LogSince, missed
    <2> QED BY <2>1, <1>k DEF Readers, Reader, Keyed
  <1>7. ASSUME NEW t \in Tabs, Replay(t) PROVE Readers' /\ Keyed'
    BY <1>7, <1>k, NoConnOK DEF Replay, Readers, Reader, Keyed
  <1>8. ASSUME NEW t \in Tabs, ReaderEnds(t) PROVE Readers' /\ Keyed'
    BY <1>8, <1>k, NoReaderOK DEF ReaderEnds, Readers, Keyed
  <1>9. ASSUME NEW t \in Tabs, Serve(t) PROVE Readers' /\ Keyed'
    BY <1>9, <1>k, NoReaderOK DEF Serve, Readers, Keyed
  <1>10. ASSUME NEW t \in Tabs, Teardown(t) \/ ServerCancels(t)
         PROVE  Readers' /\ Keyed'
    BY <1>10, <1>s, <1>g DEF Teardown, ServerCancels, Unwound
  <1>11. ASSUME NEW n \in DOMAIN log, FirstStep(n) \/ Exhausted(n) \/ Save(n)
                  \/ Done(n) \/ Failed(n) \/ Cancelled(n) \/ Shielded(n) \/ Evict(n)
                  \/ Chunk(n) \/ RespondFails(n) \/ SaveFails(n) \/ LooseEnds(n)
        PROVE  Readers' /\ Keyed'
    BY <1>11, <1>s DEF FirstStep, Exhausted, Save, Done, Failed, Cancelled, Shielded,
      Evict, Chunk, RespondFails, SaveFails, LooseEnds
  <1>12. CASE Drain \/ ServerCloses
    BY <1>12, <1>s DEF Drain, ServerCloses
  <1>13. CASE UNCHANGED vars
    BY <1>13, <1>s DEF vars
  <1> QED
    BY <1>1, <1>2, <1>3, <1>4, <1>5, <1>6, <1>7, <1>8, <1>9, <1>10, <1>11, <1>12, <1>13
    DEF Next, Writing, Reading, Handling, Failing, Replying

\* Cancelling the turns of a connection only marks them.
LEMMA CancelTurnsOK ==
  ASSUME Tasks, NEW t \in Tabs, CancelTurns(t)
  PROVE  /\ DOMAIN turns' = DOMAIN turns
         /\ \A n \in DOMAIN turns :
              /\ turns'[n] \in Turn
              /\ turns'[n].tab = turns[n].tab
              /\ turns'[n].pc = turns[n].pc
  <1>1. DOMAIN turns' = DOMAIN turns
    BY DEF CancelTurns
  <1>2. ASSUME NEW n \in DOMAIN turns
        PROVE  turns'[n] = turns[n] \/ turns'[n] = [turns[n] EXCEPT !.cancelled = TRUE]
    BY DEF CancelTurns
  <1>3. ASSUME NEW n \in DOMAIN turns
        PROVE  LET c == [turns[n] EXCEPT !.cancelled = TRUE] IN
               c \in Turn /\ c.tab = turns[n].tab /\ c.pc = turns[n].pc
    BY DEF Tasks, Turn
  <1> QED BY <1>1, <1>2, <1>3 DEF Tasks

\* One turn goes on.
LEMMA TurnedOK ==
  ASSUME Tasks, NEW n \in DOMAIN turns,
         NEW pc \in {"stream", "saving", "saved", "failing", "shielded", "over"},
         Turned(n, pc)
  PROVE  /\ DOMAIN turns' = DOMAIN turns
         /\ \A m \in DOMAIN turns : m # n => turns'[m] = turns[m]
         /\ turns'[n] \in Turn
         /\ turns'[n].tab = turns[n].tab
         /\ turns'[n].pc = pc
  BY DEF Tasks, Turn, Turned

\* Every step keeps the turns, and the rows they stream into replies.
LEMMA TaskStep ==
  Logged /\ Readers /\ Keyed /\ Tasks /\ Roles /\ Kept /\ [Next]_vars => Tasks' /\ Roles'
  <1> SUFFICES ASSUME Logged, Readers, Keyed, Tasks, Roles, Kept, [Next]_vars
               PROVE  Tasks' /\ Roles'
    OBVIOUS
  <1>s. UNCHANGED <<turns, loose>> =>
          Tasks' /\ \A n \in DOMAIN turns' \cup loose' : log'[n].kind = "assistant"
    BY DEF Tasks, Roles, Kept
  <1>r. UNCHANGED reader => \A t \in Tabs :
          reader'[t].pc = "ack" => /\ reader'[t].reply \in DOMAIN log'
                                  /\ log'[reader'[t].reply].kind = "assistant"
    BY DEF Roles, Kept
  <1>g. ASSUME NEW t \in Tabs, NEW pc \in {"receive", "resume", "ending", "reack",
      "start"}, Goto(t, pc)
        PROVE  \A u \in Tabs :
          reader'[u].pc = "ack" => /\ reader'[u].reply \in DOMAIN log'
                                  /\ log'[reader'[u].reply].kind = "assistant"
    BY <1>g DEF Readers, Reader, Goto, Roles, Kept
  <1>c. ASSUME NEW t \in Tabs, CancelTurns(t), UNCHANGED loose
        PROVE  Tasks' /\ \A n \in DOMAIN turns' \cup loose' : log'[n].kind = "assistant"
    BY <1>c, CancelTurnsOK DEF Tasks, Roles, Kept
  <1>1. ASSUME NEW t \in Tabs, WriterGets(t) \/ WriterSends(t) \/ WriterLoses(t)
                 \/ Closed(t) \/ ServeFails(t) \/ Connect(t) \/ Leave(t)
        PROVE  Tasks' /\ Roles'
    BY <1>1, <1>s, <1>r DEF WriterGets, WriterSends, WriterLoses, Closed, ServeFails,
      Connect, Leave, Roles
  <1>2. ASSUME NEW t \in Tabs, Record(t) \/ RecordFails(t) \/ StartFails(t)
                 \/ Reack(t) \/ Resume(t) \/ ResumeFails(t)
        PROVE  Tasks' /\ Roles'
    BY <1>2, <1>s, <1>g DEF Record, RecordFails, StartFails, Reack, Resume,
      ResumeFails, Roles
  <1>3. ASSUME NEW t \in Tabs, NEW k \in Keys, Submit(t, k) PROVE Tasks' /\ Roles'
    <2>1. UNCHANGED reader \/ reader' = [reader EXCEPT ![t].pc = "record", ![t].key = k]
      BY <1>3 DEF Submit
    <2>2. UNCHANGED <<turns, loose>>
      BY <1>3 DEF Submit
    <2>3. \A u \in Tabs :
            reader'[u].pc = "ack" => reader[u].pc = "ack" /\ reader'[u].reply = reader[u].reply
      BY <2>1 DEF Readers, Reader
    <2> QED BY <2>2, <2>3, <1>s DEF Roles, Kept
  <1>4. ASSUME NEW t \in Tabs, Start(t) PROVE Tasks' /\ Roles'
    <2>1. /\ reader' = [reader EXCEPT ![t].pc = "ack", ![t].reply = Len(log) + 1]
          /\ UNCHANGED <<turns, loose>>
          /\ log' = Append(log, Row("assistant", reader[t].key, "streaming"))
          /\ reader[t].key \in Keys
      BY <1>4 DEF Start, At, Keyed
    <2>2. /\ Len(log) + 1 \in DOMAIN log'
          /\ log'[Len(log) + 1].kind = "assistant"
      BY <2>1, RowOK, AppendKept DEF Row
    <2>3. /\ reader'[t].reply = Len(log) + 1
          /\ \A u \in Tabs : u # t => reader'[u] = reader[u]
      BY <2>1 DEF Readers, Reader
    <2>4. Tasks' /\ \A n \in DOMAIN turns' \cup loose' : log'[n].kind = "assistant"
      BY <2>1, <1>s
    <2>5. \A u \in Tabs : u # t /\ reader'[u].pc = "ack" =>
            /\ reader'[u].reply \in DOMAIN log'
            /\ log'[reader'[u].reply].kind = "assistant"
      BY <2>3 DEF Roles, Kept
    <2> QED BY <2>2, <2>3, <2>4, <2>5 DEF Roles
  <1>5. ASSUME NEW t \in Tabs, AckAndSpawn(t) PROVE Tasks' /\ Roles'
    <2> DEFINE n == reader[t].reply
               new == [tab |-> t, key |-> reader[t].key, chunks |-> 0,
                       cancelled |-> FALSE, pc |-> "new"]
    <2>1. /\ n \in DOMAIN log /\ log[n].kind = "assistant"
          /\ reader[t].key \in Keys
      BY <1>5 DEF AckAndSpawn, At, Keyed, Roles
    <2>2. new \in Turn
      BY <2>1 DEF Turn
    <2>3. turns' = [i \in DOMAIN turns \cup {n} |-> IF i = n THEN new ELSE turns[i]]
      BY <1>5 DEF AckAndSpawn
    <2> HIDE DEF new
    <2>4. Tasks' /\ \A i \in DOMAIN turns' \cup loose' : log'[i].kind = "assistant"
      <3>1. /\ DOMAIN turns' = DOMAIN turns \cup {n}
            /\ \A i \in DOMAIN turns : i # n => turns'[i] = turns[i]
            /\ turns'[n] = new
        BY <2>3
      <3>2. UNCHANGED loose
        BY <1>5 DEF AckAndSpawn
      <3> HIDE DEF n
      <3> QED BY <2>1, <2>2, <3>1, <3>2 DEF Tasks, Roles, Kept
    <2> QED BY <1>5, <2>4, <1>g DEF AckAndSpawn, Roles
  <1>6. ASSUME NEW t \in Tabs, LogSince(t) \/ Replay(t) PROVE Tasks' /\ Roles'
    <2>1. \/ reader'[t].pc # "ack" \/ UNCHANGED reader
      BY <1>6 DEF LogSince, Replay, Readers, Reader
    <2>2. \A u \in Tabs : u # t => reader'[u] = reader[u]
      BY <1>6 DEF LogSince, Replay, Readers, Reader
    <2>3. UNCHANGED <<turns, loose>>
      BY <1>6 DEF LogSince, Replay
    <2> QED BY <2>1, <2>2, <2>3, <1>s, <1>r DEF Roles, Kept
  <1>7. ASSUME NEW t \in Tabs, ReaderEnds(t) \/ Serve(t) PROVE Tasks' /\ Roles'
    <2>1. reader'[t].pc # "ack" /\ \A u \in Tabs : u # t => reader'[u] = reader[u]
      BY <1>7, NoReaderOK DEF ReaderEnds, Serve, Readers
    <2>2. UNCHANGED <<turns, loose>>
      BY <1>7 DEF ReaderEnds, Serve
    <2> QED BY <2>1, <2>2, <1>s DEF Roles, Kept
  <1>8. ASSUME NEW t \in Tabs, Disconnected(t) PROVE Tasks' /\ Roles'
    BY <1>8, <1>c, <1>g DEF Disconnected, Roles
  <1>9. ASSUME NEW t \in Tabs, Unwound(t) PROVE Tasks' /\ Roles'
    BY <1>9, <1>c, <1>g, <1>s, <1>r DEF Unwound, Roles
  <1>10. ASSUME NEW t \in Tabs, Teardown(t) \/ ServerCancels(t) PROVE Tasks' /\ Roles'
    BY <1>9, <1>10, <1>s, <1>r DEF Teardown, ServerCancels, Roles
  <1>11. ASSUME NEW n \in DOMAIN log, FirstStep(n) \/ Exhausted(n) \/ Save(n)
                  \/ Done(n) \/ Failed(n) \/ Shielded(n) \/ RespondFails(n) \/ SaveFails(n)
        PROVE  Tasks' /\ Roles'
    BY <1>11, TurnedOK, <1>r DEF FirstStep, Exhausted, Save, Done, Failed, Shielded,
      RespondFails, SaveFails, Doing, Tasks, Roles, Kept
  <1>12. ASSUME NEW n \in DOMAIN log, Chunk(n) PROVE Tasks' /\ Roles'
    <2>1. /\ turns' = [turns EXCEPT ![n].chunks = @ + 1]
          /\ UNCHANGED <<loose, reader>> /\ n \in DOMAIN turns
      BY <1>12 DEF Chunk, Doing
    <2> QED BY <2>1, <1>r DEF Tasks, Turn, Roles, Kept
  <1>13. ASSUME NEW n \in DOMAIN log, Cancelled(n) PROVE Tasks' /\ Roles'
    <2>1. PICK pc \in {"shielded", "over"} :
            turns' = [turns EXCEPT ![n].cancelled = FALSE, ![n].pc = pc]
      BY <1>13 DEF Cancelled
    <2>2. n \in DOMAIN turns /\ loose' \subseteq loose \cup {n} /\ UNCHANGED reader
      BY <1>13 DEF Cancelled
    <2>3. /\ DOMAIN turns' = DOMAIN turns
          /\ \A m \in DOMAIN turns : turns'[m] \in Turn
      BY <2>1 DEF Tasks, Turn
    <2> QED BY <2>2, <2>3, <1>r DEF Tasks, Roles, Kept
  <1>14. ASSUME NEW n \in DOMAIN log, Evict(n) \/ LooseEnds(n) PROVE Tasks' /\ Roles'
    BY <1>14, <1>r DEF Evict, LooseEnds, Tasks, Roles, Kept
  <1>15. CASE Drain \/ ServerCloses
    BY <1>15, <1>s, <1>r DEF Drain, ServerCloses, Roles
  <1>16. CASE UNCHANGED vars
    BY <1>16, <1>s, <1>r DEF vars, Roles
  <1> QED
    BY <1>1, <1>2, <1>3, <1>4, <1>5, <1>6, <1>7, <1>8, <1>9, <1>10, <1>11, <1>12,
        <1>13, <1>14, <1>15, <1>16
    DEF Next, Writing, Reading, Handling, Failing, Replying

\* Every step keeps what the clients were told.
LEMMA RestStep ==
  Logged /\ Readers /\ Connections /\ Keyed /\ Tasks /\ Rest /\ Kept /\ [Next]_vars => Rest'
  <1> SUFFICES ASSUME Logged, Readers, Connections, Keyed, Tasks, Rest, Kept, [Next]_vars
               PROVE  Rest'
    OBVIOUS
  <1>s. UNCHANGED <<client, acked, done, unmarked, draining, faults>> => Rest'
    BY DEF Rest, Kept
  <1>f. \A kind : Fault(kind) => faults' \in 0 .. MaxFaults
    BY DEF Fault, Rest
  <1>1. ASSUME NEW t \in Tabs, WriterGets(t) \/ WriterLoses(t) \/ Record(t)
                 \/ Start(t) \/ LogSince(t) \/ Replay(t) \/ Disconnected(t) \/ ReaderEnds(t)
                 \/ Serve(t) \/ Teardown(t) \/ Closed(t) \/ Connect(t) \/ Leave(t)
                 \/ Resume(t) \/ ServerCancels(t)
        PROVE  Rest'
    BY <1>1, <1>s DEF WriterGets, WriterLoses, Record, Start, LogSince, Replay,
      Disconnected, ReaderEnds, Serve, Teardown, Closed, Connect, Leave, Resume,
      ServerCancels, Unwound
  <1>2. ASSUME NEW t \in Tabs, NEW k \in Keys, Submit(t, k) PROVE Rest'
    BY <1>2, <1>s DEF Submit
  <1>3. ASSUME NEW t \in Tabs, WriterSends(t) PROVE Rest'
    <2> DEFINE frame == Head(conn[t].hand)
    <2>1. Applied(client[t], frame) \in [cursor : Nat, told : SUBSET Nat]
      <3>1. conn[t].hand \in Seq(Frame) /\ Len(conn[t].hand) = 1
        BY <1>3 DEF WriterSends, Connections, Conn
      <3>2. frame \in Frame
        BY <3>1
      <3> QED BY <3>2 DEF Applied, Frame, Rest
    <2>2. client' = [client EXCEPT ![t] = Applied(@, frame)]
      BY <1>3 DEF WriterSends
    <2> HIDE DEF frame
    <2> QED BY <1>3, <2>1, <2>2 DEF WriterSends, Rest, Kept
  <1>4. ASSUME NEW t \in Tabs, RecordFails(t) \/ StartFails(t) \/ ResumeFails(t) \/ ServeFails(t)
        PROVE  Rest'
    BY <1>4, <1>f DEF RecordFails, StartFails, ResumeFails, ServeFails, Rest, Kept
  <1>5. ASSUME NEW t \in Tabs, AckAndSpawn(t) \/ Reack(t) PROVE Rest'
    BY <1>5 DEF AckAndSpawn, Reack, At, Keyed, Rest, Kept
  <1>6. ASSUME NEW n \in DOMAIN log, FirstStep(n) \/ Exhausted(n) \/ Save(n)
                 \/ Evict(n) \/ Chunk(n)
        PROVE  Rest'
    BY <1>6, <1>s DEF FirstStep, Exhausted, Save, Evict, Chunk
  <1>7. ASSUME NEW n \in DOMAIN log,
               RespondFails(n) \/ SaveFails(n) \/ Failed(n) \/ Shielded(n) \/ LooseEnds(n)
        PROVE  Rest'
    BY <1>7, <1>f DEF RespondFails, SaveFails, Failed, Shielded, LooseEnds, MarkFailed, Rest, Kept
  <1>8. ASSUME NEW n \in DOMAIN log, Done(n) \/ Cancelled(n) PROVE Rest'
    BY <1>8 DEF Done, Cancelled, Rest, Kept
  <1>9. CASE Drain \/ ServerCloses
    BY <1>9 DEF Drain, ServerCloses, Rest, Kept
  <1>10. CASE UNCHANGED vars
    BY <1>10, <1>s DEF vars
  <1> QED
    BY <1>1, <1>2, <1>3, <1>4, <1>5, <1>6, <1>7, <1>8, <1>9, <1>10
    DEF Next, Writing, Reading, Handling, Failing, Replying

\* Every reply answers a message of the log.
Answers ==
  \A n \in DOMAIN log :
    log[n].kind = "assistant" => log[n].key \in Keys /\ Recorded(log[n].key)

\* No two replies, and none where a reader is about to open one.
Once ==
  /\ OneReplyPerKey
  /\ Answers
  /\ \A t \in Tabs : reader[t].pc = "start" =>
       \A n \in DOMAIN log : log[n].kind = "assistant" => log[n].key # reader[t].key
  /\ \A t, u \in Tabs :
       (reader[t].pc = "start" /\ reader[u].pc = "start" /\ reader[t].key = reader[u].key)
         => t = u

\* After its done a reply is out of reach of whatever could still write to its row:
\* its turn, a _mark_failed without a turn, a reader that is about to spawn it.
Final ==
  /\ \A n \in done : /\ log[n].status = "complete"
                     /\ n \in DOMAIN turns => turns[n].pc = "over"
                     /\ n \notin loose
  /\ \A n \in DOMAIN turns : /\ turns[n].pc = "saved" => log[n].status = "complete"
                             /\ turns[n].pc # "over" => n \notin loose
  /\ \A t \in Tabs :
       reader[t].pc = "ack" => reader[t].reply \notin done \cup DOMAIN turns \cup loose
  /\ \A t, u \in Tabs :
       (reader[t].pc = "ack" /\ reader[u].pc = "ack" /\ reader[t].reply = reader[u].reply)
         => t = u

\* A connection that is not served has no reader, and the turns go before the reader.
Quiet ==
  /\ \A t \in Tabs : conn[t].phase \in {"closed", "ensure"} => reader[t].pc = "ended"
  /\ \A n \in DOMAIN turns : reader[turns[n].tab].pc # "ended"

\* The inductive invariant.
IInv == /\ Logged /\ Connections /\ Readers /\ Tasks /\ Rest
        /\ Keyed /\ Roles /\ Once /\ Final /\ Quiet

\* The turns of a connection go before its reader, and the reader before it closes.
LEMMA QuietStep ==
  Readers /\ Connections /\ Tasks /\ Keyed /\ Logged /\ Quiet /\ [Next]_vars => Quiet'
  <1> SUFFICES ASSUME Readers, Connections, Tasks, Keyed, Logged, Quiet, [Next]_vars
               PROVE  Quiet'
    OBVIOUS
  <1> DEFINE Phases == \A u \in Tabs : conn'[u].phase = conn[u].phase
             Enders == \A u \in Tabs : reader'[u].pc = "ended" <=> reader[u].pc = "ended"
             Owners == \A n \in DOMAIN turns' :
                         n \in DOMAIN turns /\ turns'[n].tab = turns[n].tab
  <1>k. Phases /\ Enders /\ Owners => Quiet'
    BY DEF Quiet, Tasks, Turn
  <1>p. ASSUME NEW t \in Tabs, NEW frames \in Seq(Frame), Send(t, frames)
        PROVE  Phases
    BY <1>p, SendOK DEF SameTasks
  <1>g. ASSUME NEW t \in Tabs, reader[t].pc # "ended",
               NEW pc \in {"receive", "reack", "start", "resume", "ending"}, Goto(t, pc)
        PROVE  Enders
    BY <1>g DEF Goto, Readers, Reader
  <1>c. ASSUME NEW t \in Tabs, CancelTurns(t) PROVE Owners
    BY <1>c, CancelTurnsOK
  <1>1. ASSUME NEW t \in Tabs, WriterGets(t) \/ WriterSends(t) \/ WriterLoses(t) \/ Leave(t)
        PROVE  Quiet'
    <2>1. Phases
      <3>1. ASSUME WriterGets(t) PROVE Phases
        BY <3>1 DEF WriterGets, Connections, Conn
      <3>2. ASSUME WriterLoses(t) PROVE Phases
        BY <3>2 DEF WriterLoses, Connections, Conn
      <3>3. ASSUME WriterSends(t) PROVE Phases
        BY <3>3 DEF WriterSends, Connections, Conn
      <3>4. ASSUME Leave(t) PROVE Phases
        BY <3>4 DEF Leave, Connections, Conn
      <3> QED BY <1>1, <3>1, <3>2, <3>3, <3>4
    <2>2. UNCHANGED <<reader, turns>>
      BY <1>1 DEF WriterGets, WriterSends, WriterLoses, Leave
    <2> QED BY <1>k, <2>1, <2>2
  <1>2. ASSUME NEW t \in Tabs, NEW k \in Keys, Submit(t, k) PROVE Quiet'
    <2>1. Phases
      BY <1>2, <1>p, PlainFrame DEF Submit
    <2>2. Enders
      BY <1>2 DEF Submit, At, Readers, Reader
    <2>3. UNCHANGED turns
      BY <1>2 DEF Submit
    <2> QED BY <1>k, <2>1, <2>2, <2>3
  <1>3. ASSUME NEW t \in Tabs, Record(t) \/ Resume(t) PROVE Quiet'
    <2>1. Enders
      BY <1>3, <1>g DEF Record, Resume, At
    <2>2. UNCHANGED <<conn, turns>>
      BY <1>3 DEF Record, Resume
    <2> QED BY <1>k, <2>1, <2>2
  <1>4. ASSUME NEW t \in Tabs, Start(t) \/ LogSince(t) PROVE Quiet'
    <2>1. Enders
      BY <1>4 DEF Start, LogSince, At, Readers, Reader
    <2>2. UNCHANGED <<conn, turns>>
      BY <1>4 DEF Start, LogSince
    <2> QED BY <1>k, <2>1, <2>2
  <1>5. ASSUME NEW t \in Tabs, RecordFails(t) \/ StartFails(t) \/ ResumeFails(t)
        PROVE  Quiet'
    <2>1. Enders
      BY <1>5, <1>g DEF RecordFails, StartFails, ResumeFails, At
    <2>2. Phases
      BY <1>5, <1>p, PlainFrame DEF RecordFails, StartFails, ResumeFails
    <2>3. UNCHANGED turns
      BY <1>5 DEF RecordFails, StartFails, ResumeFails
    <2> QED BY <1>k, <2>1, <2>2, <2>3
  <1>6. ASSUME NEW t \in Tabs, Reack(t) PROVE Quiet'
    <2>1. Phases
      BY <1>6, <1>p, SeqOfKeyOK DEF Reack, At, Keyed
    <2>2. Enders
      BY <1>6, <1>g DEF Reack, At
    <2> QED BY <1>6, <1>k, <2>1, <2>2 DEF Reack
  <1>7. ASSUME NEW t \in Tabs, AckAndSpawn(t) PROVE Quiet'
    <2>1. Phases
      BY <1>7, <1>p, SeqOfKeyOK DEF AckAndSpawn, At, Keyed
    <2>2. Enders
      BY <1>7, <1>g DEF AckAndSpawn, At
    <2>3. \A n \in DOMAIN turns' :
            \/ n \in DOMAIN turns /\ turns'[n].tab = turns[n].tab
            \/ turns'[n].tab = t
      BY <1>7 DEF AckAndSpawn
    <2>4. reader[t].pc # "ended"
      BY <1>7 DEF AckAndSpawn, At
    <2> QED BY <2>1, <2>2, <2>3, <2>4 DEF Quiet, Tasks, Turn
  <1>8. ASSUME NEW t \in Tabs, Replay(t) PROVE Quiet'
    <2>1. Phases
      BY <1>8, <1>p DEF Replay, Readers, Reader
    <2>2. Enders
      BY <1>8 DEF Replay, At, Readers, Reader
    <2> QED BY <1>8, <1>k, <2>1, <2>2 DEF Replay
  <1>9. ASSUME NEW t \in Tabs, Disconnected(t) PROVE Quiet'
    <2>1. Enders /\ Owners
      BY <1>9, <1>g, <1>c DEF Disconnected, At
    <2> QED BY <1>9, <1>k, <2>1 DEF Disconnected
  <1>10. ASSUME NEW t \in Tabs, ReaderEnds(t) PROVE Quiet'
    <2>1. /\ \A n \in DOMAIN turns : turns[n].tab # t
          /\ \A u \in Tabs : u # t => reader'[u] = reader[u]
          /\ reader'[t].pc = "ended"
          /\ UNCHANGED <<conn, turns>>
      BY <1>10 DEF ReaderEnds, TurnsOf, Readers, NoReader
    <2> QED BY <2>1 DEF Quiet, Tasks, Turn
  <1>11. ASSUME NEW t \in Tabs, Serve(t) PROVE Quiet'
    <2>1. /\ \A u \in Tabs : u # t => reader'[u] = reader[u] /\ conn'[u] = conn[u]
          /\ reader'[t].pc = "receive" /\ conn'[t].phase = "open"
          /\ UNCHANGED turns
      BY <1>11 DEF Serve, Readers, NoReader, Connections, Conn
    <2> QED BY <2>1 DEF Quiet, Tasks, Turn
  <1>12. ASSUME NEW t \in Tabs, Unwound(t) PROVE Quiet'
    <2>1. Enders
      BY <1>12, <1>g DEF Unwound
    <2>2. Owners
      BY <1>12, <1>c DEF Unwound
    <2>3. \A u \in Tabs : conn'[u].phase = conn[u].phase \/ conn'[u].phase = "teardown"
      BY <1>12 DEF Unwound, Connections, Conn
    <2> QED BY <2>1, <2>2, <2>3 DEF Quiet, Tasks, Turn
  <1>13. ASSUME NEW t \in Tabs,
                \/ conn[t].phase = "ensure" \/ reader[t].pc = "ended",
                conn' = [conn EXCEPT ![t] = NoConn],
                UNCHANGED <<reader, turns>>
         PROVE  Quiet'
    <2>1. \A u \in Tabs : u # t => conn'[u] = conn[u]
      BY <1>13 DEF Connections
    <2>2. reader[t].pc = "ended"
      BY <1>13 DEF Quiet
    <2> QED BY <1>13, <2>1, <2>2 DEF Quiet
  <1>14. ASSUME NEW t \in Tabs,
                Teardown(t) \/ ServerCancels(t) \/ ServeFails(t) \/ Closed(t)
         PROVE  Quiet'
    BY <1>12, <1>13, <1>14 DEF Teardown, ServerCancels, ServeFails, Closed
  <1>15. ASSUME NEW t \in Tabs, Connect(t) PROVE Quiet'
    <2>1. /\ \A u \in Tabs : u # t => conn'[u] = conn[u]
          /\ reader[t].pc = "ended" /\ UNCHANGED <<reader, turns>>
      BY <1>15 DEF Connect, Connections, Quiet
    <2> QED BY <2>1 DEF Quiet
  <1>16. ASSUME NEW n \in DOMAIN log, FirstStep(n) \/ Exhausted(n) \/ Save(n)
                  \/ Shielded(n) \/ RespondFails(n) \/ SaveFails(n)
         PROVE  Quiet'
    <2>1. Owners
      BY <1>16, TurnedOK DEF FirstStep, Exhausted, Save, Shielded, RespondFails,
      SaveFails, Doing
    <2>2. UNCHANGED <<conn, reader>>
      BY <1>16 DEF FirstStep, Exhausted, Save, Shielded, RespondFails, SaveFails
    <2> QED BY <1>k, <2>1, <2>2
  <1>17. ASSUME NEW n \in DOMAIN log, Done(n) \/ Failed(n) PROVE Quiet'
    <2>1. turns[n].tab \in Tabs /\ n \in DOMAIN turns
      BY <1>17 DEF Done, Failed, Doing, Tasks, Turn
    <2>2. Owners
      BY <1>17, <2>1, TurnedOK DEF Done, Failed
    <2>3. Phases
      BY <1>17, <1>p, <2>1, PlainFrame, DoneFrameOK DEF Done, Failed
    <2> QED BY <1>17, <1>k, <2>2, <2>3 DEF Done, Failed
  <1>18. ASSUME NEW n \in DOMAIN log, Chunk(n) PROVE Quiet'
    <2>1. turns[n].tab \in Tabs /\ n \in DOMAIN turns
      BY <1>18 DEF Chunk, Doing, Tasks, Turn
    <2>2. Owners
      BY <1>18, <2>1 DEF Chunk, Tasks, Turn
    <2>3. Phases
      BY <1>18, <1>p, <2>1, PlainFrame DEF Chunk
    <2> QED BY <1>18, <1>k, <2>2, <2>3 DEF Chunk
  <1>19. ASSUME NEW n \in DOMAIN log, Cancelled(n) \/ Evict(n) \/ LooseEnds(n)
         PROVE  Quiet'
    <2>1. Owners
      BY <1>19 DEF Cancelled, Evict, LooseEnds, Tasks, Turn
    <2>2. UNCHANGED <<conn, reader>>
      BY <1>19 DEF Cancelled, Evict, LooseEnds
    <2> QED BY <1>k, <2>1, <2>2
  <1>20. CASE Drain \/ ServerCloses
    <2>1. Phases
      <3>1. ASSUME NEW t \in Tabs PROVE conn'[t].phase = conn[t].phase
        <4>1. conn[t] \in Conn /\ Len(conn[t].out) <= QueueSize
          BY DEF Connections
        <4>2. \/ conn'[t] \in {conn[t], CloseRequested(conn[t])}
              \/ conn'[t] = [conn[t] EXCEPT !.gone = TRUE]
          BY <1>20 DEF Drain, ServerCloses
        <4> QED BY <4>1, <4>2, CloseOK, GoneOK DEF SameTasks
      <3> QED BY <3>1
    <2> QED BY <1>20, <1>k, <2>1 DEF Drain, ServerCloses
  <1>21. CASE UNCHANGED vars
    BY <1>21, <1>k DEF vars
  <1> QED
    BY <1>1, <1>2, <1>3, <1>4, <1>5, <1>6, <1>7, <1>8, <1>9, <1>10, <1>11, <1>14,
       <1>15, <1>16, <1>17, <1>18, <1>19, <1>20, <1>21
    DEF Next, Writing, Reading, Handling, Failing, Replying

\* The key that record_user_message has taken lets one reader open one reply.
LEMMA OnceStep ==
  Readers /\ Keyed /\ Logged /\ Kept /\ Once /\ Tasks /\ Roles /\ [Next]_vars => Once'
  <1> SUFFICES ASSUME Readers, Keyed, Logged, Kept, Once, Tasks, Roles, [Next]_vars
               PROVE  Once'
    OBVIOUS
  <1> DEFINE Same == DOMAIN log' = DOMAIN log
             Starters == \A t \in Tabs : reader'[t].pc = "start" =>
                           reader[t].pc = "start" /\ reader'[t].key = reader[t].key
             NotReply == \A n \in DOMAIN log' \ DOMAIN log : log'[n].kind # "assistant"
  <1>k. Starters /\ NotReply => Once'
    <2> SUFFICES ASSUME Starters, NotReply PROVE Once'
      OBVIOUS
    <2>1. \A n \in DOMAIN log' : log'[n].kind = "assistant" =>
            n \in DOMAIN log /\ log[n].kind = "assistant" /\ log'[n].key = log[n].key
      BY DEF Kept
    <2>2. OneReplyPerKey'
      BY <2>1 DEF Once, OneReplyPerKey
    <2>3. Answers'
      BY <2>1, RecordedKept DEF Once, Answers
    <2> QED BY <2>1, <2>2, <2>3 DEF Once
  <1>s. Same => NotReply
    OBVIOUS
  <1>u. UNCHANGED log => NotReply
    OBVIOUS
  <1>g. ASSUME NEW t \in Tabs,
               NEW pc \in {"receive", "reack", "resume", "ending"}, Goto(t, pc)
        PROVE  Starters
    BY <1>g DEF Goto, Readers, Reader
  <1>a. ASSUME NEW t \in Tabs, reader[t].pc = "start",
               log' = Append(log, Row("assistant", reader[t].key, "streaming")),
               reader'[t].pc # "start",
               \A u \in Tabs : u # t => reader'[u] = reader[u]
        PROVE  Once'
    <2> DEFINE k == reader[t].key
               new == Len(log) + 1
    <2>1. k \in Keys /\ Recorded(k)
      BY <1>a DEF Keyed
    <2>2. /\ new \notin DOMAIN log /\ DOMAIN log' = DOMAIN log \cup {new}
          /\ \A n \in DOMAIN log : log'[n] = log[n]
          /\ log'[new].kind = "assistant" /\ log'[new].key = k
      BY <1>a, <2>1, RowOK, AppendKept DEF Row
    <2>3. \A n \in DOMAIN log : log[n].kind = "assistant" => log[n].key # k
      BY <1>a DEF Once
    <2>4. \A u \in Tabs : reader'[u].pc = "start" =>
            reader[u].pc = "start" /\ reader'[u].key = reader[u].key /\ reader[u].key # k
      BY <1>a DEF Once
    <2> HIDE DEF k, new
    <2>5. OneReplyPerKey'
      BY <2>2, <2>3 DEF Once, OneReplyPerKey
    <2>6. Answers'
      BY <2>1, <2>2, RecordedKept DEF Once, Answers
    <2> QED BY <2>2, <2>4, <2>5, <2>6 DEF Once
  <1>1. ASSUME NEW t \in Tabs, WriterGets(t) \/ WriterSends(t) \/ WriterLoses(t)
                 \/ Closed(t) \/ ServeFails(t) \/ Connect(t) \/ Leave(t)
        PROVE  Once'
    <2>1. UNCHANGED <<log, reader>>
      BY <1>1 DEF WriterGets, WriterSends, WriterLoses, Closed, ServeFails, Connect, Leave
    <2> QED BY <1>k, <2>1
  <1>2. ASSUME NEW t \in Tabs, NEW k \in Keys, Submit(t, k) PROVE Once'
    <2>1. Starters /\ UNCHANGED log
      BY <1>2 DEF Submit, Readers, Reader
    <2> QED BY <1>k, <2>1
  <1>3. ASSUME NEW t \in Tabs, Record(t) PROVE Once'
    <2>1. CASE Goto(t, "reack") /\ UNCHANGED log
      BY <1>g, <1>k, <2>1
    <2>2. CASE /\ ~Recorded(reader[t].key) /\ Goto(t, "start")
               /\ log' = Append(log, Row("user", reader[t].key, "complete"))
      <3> DEFINE k == reader[t].key
      <3>1. k \in Keys
        BY <1>3 DEF Record, At, Keyed
      <3>2. \A n \in DOMAIN log' : log'[n].kind = "assistant" =>
              n \in DOMAIN log /\ log'[n] = log[n]
        BY <2>2, <3>1, RowOK, AppendKept DEF Row
      <3>3. \A n \in DOMAIN log' : log'[n].kind = "assistant" => log'[n].key # k
        BY <2>2, <3>2 DEF Once, Answers
      <3>4. \A u \in Tabs : reader[u].pc = "start" => reader[u].key # k
        BY <2>2 DEF Keyed
      <3>5. /\ reader'[t].key = k
            /\ \A u \in Tabs : u # t => reader'[u] = reader[u]
        BY <2>2 DEF Goto, Readers, Reader
      <3> HIDE DEF k
      <3>6. OneReplyPerKey'
        BY <3>2 DEF Once, OneReplyPerKey
      <3>7. Answers'
        BY <3>2, RecordedKept DEF Once, Answers
      <3>8. \A u \in Tabs : reader'[u].pc = "start" =>
              \A n \in DOMAIN log' : log'[n].kind = "assistant" => log'[n].key # reader'[u].key
        BY <3>2, <3>3, <3>5 DEF Once
      <3>9. \A u, v \in Tabs :
              (reader'[u].pc = "start" /\ reader'[v].pc = "start"
                /\ reader'[u].key = reader'[v].key) => u = v
        BY <3>4, <3>5 DEF Once
      <3> QED BY <3>6, <3>7, <3>8, <3>9 DEF Once
    <2> QED BY <1>3, <2>1, <2>2 DEF Record
  <1>4. ASSUME NEW t \in Tabs, RecordFails(t) PROVE Once'
    <2>1. reader[t].key \in Keys
      BY <1>4 DEF RecordFails, At, Keyed
    <2>2. UNCHANGED log \/ log' = Append(log, Row("user", reader[t].key, "complete"))
      BY <1>4 DEF RecordFails
    <2>3. NotReply
      BY <2>1, <2>2, RowOK, AppendKept DEF Row
    <2> QED BY <1>4, <1>g, <1>k, <2>3 DEF RecordFails
  <1>5. ASSUME NEW t \in Tabs, Start(t) PROVE Once'
    <2>1. reader'[t].pc # "start" /\ \A u \in Tabs : u # t => reader'[u] = reader[u]
      BY <1>5 DEF Start, Readers, Reader
    <2> QED BY <1>5, <1>a, <2>1 DEF Start, At
  <1>6. ASSUME NEW t \in Tabs, StartFails(t) PROVE Once'
    <2>1. reader'[t].pc # "start" /\ \A u \in Tabs : u # t => reader'[u] = reader[u]
      BY <1>6 DEF StartFails, Goto, Readers, Reader
    <2>2. Starters
      BY <1>6, <1>g DEF StartFails
    <2>3. UNCHANGED log => Once'
      BY <1>k, <2>2
    <2> QED BY <1>6, <1>a, <2>1, <2>3 DEF StartFails, At
  <1>7. ASSUME NEW t \in Tabs, AckAndSpawn(t) \/ Reack(t) \/ Resume(t) \/ ResumeFails(t)
                 \/ Disconnected(t)
        PROVE  Once'
    BY <1>7, <1>g, <1>k DEF AckAndSpawn, Reack, Resume, ResumeFails, Disconnected
  <1>8. ASSUME NEW t \in Tabs, LogSince(t) \/ Replay(t) PROVE Once'
    <2>1. Starters
      BY <1>8 DEF LogSince, Replay, Readers, Reader
    <2>2. UNCHANGED log
      BY <1>8 DEF LogSince, Replay
    <2> QED BY <1>k, <2>1, <2>2
  <1>9. ASSUME NEW t \in Tabs, ReaderEnds(t) \/ Serve(t) PROVE Once'
    <2>1. Starters
      BY <1>9 DEF ReaderEnds, Serve, Readers, NoReader
    <2>2. UNCHANGED log
      BY <1>9 DEF ReaderEnds, Serve
    <2> QED BY <1>k, <2>1, <2>2
  <1>10. ASSUME NEW t \in Tabs, Teardown(t) \/ ServerCancels(t) PROVE Once'
    BY <1>10, <1>g, <1>k DEF Teardown, ServerCancels, Unwound
  <1>11. ASSUME NEW n \in DOMAIN log, FirstStep(n) \/ Exhausted(n) \/ Save(n)
                  \/ Done(n) \/ Failed(n) \/ Cancelled(n) \/ Shielded(n) \/ Evict(n)
                  \/ Chunk(n) \/ RespondFails(n) \/ SaveFails(n) \/ LooseEnds(n)
         PROVE  Once'
    <2>1. UNCHANGED reader
      BY <1>11 DEF FirstStep, Exhausted, Save, Done, Failed, Cancelled, Shielded,
      Evict, Chunk, RespondFails, SaveFails, LooseEnds
    <2>2. Same
      BY <1>11 DEF FirstStep, Exhausted, Save, Done, Failed, Cancelled, Shielded,
      Evict, Chunk, RespondFails, SaveFails, LooseEnds, MarkFailed, Status
    <2> QED BY <1>k, <1>s, <2>1, <2>2
  <1>12. CASE Drain \/ ServerCloses
    BY <1>12, <1>k DEF Drain, ServerCloses
  <1>13. CASE UNCHANGED vars
    BY <1>13, <1>k DEF vars
  <1> QED
    BY <1>1, <1>2, <1>3, <1>4, <1>5, <1>6, <1>7, <1>8, <1>9, <1>10, <1>11, <1>12, <1>13
    DEF Next, Writing, Reading, Handling, Failing, Replying

\* The turn of a reply is the only one that writes to its row until it is over.
LEMMA FinalStep ==
  Readers /\ Keyed /\ Logged /\ Kept /\ Tasks /\ Rest /\ Roles /\ Final /\ [Next]_vars
    => Final'
  <1> SUFFICES ASSUME Readers, Keyed, Logged, Kept, Tasks, Rest, Roles, Final, [Next]_vars
               PROVE  Final'
    OBVIOUS
  <1> DEFINE Rows == \A n \in DOMAIN log : log'[n] = log[n]
             Ackers == \A t \in Tabs : reader'[t].pc = "ack" =>
                         reader[t].pc = "ack" /\ reader'[t].reply = reader[t].reply
             Courses == /\ DOMAIN turns' = DOMAIN turns
                        /\ \A n \in DOMAIN turns : turns'[n].pc = turns[n].pc
  <1>0. \A n \in done \cup loose \cup DOMAIN turns : n \in DOMAIN log
    BY DEF Tasks, Rest
  <1>k. Rows /\ Ackers /\ Courses /\ UNCHANGED <<done, loose>> => Final'
    BY <1>0 DEF Final
  <1>u. UNCHANGED log => Rows
    OBVIOUS
  <1>a. ASSUME NEW e \in Entry, log' = Append(log, e) PROVE Rows
    BY <1>a, AppendKept
  <1>g. ASSUME NEW t \in Tabs,
               NEW pc \in {"receive", "reack", "start", "resume", "ending"}, Goto(t, pc)
        PROVE  Ackers
    BY <1>g DEF Goto, Readers, Reader
  <1>c. ASSUME NEW t \in Tabs, CancelTurns(t) PROVE Courses
    BY <1>c, CancelTurnsOK
  <1>m. ASSUME NEW n \in DOMAIN log, MarkFailed(n), log[n].kind = "assistant"
        PROVE  \A i \in DOMAIN log : i # n => log'[i] = log[i]
    BY <1>m, StatusKept DEF MarkFailed
  <1>1. ASSUME NEW t \in Tabs, WriterGets(t) \/ WriterSends(t) \/ WriterLoses(t)
                 \/ Closed(t) \/ ServeFails(t) \/ Connect(t) \/ Leave(t)
        PROVE  Final'
    <2>1. UNCHANGED <<log, reader, turns, done, loose>>
      BY <1>1 DEF WriterGets, WriterSends, WriterLoses, Closed, ServeFails, Connect, Leave
    <2> QED BY <1>k, <2>1
  <1>2. ASSUME NEW t \in Tabs, NEW k \in Keys, Submit(t, k) PROVE Final'
    <2>1. Ackers /\ UNCHANGED <<log, turns, done, loose>>
      BY <1>2 DEF Submit, Readers, Reader
    <2> QED BY <1>k, <2>1
  <1>3. ASSUME NEW t \in Tabs, Record(t) \/ RecordFails(t) \/ StartFails(t) PROVE Final'
    <2>1. reader[t].key \in Keys
      BY <1>3 DEF Record, RecordFails, StartFails, At, Keyed
    <2>2. PICK e \in Entry : UNCHANGED log \/ log' = Append(log, e)
      BY <1>3, <2>1, RowOK DEF Record, RecordFails, StartFails
    <2>3. Rows
      BY <2>2, <1>a
    <2>4. Ackers
      BY <1>3, <1>g DEF Record, RecordFails, StartFails
    <2>5. UNCHANGED <<turns, done, loose>>
      BY <1>3 DEF Record, RecordFails, StartFails
    <2> QED BY <1>k, <2>3, <2>4, <2>5
  <1>4. ASSUME NEW t \in Tabs, Start(t) PROVE Final'
    <2>1. reader[t].key \in Keys
      BY <1>4 DEF Start, At, Keyed
    <2>2. /\ \A n \in DOMAIN log : log'[n] = log[n]
          /\ Len(log) + 1 \notin DOMAIN log
      BY <1>4, <2>1, RowOK, AppendKept DEF Start
    <2>3. /\ reader'[t].reply = Len(log) + 1
          /\ \A u \in Tabs : u # t => reader'[u] = reader[u]
      BY <1>4 DEF Start, Readers, Reader, Logged
    <2>4. \A u \in Tabs : reader[u].pc = "ack" => reader[u].reply \in DOMAIN log
      BY DEF Roles
    <2>5. UNCHANGED <<turns, done, loose>>
      BY <1>4 DEF Start
    <2> QED BY <1>0, <2>2, <2>3, <2>4, <2>5 DEF Final
  <1>5. ASSUME NEW t \in Tabs, AckAndSpawn(t) PROVE Final'
    <2> DEFINE n == reader[t].reply
    <2>1. /\ reader[t].pc = "ack" /\ UNCHANGED <<log, done, loose>>
      BY <1>5 DEF AckAndSpawn, At
    <2>2. n \notin done \cup DOMAIN turns \cup loose
      BY <2>1 DEF Final
    <2>3. /\ DOMAIN turns' = DOMAIN turns \cup {n}
          /\ \A i \in DOMAIN turns : i # n => turns'[i] = turns[i]
          /\ turns'[n].pc = "new"
      BY <1>5 DEF AckAndSpawn
    <2>4. reader'[t].pc # "ack" /\ \A u \in Tabs : u # t => reader'[u] = reader[u]
      BY <1>5 DEF AckAndSpawn, Goto, Readers, Reader
    <2>5. \A u \in Tabs : u # t /\ reader[u].pc = "ack" => reader[u].reply # n
      BY <2>1 DEF Final
    <2> HIDE DEF n
    <2> QED BY <2>1, <2>2, <2>3, <2>4, <2>5 DEF Final
  <1>6. ASSUME NEW t \in Tabs, Reack(t) \/ Resume(t) \/ ResumeFails(t) PROVE Final'
    <2>1. UNCHANGED <<log, turns, done, loose>>
      BY <1>6 DEF Reack, Resume, ResumeFails
    <2>2. Ackers
      BY <1>6, <1>g DEF Reack, Resume, ResumeFails
    <2> QED BY <1>k, <2>1, <2>2
  <1>7. ASSUME NEW t \in Tabs, LogSince(t) \/ Replay(t) PROVE Final'
    <2>1. UNCHANGED <<log, turns, done, loose>>
      BY <1>7 DEF LogSince, Replay
    <2>2. Ackers
      BY <1>7 DEF LogSince, Replay, Readers, Reader
    <2> QED BY <1>k, <2>1, <2>2
  <1>8. ASSUME NEW t \in Tabs, ReaderEnds(t) \/ Serve(t) PROVE Final'
    <2>1. UNCHANGED <<log, turns, done, loose>>
      BY <1>8 DEF ReaderEnds, Serve
    <2>2. Ackers
      BY <1>8 DEF ReaderEnds, Serve, Readers, NoReader
    <2> QED BY <1>k, <2>1, <2>2
  <1>9. ASSUME NEW t \in Tabs, Disconnected(t) PROVE Final'
    BY <1>9, <1>g, <1>c, <1>k DEF Disconnected
  <1>10. ASSUME NEW t \in Tabs, Unwound(t) PROVE Final'
    BY <1>10, <1>g, <1>c, <1>k DEF Unwound
  <1>11. ASSUME NEW t \in Tabs, Teardown(t) \/ ServerCancels(t) PROVE Final'
    BY <1>11, <1>10, <1>k DEF Teardown, ServerCancels
  <1>12. ASSUME NEW n \in DOMAIN log, FirstStep(n) \/ Exhausted(n) \/ RespondFails(n)
         PROVE  Final'
    <2>1. /\ n \in DOMAIN turns /\ turns[n].pc \in {"new", "stream"}
          /\ UNCHANGED <<log, reader, done, loose>>
          /\ \E pc \in {"stream", "saving", "failing"} : Turned(n, pc)
      BY <1>12 DEF FirstStep, Exhausted, RespondFails, Doing
    <2>2. /\ DOMAIN turns' = DOMAIN turns
          /\ \A m \in DOMAIN turns : m # n => turns'[m] = turns[m]
          /\ turns'[n].pc \in {"stream", "saving", "failing"}
      BY <2>1, TurnedOK
    <2> QED BY <2>1, <2>2 DEF Final
  <1>13. ASSUME NEW n \in DOMAIN log, Save(n) PROVE Final'
    <2>1. /\ n \in DOMAIN turns /\ turns[n].pc = "saving"
          /\ UNCHANGED <<reader, done, loose>>
          /\ Turned(n, "saved") /\ Status(n, "complete") /\ log[n].kind = "assistant"
      BY <1>13 DEF Save, Doing, Roles
    <2>2. /\ DOMAIN turns' = DOMAIN turns
          /\ \A m \in DOMAIN turns : m # n => turns'[m] = turns[m]
          /\ turns'[n].pc = "saved"
      BY <2>1, TurnedOK
    <2>3. /\ \A m \in DOMAIN log : m # n => log'[m] = log[m]
          /\ log'[n].status = "complete"
      BY <2>1, StatusKept
    <2> QED BY <1>0, <2>1, <2>2, <2>3 DEF Final
  <1>14. ASSUME NEW n \in DOMAIN log, SaveFails(n) PROVE Final'
    <2>1. /\ n \in DOMAIN turns /\ turns[n].pc = "saving"
          /\ UNCHANGED <<reader, done, loose>>
          /\ Turned(n, "failing") /\ log[n].kind = "assistant"
          /\ UNCHANGED log \/ Status(n, "complete")
      BY <1>14 DEF SaveFails, Doing, Roles
    <2>2. /\ DOMAIN turns' = DOMAIN turns
          /\ \A m \in DOMAIN turns : m # n => turns'[m] = turns[m]
          /\ turns'[n].pc = "failing"
      BY <2>1, TurnedOK
    <2>3. \A m \in DOMAIN log : m # n => log'[m] = log[m]
      BY <2>1, StatusKept
    <2> QED BY <1>0, <2>1, <2>2, <2>3 DEF Final
  <1>15. ASSUME NEW n \in DOMAIN log, Done(n) PROVE Final'
    <2>1. /\ n \in DOMAIN turns /\ turns[n].pc = "saved"
          /\ UNCHANGED <<log, reader, loose>>
          /\ Turned(n, "over") /\ done' = done \cup {n}
      BY <1>15 DEF Done, Doing
    <2>2. /\ DOMAIN turns' = DOMAIN turns
          /\ \A m \in DOMAIN turns : m # n => turns'[m] = turns[m]
          /\ turns'[n].pc = "over"
      BY <2>1, TurnedOK
    <2> QED BY <2>1, <2>2 DEF Final
  <1>16. ASSUME NEW n \in DOMAIN log, Failed(n) \/ Shielded(n) PROVE Final'
    <2>1. /\ n \in DOMAIN turns /\ turns[n].pc \in {"failing", "shielded"}
          /\ UNCHANGED <<reader, loose, done>>
          /\ Turned(n, "over") /\ MarkFailed(n) /\ log[n].kind = "assistant"
      BY <1>16 DEF Failed, Shielded, Doing, Roles
    <2>2. /\ DOMAIN turns' = DOMAIN turns
          /\ \A m \in DOMAIN turns : m # n => turns'[m] = turns[m]
          /\ turns'[n].pc = "over"
      BY <2>1, TurnedOK
    <2>3. \A m \in DOMAIN log : m # n => log'[m] = log[m]
      BY <2>1, <1>m
    <2> QED BY <1>0, <2>1, <2>2, <2>3 DEF Final
  <1>17. ASSUME NEW n \in DOMAIN log, Cancelled(n) PROVE Final'
    <2>1. /\ n \in DOMAIN turns /\ UNCHANGED <<reader, done>>
          /\ log[n].kind = "assistant" /\ turns[n] \in Turn
      BY <1>17 DEF Cancelled, Roles, Tasks
    <2>2. /\ DOMAIN turns' = DOMAIN turns
          /\ \A m \in DOMAIN turns : m # n => turns'[m] = turns[m]
          /\ turns'[n].pc = IF turns[n].pc \in {"stream", "saving", "saved"}
                            THEN "shielded" ELSE "over"
      BY <1>17, <2>1 DEF Cancelled, Turn
    <2>3. /\ UNCHANGED log \/ turns[n].pc = "failing"
          /\ UNCHANGED loose \/ (turns[n].pc = "shielded" /\ loose' = loose \cup {n})
      BY <1>17 DEF Cancelled
    <2>4. \A m \in DOMAIN log : m # n => log'[m] = log[m]
      BY <1>17, <2>1, StatusKept DEF Cancelled
    <2> QED BY <1>0, <2>1, <2>2, <2>3, <2>4 DEF Final
  <1>18. ASSUME NEW n \in DOMAIN log, Chunk(n) PROVE Final'
    <2>1. Courses
      BY <1>18 DEF Chunk, Doing, Tasks, Turn
    <2> QED BY <1>18, <1>k, <2>1 DEF Chunk
  <1>19. ASSUME NEW n \in DOMAIN log, LooseEnds(n) PROVE Final'
    <2>1. /\ n \in loose /\ loose' = loose \ {n} /\ UNCHANGED <<reader, turns, done>>
          /\ log[n].kind = "assistant"
          /\ UNCHANGED log \/ MarkFailed(n)
      BY <1>19 DEF LooseEnds, Roles
    <2>2. \A m \in DOMAIN log : m # n => log'[m] = log[m]
      BY <2>1, <1>m
    <2> QED BY <1>0, <2>1, <2>2 DEF Final
  <1>20. ASSUME NEW n \in DOMAIN log, Evict(n) PROVE Final'
    <2>1. UNCHANGED <<log, reader, done, loose>>
      BY <1>20 DEF Evict
    <2>2. /\ DOMAIN turns' \subseteq DOMAIN turns
          /\ \A m \in DOMAIN turns' : turns'[m] = turns[m]
      BY <1>20 DEF Evict
    <2> QED BY <2>1, <2>2 DEF Final
  <1>21. CASE Drain \/ ServerCloses
    BY <1>21, <1>k DEF Drain, ServerCloses
  <1>22. CASE UNCHANGED vars
    BY <1>22, <1>k DEF vars
  <1> QED
    BY <1>1, <1>2, <1>3, <1>4, <1>5, <1>6, <1>7, <1>8, <1>9, <1>11, <1>12, <1>13,
       <1>14, <1>15, <1>16, <1>17, <1>18, <1>19, <1>20, <1>21, <1>22
    DEF Next, Writing, Reading, Handling, Failing, Replying

\* Nobody is connected.
LEMMA InitOK == Init => IInv
  <1> SUFFICES ASSUME Init PROVE IInv
    OBVIOUS
  <1> USE DEF Init
  <1>1. Logged /\ \A n \in DOMAIN log : log[n].kind = "event"
    <2>1. Backlog \in Nat
      OBVIOUS
    <2>2. Transition \in Entry /\ Transition.kind = "event"
      BY DEF Transition, Entry
    <2>3. /\ log \in Seq(Entry)
          /\ \A n \in DOMAIN log : log[n] = Transition
      BY <2>1, <2>2
    <2> QED BY <2>2, <2>3 DEF Logged
  <1>2. Connections /\ \A t \in Tabs : conn[t].phase = "closed"
    BY NoConnOK DEF Connections, NoConn
  <1>3. Readers /\ \A t \in Tabs : reader[t].pc = "ended"
    BY NoReaderOK DEF Readers, NoReader
  <1>4. Tasks /\ DOMAIN turns = {} /\ loose = {} /\ done = {}
    BY DEF Tasks
  <1>5. Rest
    <2>1. client \in [Tabs -> [cursor : Nat, told : SUBSET Nat]]
      OBVIOUS
    <2>2. faults \in 0 .. MaxFaults
      OBVIOUS
    <2> QED BY <2>1, <2>2, <1>4 DEF Rest
  <1>6. Keyed /\ Roles
    BY <1>3, <1>4 DEF Keyed, Roles
  <1>7. Once
    BY <1>1, <1>3 DEF Once, OneReplyPerKey, Answers
  <1>8. Final /\ Quiet
    BY <1>3, <1>4 DEF Final, Quiet
  <1> QED BY <1>1, <1>2, <1>3, <1>4, <1>5, <1>6, <1>7, <1>8 DEF IInv

\* The inductive invariant holds in every state, for any number of clients, keys,
\* turns and failures.
THEOREM InvHolds == Spec => []IInv
  <1>1. IInv /\ [Next]_vars => IInv'
    <2> SUFFICES ASSUME IInv, [Next]_vars PROVE IInv'
      OBVIOUS
    <2>1. Logged /\ Connections /\ Readers /\ Tasks /\ Rest
      BY DEF IInv
    <2>2. Keyed /\ Roles /\ Once /\ Final /\ Quiet
      BY DEF IInv
    <2>3. Kept
      BY <2>1, <2>2, LogStep
    <2>4. Readers' /\ Keyed'
      BY <2>1, <2>2, <2>3, ReaderStep
    <2>5. Connections' /\ Tasks' /\ Roles' /\ Rest'
      BY <2>1, <2>2, <2>3, ConnStep, TaskStep, RestStep
    <2>6. Once' /\ Final' /\ Quiet'
      BY <2>1, <2>2, <2>3, OnceStep, FinalStep, QuietStep
    <2>7. Logged'
      BY <2>3 DEF Kept
    <2> QED BY <2>4, <2>5, <2>6, <2>7 DEF IInv
  <1> QED BY InitOK, <1>1, PTL DEF Spec

\* The variables keep their types and the send queues their bound (send).
THEOREM TypeCorrect == Spec => []TypeOK
  <1>1. IInv => TypeOK
    BY TypeParts DEF IInv
  <1> QED BY InvHolds, <1>1, PTL

\* However often a message is submitted, over however many connections at a time,
\* one reply is opened for it (_start_turn).
THEOREM OneReplyPerKeyHolds == Spec => []OneReplyPerKey
  <1>1. IInv => OneReplyPerKey
    BY DEF IInv, Once
  <1> QED BY InvHolds, <1>1, PTL

\* A reply whose done was sent stays complete, whatever is cancelled, shielded or
\* fails behind it (_run_turn, _mark_failed).
THEOREM DoneIsFinalHolds == Spec => []DoneIsFinal
  <1>1. IInv => DoneIsFinal
    BY DEF IInv, Final, DoneIsFinal
  <1> QED BY InvHolds, <1>1, PTL

\* No turn runs when the route has closed its connection, however serve is
\* cancelled (serve, _read_frames).
THEOREM NoTurnOutlivesConnectionHolds == Spec => []NoTurnOutlivesConnection
  <1>1. IInv => NoTurnOutlivesConnection
    BY DEF IInv, Quiet, Tasks, Turn, NoTurnOutlivesConnection
  <1> QED BY InvHolds, <1>1, PTL

=============================================================================
