-------------------------- MODULE JobQueue_proofs ---------------------------
(***************************************************************************)
(* Proofs about JobQueue, for any jobs, processes, prefetch, limits and    *)
(* failures.  What the table keeps is cited from JobStore_proofs; what is  *)
(* proved here is what the processes and the broker's channels keep among  *)
(* themselves.                                                             *)
(***************************************************************************)
EXTENDS JobQueue, FiniteSetTheorems, TLAPS

Table == INSTANCE JobStore_proofs

USE QueueAssumption
USE DEF Procs, NoLease, Store!NoLease, Table!NoLease,
        Store!JobState, Store!RunAfter, Store!ErrorText, Store!Terminal,
        Table!JobState, Table!RunAfter, Table!ErrorText, Table!Terminal

-----------------------------------------------------------------------------
(* The deliveries that wait in _incoming, counted.                         *)

Where(s, d) == {i \in DOMAIN s : s[i] = d}

One(b) == IF b THEN 1 ELSE 0

LEMMA WhereFinite ==
  ASSUME NEW S, NEW s \in Seq(S), NEW d
  PROVE  IsFiniteSet(Where(s, d)) /\ Cardinality(Where(s, d)) \in Nat
  <1>1. Len(s) \in Nat /\ DOMAIN s = 1..Len(s)
    OBVIOUS
  <1>2. IsFiniteSet(1..Len(s))
    BY <1>1, FS_Interval
  <1>3. Where(s, d) \subseteq 1..Len(s)
    BY <1>1 DEF Where
  <1> QED BY <1>2, <1>3, FS_Subset, FS_CardinalityType

LEMMA WhereEmpty == \A d : Cardinality(Where(<<>>, d)) = 0
  BY FS_EmptySet DEF Where

LEMMA WhereAppend ==
  ASSUME NEW S, NEW s \in Seq(S), NEW e \in S, NEW d
  PROVE  Cardinality(Where(Append(s, e), d)) = Cardinality(Where(s, d)) + One(e = d)
  <1> DEFINE n == Len(s) + 1
  <1>1. n \in Nat /\ n \notin Where(s, d)
    BY DEF Where
  <1>2. CASE e = d
    <2>1. Where(Append(s, e), d) = Where(s, d) \cup {n}
      BY <1>2 DEF Where
    <2> HIDE DEF n
    <2>2. Cardinality(Where(s, d) \cup {n}) = Cardinality(Where(s, d)) + 1
      BY <1>1, WhereFinite, FS_AddElement
    <2> QED BY <1>2, <2>1, <2>2 DEF One
  <1>3. CASE e # d
    <2>1. Where(Append(s, e), d) = Where(s, d)
      BY <1>3 DEF Where
    <2>2. Cardinality(Where(s, d)) \in Nat
      BY WhereFinite
    <2> QED BY <1>3, <2>1, <2>2 DEF One
  <1> QED BY <1>2, <1>3

LEMMA WhereTail ==
  ASSUME NEW S, NEW s \in Seq(S), s # <<>>, NEW d
  PROVE  Cardinality(Where(s, d)) = Cardinality(Where(Tail(s), d)) + One(Head(s) = d)
  <1>1. /\ Tail(s) \in Seq(S) /\ Len(s) \in Nat /\ Len(s) >= 1
        /\ Len(Tail(s)) = Len(s) - 1 /\ DOMAIN Tail(s) = 1..(Len(s) - 1)
        /\ \A i \in 1..(Len(s) - 1) : Tail(s)[i] = s[i + 1]
        /\ Head(s) = s[1] /\ DOMAIN s = 1..Len(s)
    OBVIOUS
  <1> DEFINE rest == {i \in 2..Len(s) : s[i] = d}
             f == [i \in Where(Tail(s), d) |-> i + 1]
  <1>2. f \in Bijection(Where(Tail(s), d), rest)
    <2>1. f \in [Where(Tail(s), d) -> rest]
      BY <1>1 DEF Where
    <2>2. \A a, b \in Where(Tail(s), d) : f[a] = f[b] => a = b
      BY <1>1 DEF Where
    <2>3. \A b \in rest : \E a \in Where(Tail(s), d) : f[a] = b
      <3> SUFFICES ASSUME NEW b \in rest PROVE \E a \in Where(Tail(s), d) : f[a] = b
        OBVIOUS
      <3>1. b - 1 \in Where(Tail(s), d)
        BY <1>1 DEF Where
      <3>2. f[b - 1] = b
        BY <1>1, <3>1
      <3> QED BY <3>1, <3>2
    <2> HIDE DEF f, rest
    <2> QED BY <2>1, <2>2, <2>3 DEF Bijection, Injection, Surjection, ExistsBijection, IsInjective
  <1>3. IsFiniteSet(Where(Tail(s), d))
    BY <1>1, WhereFinite
  <1>4. IsFiniteSet(rest) /\ Cardinality(rest) = Cardinality(Where(Tail(s), d))
    BY <1>2, <1>3, FS_Bijection DEF ExistsBijection
  <1>5. 1 \notin rest
    BY <1>1
  <1>6. CASE Head(s) = d
    <2>1. Where(s, d) = rest \cup {1}
      BY <1>1, <1>6 DEF Where
    <2> HIDE DEF rest
    <2>2. Cardinality(rest \cup {1}) = Cardinality(rest) + 1
      BY <1>4, <1>5, FS_AddElement
    <2> QED BY <1>4, <1>6, <2>1, <2>2 DEF One
  <1>7. CASE Head(s) # d
    <2>1. Where(s, d) = rest
      BY <1>1, <1>7 DEF Where
    <2>2. Cardinality(Where(Tail(s), d)) \in Nat
      BY <1>1, WhereFinite
    <2> QED BY <1>4, <1>7, <2>1, <2>2 DEF One
  <1> QED BY <1>6, <1>7

-----------------------------------------------------------------------------
(* What a process has of its deliveries.                                   *)

Hold == [lease : Nat, returns : 0..DeliveryLimit, live : BOOLEAN]

Claiming == [pc : {"claim"}, message : Message, live : BOOLEAN]
Owning   == [pc : {"work", "settle"}, job : Jobs, lease : Nat \ {0}]
Offering == [pc : {"settle_publish", "publish"}, job : Jobs, lease : Nat \ {0},
             delay : BOOLEAN]
Telling  == [pc : {"mark"}, job : Jobs]

TaskState == {Idle} \cup Claiming \cup Owning \cup Offering \cup Telling

\* A delivery of m that the broker still counts for the channel.
Alive(m) == [message |-> m, live |-> TRUE]

\* The delivery that reserve took, and the one behind a claim.
Taken(t, m) == t.pc = "claim" /\ t.message = m /\ t.live
Behind(h, m) == h[m.job].live /\ h[m.job].returns = m.returns

\* The deliveries of m that somebody in the process knows of, when its channel has
\* i in _incoming, h in _held and its reserve / ack / nack is at t.
Known(i, h, t, m) ==
  Cardinality(Where(i, Alive(m))) + One(Taken(t, m)) + One(Behind(h, m))

\* The broker counts each of them, u being what it counts.
Covers(u, i, h, t) == \A m \in Message : u[m] >= Known(i, h, t, m)

\* It counts no other.
Matches(u, i, h, t) == \A m \in Message : u[m] = Known(i, h, t, m)

ProcTypes(u, i, h, t) ==
  u \in [Message -> Nat] /\ i \in Seq(Delivery) /\ h \in [Jobs -> Hold] /\ t \in TaskState

-----------------------------------------------------------------------------
(* What a step does to the deliveries of one process: from u, i, h, t to   *)
(* v, k, g, s.                                                             *)

Apace(t, s) == s = t \/ (t.pc # "claim" /\ s.pc # "claim")

Stays(u, i, h, t, v, k, g, s) == v = u /\ k = i /\ g = h /\ Apace(t, s)

Delivers(u, i, h, t, v, k, g, s) ==
  \E m \in Message : /\ v = [u EXCEPT ![m] = @ + 1]
                     /\ k = Append(i, Alive(m))
                     /\ g = h /\ s = t

Takes(u, i, h, t, v, k, g, s) ==
  /\ i # <<>> /\ k = Tail(i)
  /\ t = Idle
  /\ s = [pc |-> "claim", message |-> Head(i).message, live |-> Head(i).live]
  /\ v = u /\ g = h

Claims(u, i, h, t, v, k, g, s) ==
  /\ t.pc = "claim" /\ s.pc # "claim"
  /\ v = u /\ k = i
  /\ \E l \in Nat : g = [h EXCEPT ![t.message.job] =
                           [lease |-> l, returns |-> t.message.returns, live |-> t.live]]

Refuses(u, i, h, t, v, k, g, s) ==
  /\ t.pc = "claim" /\ s.pc # "claim"
  /\ v = [u EXCEPT ![t.message] = IF t.live THEN @ - 1 ELSE @]
  /\ k = i /\ g = h

Drops(u, i, h, t, v, k, g, s) ==
  t.pc = "claim" /\ s.pc # "claim" /\ v = u /\ k = i /\ g = h

Releases(u, i, h, t, v, k, g, s) ==
  /\ \E j \in Jobs : /\ v = [u EXCEPT ![Held(j, h[j])] = IF h[j].live THEN @ - 1 ELSE @]
                     /\ g = [h EXCEPT ![j] = NotHeld]
  /\ k = i /\ Apace(t, s)

Retires(u, i, h, t, v, k, g, s) ==
  /\ \E some \in SUBSET Jobs :
       /\ g = [j \in Jobs |-> IF j \in some THEN NotHeld ELSE h[j]]
       /\ v = [m \in Message |->
                 IF m.job \in some /\ m = Held(m.job, h[m.job]) /\ h[m.job].live
                 THEN u[m] - 1 ELSE u[m]]
  /\ k = i /\ s = t

\* The channel closed: nothing of what the process still has is the broker's.
Closes(u, i, h, t, v, k, g, s) ==
  /\ v = [m \in Message |-> 0]
  /\ k \in Seq(Delivery) /\ \A n \in DOMAIN k : ~k[n].live
  /\ g \in [Jobs -> Hold] /\ \A j \in Jobs : ~g[j].live
  /\ s.pc = "claim" => ~s.live

LEMMA KnownType ==
  ASSUME NEW i \in Seq(Delivery), NEW h, NEW t, NEW m
  PROVE  /\ Cardinality(Where(i, Alive(m))) \in Nat
         /\ One(Taken(t, m)) \in {0, 1} /\ One(Behind(h, m)) \in {0, 1}
         /\ Known(i, h, t, m) \in Nat
  <1>1. Cardinality(Where(i, Alive(m))) \in Nat
    BY WhereFinite
  <1>2. One(Taken(t, m)) \in {0, 1} /\ One(Behind(h, m)) \in {0, 1}
    BY DEF One
  <1> QED BY <1>1, <1>2 DEF Known

LEMMA TakenApace ==
  ASSUME NEW t, NEW s, Apace(t, s), NEW m
  PROVE  One(Taken(s, m)) = One(Taken(t, m))
  BY DEF Apace, Taken, One

LEMMA MessageIs ==
  ASSUME NEW m \in Message
  PROVE  \A j, r : m = [job |-> j, returns |-> r] <=> m.job = j /\ m.returns = r
  BY DEF Message

\* One message less, if the broker still counted it.
LEMMA LessOne ==
  ASSUME NEW u \in [Message -> Nat], NEW n \in Message, NEW b \in BOOLEAN, NEW v,
         v = [u EXCEPT ![n] = IF b THEN @ - 1 ELSE @],
         b => u[n] >= 1
  PROVE  /\ v \in [Message -> Nat]
         /\ \A m \in Message : v[m] + One(b /\ m = n) = u[m]
  <1>1. \A m \in Message : v[m] = IF b /\ m = n THEN u[m] - 1 ELSE u[m]
    OBVIOUS
  <1>2. v \in [Message -> Nat]
    BY <1>1
  <1> QED BY <1>1, <1>2 DEF One

-----------------------------------------------------------------------------
(* Each of them keeps what the broker counts above what the process knows, *)
(* and all but two keep the two equal.                                     *)

\* From how both numbers move, for each message.
LEMMA Balance ==
  ASSUME NEW u, NEW i, NEW h, NEW t, NEW v, NEW k, NEW g, NEW s,
         ProcTypes(u, i, h, t), Covers(u, i, h, t),
         v \in [Message -> Nat], k \in Seq(Delivery),
         \A m \in Message : v[m] + Known(i, h, t, m) = u[m] + Known(k, g, s, m)
  PROVE  /\ Covers(v, k, g, s)
         /\ Matches(u, i, h, t) => Matches(v, k, g, s)
  <1>1. \A m \in Message : /\ Known(i, h, t, m) \in Nat /\ Known(k, g, s, m) \in Nat
                           /\ u[m] \in Nat /\ v[m] \in Nat
    BY KnownType DEF ProcTypes
  <1>2. ASSUME NEW m \in Message PROVE v[m] >= Known(k, g, s, m)
    <2>1. u[m] >= Known(i, h, t, m) /\ v[m] + Known(i, h, t, m) = u[m] + Known(k, g, s, m)
      BY DEF Covers
    <2> QED BY <1>1, <2>1
  <1>3. ASSUME NEW m \in Message, Matches(u, i, h, t) PROVE v[m] = Known(k, g, s, m)
    <2>1. u[m] = Known(i, h, t, m) /\ v[m] + Known(i, h, t, m) = u[m] + Known(k, g, s, m)
      BY <1>3 DEF Matches
    <2> QED BY <1>1, <2>1
  <1> QED BY <1>2, <1>3 DEF Covers, Matches

LEMMA StaysOK ==
  ASSUME NEW u, NEW i, NEW h, NEW t, NEW v, NEW k, NEW g, NEW s,
         ProcTypes(u, i, h, t), Covers(u, i, h, t), s \in TaskState,
         Stays(u, i, h, t, v, k, g, s)
  PROVE  /\ ProcTypes(v, k, g, s) /\ Covers(v, k, g, s)
         /\ Matches(u, i, h, t) => Matches(v, k, g, s)
  <1>1. ProcTypes(v, k, g, s)
    BY DEF ProcTypes, Stays
  <1>2. \A m \in Message : Known(k, g, s, m) = Known(i, h, t, m)
    BY TakenApace DEF Stays, Known
  <1> QED BY <1>1, <1>2 DEF Stays, Covers, Matches

LEMMA DeliversOK ==
  ASSUME NEW u, NEW i, NEW h, NEW t, NEW v, NEW k, NEW g, NEW s,
         ProcTypes(u, i, h, t), Covers(u, i, h, t), s \in TaskState,
         Delivers(u, i, h, t, v, k, g, s)
  PROVE  /\ ProcTypes(v, k, g, s) /\ Covers(v, k, g, s)
         /\ Matches(u, i, h, t) => Matches(v, k, g, s)
  <1>1. PICK n \in Message : v = [u EXCEPT ![n] = @ + 1] /\ k = Append(i, Alive(n))
    BY DEF Delivers
  <1>2. Alive(n) \in Delivery /\ \A m \in Message : Alive(n) = Alive(m) <=> n = m
    BY DEF Alive, Delivery
  <1>3. ProcTypes(v, k, g, s)
    BY <1>1, <1>2 DEF Delivers, ProcTypes
  <1>4. \A m \in Message : Known(k, g, s, m) = Known(i, h, t, m) + One(n = m)
    <2> TAKE m \in Message
    <2>1. Cardinality(Where(k, Alive(m))) = Cardinality(Where(i, Alive(m))) + One(Alive(n) = Alive(m))
      BY <1>1, <1>2, WhereAppend DEF ProcTypes
    <2>2. One(Alive(n) = Alive(m)) = One(n = m) /\ One(n = m) \in {0, 1}
      BY <1>2 DEF One
    <2>3. g = h /\ s = t
      BY DEF Delivers
    <2>4. /\ Cardinality(Where(i, Alive(m))) \in Nat
          /\ One(Taken(t, m)) \in {0, 1} /\ One(Behind(h, m)) \in {0, 1}
      BY KnownType DEF ProcTypes
    <2> QED BY <2>1, <2>2, <2>3, <2>4 DEF Known
  <1>5. \A m \in Message : v[m] = u[m] + One(n = m)
    BY <1>1 DEF ProcTypes, One
  <1>6. \A m \in Message : v[m] + Known(i, h, t, m) = u[m] + Known(k, g, s, m)
    <2> TAKE m \in Message
    <2>1. One(n = m) \in {0, 1} /\ u[m] \in Nat /\ Known(i, h, t, m) \in Nat
      BY KnownType DEF One, ProcTypes
    <2> QED BY <1>4, <1>5, <2>1
  <1>7. v \in [Message -> Nat] /\ k \in Seq(Delivery)
    BY <1>3 DEF ProcTypes
  <1> QED BY <1>3, <1>6, <1>7, Balance

LEMMA TakesOK ==
  ASSUME NEW u, NEW i, NEW h, NEW t, NEW v, NEW k, NEW g, NEW s,
         ProcTypes(u, i, h, t), Covers(u, i, h, t), s \in TaskState,
         Takes(u, i, h, t, v, k, g, s)
  PROVE  /\ ProcTypes(v, k, g, s) /\ Covers(v, k, g, s)
         /\ Matches(u, i, h, t) => Matches(v, k, g, s)
  <1>1. i \in Seq(Delivery) /\ i # <<>> /\ Head(i) \in Delivery
    BY DEF Takes, ProcTypes
  <1>2. ProcTypes(v, k, g, s)
    BY <1>1 DEF Takes, ProcTypes
  <1>3. \A m \in Message : Known(k, g, s, m) = Known(i, h, t, m)
    <2> TAKE m \in Message
    <2>1. Cardinality(Where(i, Alive(m))) = Cardinality(Where(k, Alive(m))) + One(Head(i) = Alive(m))
      BY <1>1, WhereTail DEF Takes
    <2>2. Taken(s, m) <=> Head(i).message = m /\ Head(i).live
      BY DEF Taken, Takes
    <2>5. Head(i) = Alive(m) <=> Head(i).message = m /\ Head(i).live
      <3>1. PICK d \in Delivery : d = Head(i)
        BY <1>1
      <3>2. d = Alive(m) <=> d.message = m /\ d.live
        BY DEF Alive, Delivery
      <3> QED BY <3>1, <3>2
    <2>6. ~Taken(t, m)
      BY DEF Taken, Takes, Idle
    <2>3. One(Taken(s, m)) = One(Head(i) = Alive(m)) /\ One(Taken(t, m)) = 0
      BY <2>2, <2>5, <2>6 DEF One
    <2>4. Cardinality(Where(k, Alive(m))) \in Nat /\ One(Taken(s, m)) \in {0, 1}
          /\ One(Behind(h, m)) \in {0, 1}
      BY <1>2, KnownType DEF ProcTypes
    <2> QED BY <2>1, <2>3, <2>4 DEF Known, Takes
  <1> QED BY <1>2, <1>3 DEF Takes, Covers, Matches

\* A claim puts the delivery that reserve took behind it, and if there was another
\* one, nobody knows of that any more.
LEMMA ClaimsOK ==
  ASSUME NEW u, NEW i, NEW h, NEW t, NEW v, NEW k, NEW g, NEW s,
         ProcTypes(u, i, h, t), Covers(u, i, h, t), s \in TaskState,
         Claims(u, i, h, t, v, k, g, s)
  PROVE  /\ ProcTypes(v, k, g, s) /\ Covers(v, k, g, s)
         /\ Matches(u, i, h, t) /\ ~h[t.message.job].live => Matches(v, k, g, s)
  <1>1. t \in Claiming /\ v = u /\ k = i /\ s.pc # "claim"
    BY DEF Claims, ProcTypes, TaskState, Idle, Owning, Offering, Telling
  <1>2. PICK n \in Message : n = t.message
    BY <1>1 DEF Claiming
  <1>3. PICK c \in Hold : /\ g = [h EXCEPT ![n.job] = c]
                          /\ c.returns = n.returns /\ c.live = t.live
    <2>1. PICK l \in Nat : g = [h EXCEPT ![n.job] = [lease |-> l, returns |-> n.returns,
                                                     live |-> t.live]]
      BY <1>2 DEF Claims
    <2>2. [lease |-> l, returns |-> n.returns, live |-> t.live] \in Hold
      BY <1>1, <1>2 DEF Hold, Message, Claiming
    <2> QED BY <2>1, <2>2
  <1>4. n.job \in Jobs /\ h \in [Jobs -> Hold]
    BY DEF Message, ProcTypes
  <1>5. ProcTypes(v, k, g, s)
    BY <1>1, <1>3, <1>4 DEF ProcTypes
  <1>6. ASSUME NEW m \in Message
        PROVE  /\ Known(k, g, s, m) <= Known(i, h, t, m)
               /\ ~h[n.job].live => Known(k, g, s, m) = Known(i, h, t, m)
    <2>1. m.job \in Jobs /\ (m = n <=> m.job = n.job /\ m.returns = n.returns)
      BY DEF Message
    <2>2. g[m.job] = IF m.job = n.job THEN c ELSE h[m.job]
      BY <1>3, <1>4, <2>1
    <2>3. ~Taken(s, m) /\ (Taken(t, m) <=> m = n /\ t.live)
      BY <1>1, <1>2 DEF Taken, Claiming
    <2>4. /\ Cardinality(Where(i, Alive(m))) \in Nat
          /\ One(Taken(t, m)) \in {0, 1} /\ One(Behind(h, m)) \in {0, 1}
      BY KnownType DEF ProcTypes
    <2>5. One(Taken(s, m)) = 0
      BY <2>3 DEF One
    <2>6. CASE m.job # n.job
      <3>1. One(Behind(g, m)) = One(Behind(h, m)) /\ One(Taken(t, m)) = 0
        BY <2>1, <2>2, <2>3, <2>6 DEF Behind, One
      <3> QED BY <1>1, <2>4, <2>5, <3>1 DEF Known
    <2>7. CASE m.job = n.job
      <3>1. One(Behind(g, m)) = One(Taken(t, m))
        BY <1>3, <2>1, <2>2, <2>3, <2>7 DEF Behind, One
      <3>2. ~h[n.job].live => One(Behind(h, m)) = 0
        BY <2>7 DEF Behind, One
      <3> QED BY <1>1, <2>4, <2>5, <3>1, <3>2 DEF Known
    <2> QED BY <2>6, <2>7
  <1>7. \A m \in Message : /\ Known(k, g, s, m) \in Nat /\ Known(i, h, t, m) \in Nat
                           /\ u[m] \in Nat
    BY <1>5, KnownType DEF ProcTypes
  <1>8. Covers(v, k, g, s)
    BY <1>1, <1>6, <1>7 DEF Covers
  <1>9. Matches(u, i, h, t) /\ ~h[n.job].live => Matches(v, k, g, s)
    BY <1>1, <1>6 DEF Matches
  <1> QED BY <1>2, <1>5, <1>8, <1>9

LEMMA RefusesOK ==
  ASSUME NEW u, NEW i, NEW h, NEW t, NEW v, NEW k, NEW g, NEW s,
         ProcTypes(u, i, h, t), Covers(u, i, h, t), s \in TaskState,
         Refuses(u, i, h, t, v, k, g, s)
  PROVE  /\ ProcTypes(v, k, g, s) /\ Covers(v, k, g, s)
         /\ Matches(u, i, h, t) => Matches(v, k, g, s)
  <1>1. t \in Claiming /\ k = i /\ g = h /\ s.pc # "claim"
    BY DEF Refuses, ProcTypes, TaskState, Idle, Owning, Offering, Telling
  <1>2. t.message \in Message /\ t.live \in BOOLEAN /\ t.pc = "claim"
    BY <1>1 DEF Claiming
  <1>3. \A m \in Message : Taken(t, m) <=> t.live /\ m = t.message
    BY <1>2 DEF Taken
  <1>4. t.live => u[t.message] >= 1
    <2>1. t.live => One(Taken(t, t.message)) = 1
      BY <1>2, <1>3 DEF One
    <2>2. /\ Cardinality(Where(i, Alive(t.message))) \in Nat
          /\ One(Behind(h, t.message)) \in {0, 1} /\ u[t.message] \in Nat
      BY <1>2, KnownType DEF ProcTypes
    <2> QED BY <1>2, <2>1, <2>2 DEF Covers, Known
  <1>5. /\ v \in [Message -> Nat]
        /\ \A m \in Message : v[m] + One(t.live /\ m = t.message) = u[m]
    BY <1>2, <1>4, LessOne DEF Refuses, ProcTypes
  <1>6. ProcTypes(v, k, g, s)
    BY <1>1, <1>5 DEF ProcTypes
  <1>7. ASSUME NEW m \in Message
        PROVE  v[m] + Known(i, h, t, m) = u[m] + Known(k, g, s, m)
    <2>1. One(Taken(s, m)) = 0 /\ One(Taken(t, m)) = One(t.live /\ m = t.message)
      BY <1>1, <1>3 DEF One, Taken
    <2>2. /\ Cardinality(Where(i, Alive(m))) \in Nat /\ u[m] \in Nat /\ v[m] \in Nat
          /\ One(Taken(t, m)) \in {0, 1} /\ One(Behind(h, m)) \in {0, 1}
      BY <1>5, KnownType DEF ProcTypes
    <2>3. v[m] + One(Taken(t, m)) = u[m]
      BY <1>5, <2>1
    <2> QED BY <1>1, <2>1, <2>2, <2>3 DEF Known
  <1>8. k \in Seq(Delivery)
    BY <1>6 DEF ProcTypes
  <1> QED BY <1>5, <1>6, <1>7, <1>8, Balance

LEMMA DropsOK ==
  ASSUME NEW u, NEW i, NEW h, NEW t, NEW v, NEW k, NEW g, NEW s,
         ProcTypes(u, i, h, t), Covers(u, i, h, t), s \in TaskState,
         Drops(u, i, h, t, v, k, g, s)
  PROVE  ProcTypes(v, k, g, s) /\ Covers(v, k, g, s)
  <1>1. v = u /\ k = i /\ g = h /\ s.pc # "claim"
    BY DEF Drops
  <1>2. ProcTypes(v, k, g, s)
    BY <1>1 DEF ProcTypes
  <1>3. ASSUME NEW m \in Message PROVE v[m] >= Known(k, g, s, m)
    <2>1. One(Taken(s, m)) = 0
      BY <1>1 DEF One, Taken
    <2>2. /\ Cardinality(Where(i, Alive(m))) \in Nat /\ u[m] \in Nat
          /\ One(Taken(t, m)) \in {0, 1} /\ One(Behind(h, m)) \in {0, 1}
      BY KnownType DEF ProcTypes
    <2>3. u[m] >= Known(i, h, t, m)
      BY DEF Covers
    <2> QED BY <1>1, <2>1, <2>2, <2>3 DEF Known
  <1> QED BY <1>2, <1>3 DEF Covers

LEMMA NotHeldType == NotHeld \in Hold /\ ~NotHeld.live
  <1>1. NotHeld \in Hold
    BY DEF NotHeld, Hold
  <1>2. PICK no \in BOOLEAN : no = FALSE
    OBVIOUS
  <1>3. NotHeld = [lease |-> 0, returns |-> 0, live |-> no]
    BY <1>2 DEF NotHeld
  <1> QED BY <1>1, <1>2, <1>3

LEMMA ReleasesOK ==
  ASSUME NEW u, NEW i, NEW h, NEW t, NEW v, NEW k, NEW g, NEW s,
         ProcTypes(u, i, h, t), Covers(u, i, h, t), s \in TaskState,
         Releases(u, i, h, t, v, k, g, s)
  PROVE  /\ ProcTypes(v, k, g, s) /\ Covers(v, k, g, s)
         /\ Matches(u, i, h, t) => Matches(v, k, g, s)
  <1>1. PICK j \in Jobs : /\ v = [u EXCEPT ![Held(j, h[j])] = IF h[j].live THEN @ - 1 ELSE @]
                          /\ g = [h EXCEPT ![j] = NotHeld]
    BY DEF Releases
  <1>2. PICK n \in Message : n = Held(j, h[j]) /\ n.job = j /\ n.returns = h[j].returns
    <2>1. h[j] \in Hold
      BY DEF ProcTypes
    <2>2. PICK r \in 0..DeliveryLimit : r = h[j].returns
      BY <2>1 DEF Hold
    <2>3. Held(j, h[j]) = [job |-> j, returns |-> r]
      BY <2>2 DEF Held
    <2>4. [job |-> j, returns |-> r] \in Message
      BY DEF Message
    <2> QED BY <2>2, <2>3, <2>4
  <1>3. h \in [Jobs -> Hold] /\ h[j].live \in BOOLEAN /\ k = i
    BY DEF ProcTypes, Hold, Releases
  <1>4. \A m \in Message : /\ g[m.job] = IF m.job = j THEN NotHeld ELSE h[m.job]
                           /\ m = n <=> m.job = j /\ m.returns = h[j].returns
    BY <1>1, <1>2, <1>3 DEF Message
  <1>5. \A m \in Message : /\ m.job # j => (Behind(g, m) <=> Behind(h, m)) /\ m # n
                           /\ m.job = j => ~Behind(g, m) /\ (Behind(h, m) <=> h[j].live /\ m = n)
    BY <1>4, NotHeldType DEF Behind
  <1>6. h[j].live => u[n] >= 1
    <2>1. h[j].live => One(Behind(h, n)) = 1
      BY <1>2, <1>5 DEF One
    <2>2. /\ Cardinality(Where(i, Alive(n))) \in Nat
          /\ One(Taken(t, n)) \in {0, 1} /\ u[n] \in Nat
      BY KnownType DEF ProcTypes
    <2> QED BY <2>1, <2>2 DEF Covers, Known
  <1>7. /\ v \in [Message -> Nat]
        /\ \A m \in Message : v[m] + One(h[j].live /\ m = n) = u[m]
    BY <1>1, <1>2, <1>3, <1>6, LessOne DEF ProcTypes
  <1>8. ProcTypes(v, k, g, s)
    BY <1>1, <1>3, <1>7, NotHeldType DEF ProcTypes
  <1>9. ASSUME NEW m \in Message
        PROVE  v[m] + Known(i, h, t, m) = u[m] + Known(k, g, s, m)
    <2>1. One(Behind(h, m)) = One(Behind(g, m)) + One(h[j].live /\ m = n)
      BY <1>5 DEF One
    <2>2. One(Taken(s, m)) = One(Taken(t, m))
      BY TakenApace DEF Releases
    <2>3. /\ Cardinality(Where(i, Alive(m))) \in Nat /\ u[m] \in Nat /\ v[m] \in Nat
          /\ One(Taken(t, m)) \in {0, 1} /\ One(Behind(h, m)) \in {0, 1}
          /\ One(Behind(g, m)) \in {0, 1}
      BY <1>7, KnownType DEF ProcTypes
    <2>4. v[m] + One(h[j].live /\ m = n) = u[m] /\ One(h[j].live /\ m = n) \in {0, 1}
      BY <1>7 DEF One
    <2> QED BY <1>3, <2>1, <2>2, <2>3, <2>4 DEF Known
  <1>10. k \in Seq(Delivery)
    BY <1>8 DEF ProcTypes
  <1> QED BY <1>7, <1>8, <1>9, <1>10, Balance

LEMMA RetiresOK ==
  ASSUME NEW u, NEW i, NEW h, NEW t, NEW v, NEW k, NEW g, NEW s,
         ProcTypes(u, i, h, t), Covers(u, i, h, t), s \in TaskState,
         Retires(u, i, h, t, v, k, g, s)
  PROVE  /\ ProcTypes(v, k, g, s) /\ Covers(v, k, g, s)
         /\ Matches(u, i, h, t) => Matches(v, k, g, s)
  <1>1. PICK some \in SUBSET Jobs :
          /\ g = [j \in Jobs |-> IF j \in some THEN NotHeld ELSE h[j]]
          /\ v = [m \in Message |->
                    IF m.job \in some /\ m = Held(m.job, h[m.job]) /\ h[m.job].live
                    THEN u[m] - 1 ELSE u[m]]
    BY DEF Retires
  <1>2. k = i /\ s = t /\ h \in [Jobs -> Hold]
    BY DEF Retires, ProcTypes
  <1>3. \A m \in Message : m.job \in Jobs /\ (m = Held(m.job, h[m.job]) <=> m.returns = h[m.job].returns)
    BY DEF Message, Held
  <1>4. \A m \in Message : v[m] = IF m.job \in some /\ Behind(h, m) THEN u[m] - 1 ELSE u[m]
    BY <1>1, <1>3 DEF Behind
  <1>5. \A m \in Message : Behind(g, m) <=> m.job \notin some /\ Behind(h, m)
    BY <1>1, <1>3, NotHeldType DEF Behind
  <1>6. ASSUME NEW m \in Message
        PROVE  /\ v[m] \in Nat
               /\ v[m] + Known(i, h, t, m) = u[m] + Known(k, g, s, m)
    <2>1. /\ Cardinality(Where(i, Alive(m))) \in Nat /\ u[m] \in Nat
          /\ One(Taken(t, m)) \in {0, 1} /\ One(Behind(h, m)) \in {0, 1}
      BY KnownType DEF ProcTypes
    <2>2. u[m] >= Known(i, h, t, m)
      BY DEF Covers
    <2>3. CASE m.job \in some /\ Behind(h, m)
      <3>1. One(Behind(h, m)) = 1 /\ One(Behind(g, m)) = 0 /\ v[m] = u[m] - 1
        BY <1>4, <1>5, <2>3 DEF One
      <3> QED BY <1>2, <2>1, <2>2, <3>1 DEF Known
    <2>4. CASE ~(m.job \in some /\ Behind(h, m))
      <3>1. One(Behind(h, m)) = One(Behind(g, m)) /\ v[m] = u[m]
        BY <1>4, <1>5, <2>4 DEF One
      <3> QED BY <1>2, <2>1, <3>1 DEF Known
    <2> QED BY <2>3, <2>4
  <1>7. v \in [Message -> Nat]
    BY <1>1, <1>6
  <1>8. ProcTypes(v, k, g, s)
    <2>1. g \in [Jobs -> Hold]
      BY <1>1, <1>2, NotHeldType
    <2> QED BY <1>2, <1>7, <2>1 DEF ProcTypes
  <1>9. k \in Seq(Delivery) /\ \A m \in Message : v[m] + Known(i, h, t, m) = u[m] + Known(k, g, s, m)
    BY <1>6, <1>8 DEF ProcTypes
  <1> QED BY <1>7, <1>8, <1>9, Balance

LEMMA ClosesOK ==
  ASSUME NEW u, NEW i, NEW h, NEW t, NEW v, NEW k, NEW g, NEW s, s \in TaskState,
         Closes(u, i, h, t, v, k, g, s)
  PROVE  ProcTypes(v, k, g, s) /\ Covers(v, k, g, s) /\ Matches(v, k, g, s)
  <1>1. ProcTypes(v, k, g, s)
    BY DEF ProcTypes, Closes
  <1>2. ASSUME NEW m \in Message PROVE v[m] = 0 /\ Known(k, g, s, m) = 0
    <2>1. Where(k, Alive(m)) = {}
      BY DEF Closes, Where, Alive
    <2>2. m.job \in Jobs
      BY DEF Message
    <2>3. ~Taken(s, m) /\ ~Behind(g, m)
      BY <2>2 DEF Taken, Behind, Closes
    <2>4. Cardinality(Where(k, Alive(m))) = 0 /\ One(Taken(s, m)) = 0 /\ One(Behind(g, m)) = 0
      BY <2>1, <2>3, FS_EmptySet DEF One
    <2>5. v[m] = 0
      BY DEF Closes
    <2> QED BY <2>4, <2>5 DEF Known
  <1> QED BY <1>1, <1>2 DEF Covers, Matches

-----------------------------------------------------------------------------
(* The inductive invariant.                                                *)

ProducerState ==
  [pc : {"start", "done"}] \cup [pc : {"publish"}, job : Jobs, delay : BOOLEAN]
    \cup [pc : {"mark", "follow"}, job : Jobs]

SweepState ==
  {NoSweep} \cup [pc : {"lapsed", "unpublished"}, todo : SUBSET Jobs]
    \cup [pc : {"mark"}, todo : SUBSET Jobs, job : Jobs]

Types ==
  /\ work \in [Message -> Nat]
  /\ parked \subseteq [job : Jobs, after : Nat]
  /\ unacked \in [Procs -> [Message -> Nat]]
  /\ up \subseteq Procs
  /\ incoming \in [Procs -> Seq(Delivery)]
  /\ held \in [Procs -> [Jobs -> Hold]]
  /\ republished \in [Procs -> SUBSET Jobs]
  /\ task \in [Procs -> TaskState]
  /\ producer \in [Producers -> ProducerState]
  /\ sweep \in [Procs -> SweepState]
  /\ faults \in Nat

Covered == \A p \in Procs : Covers(unacked[p], incoming[p], held[p], task[p])

\* Where a consumer works under a lease, the table has drawn it.
HasLease(t) == t.pc \in {"work", "settle", "settle_publish", "publish"}

Leased == \A p \in Procs : HasLease(task[p]) => task[p].lease \in 1..minted[task[p].job]

\* No two consumers were given the same lease.
Apart ==
  \A p, q \in Procs :
    p # q /\ Working(p) /\ Working(q) /\ task[p].job = task[q].job
      => task[p].lease # task[q].lease

\* A producer reserves nothing.
Passive ==
  \A p \in Producers : task[p] = Idle /\ \A j \in Jobs : held[p][j] = NotHeld

IInv == /\ Table!IInv /\ Table!LogInv
        /\ Types /\ Covered /\ Leased /\ Apart /\ Passive

-----------------------------------------------------------------------------
(* Every step is one of the table's statements or leaves it alone.         *)

\* The two ways of naming a statement.
LEMMA SameStatements ==
  ASSUME NEW j, NEW l, NEW d
  PROVE  /\ Store!InsertOrGet(j, l, d) => Table!InsertOrGet(j, l, d)
         /\ Store!MarkPublished(j) => Table!MarkPublished(j)
         /\ Store!Cancel(j) => Table!Cancel(j)
         /\ Store!Claim(j) => Table!Claim(j)
         /\ Store!Extend(j, l) => Table!Extend(j, l)
         /\ Store!Ack(j, l) => Table!Ack(j, l)
         /\ Store!Nack(j, l, d) => Table!Nack(j, l, d)
         /\ Store!RetireLapsed => Table!RetireLapsed
         /\ Store!LeaseExpires(j) => Table!LeaseExpires(j)
         /\ Store!RunAfterPasses(j) => Table!RunAfterPasses(j)
  BY DEF Store!InsertOrGet, Store!MarkPublished, Store!Cancel, Store!Claim, Store!Extend,
         Store!Ack, Store!Nack, Store!RetireLapsed, Store!LeaseExpires, Store!RunAfterPasses,
         Table!InsertOrGet, Table!MarkPublished, Table!Cancel, Table!Claim, Table!Extend,
         Table!Ack, Table!Nack, Table!RetireLapsed, Table!LeaseExpires, Table!RunAfterPasses,
         Store!Write, Store!WriteAndRecord, Store!Recorded,
         Table!Write, Table!WriteAndRecord, Table!Recorded,
         Store!Exists, Store!Waiting, Store!Lapsed, Store!Claimable, Store!Retirable, Store!Fenced,
         Table!Exists, Table!Waiting, Table!Lapsed, Table!Claimable, Table!Retirable, Table!Fenced,
         Store!Inserted, Store!AbsentRow, Store!Delayed, Store!Claimed, Store!Extended,
         Store!Released, Store!Acked, Store!Nacked, Store!NackedState, Store!ReturnsToQueue,
         Store!CancelledRow, Store!Retired, Store!DeadlinePassed, Store!RunAfterPassed,
         Store!MarkedPublished,
         Table!Inserted, Table!AbsentRow, Table!Delayed, Table!Claimed, Table!Extended,
         Table!Released, Table!Acked, Table!Nacked, Table!NackedState, Table!ReturnsToQueue,
         Table!CancelledRow, Table!Retired, Table!DeadlinePassed, Table!RunAfterPassed,
         Table!MarkedPublished

\* Somebody published the job and is about to say so.
Marking(j) ==
  \/ \E p \in Producers : producer[p].pc = "mark" /\ producer[p].job = j
  \/ \E p \in Procs : task[p].pc = "mark" /\ task[p].job = j
  \/ \E p \in Procs : sweep[p].pc = "mark" /\ sweep[p].job = j

\* Somebody's nack runs, whether or not its answer comes back.
GivingBack(d) == \E p \in Workers : NackRow(p, d) \/ FinishFails(p, d)

\* The statement that a step runs, and under which lease.
Statement ==
  \/ UNCHANGED tableVars
  \/ Store!RetireLapsed
  \/ \E j \in Jobs : \/ Store!Claim(j) \/ Store!Cancel(j)
                     \/ Store!MarkPublished(j) /\ Marking(j)
                     \/ Store!LeaseExpires(j) \/ Store!RunAfterPasses(j)
                     \/ \E max \in Limits, d \in BOOLEAN : Store!InsertOrGet(j, max, d)
  \/ \E j \in Jobs : \E l \in 1..minted[j] :
       \/ Store!Extend(j, l) \/ Store!Ack(j, l)
       \/ \E d \in BOOLEAN : Store!Nack(j, l, d) /\ GivingBack(d)

LEMMA MintedType == ASSUME Table!IInv, NEW j \in Jobs PROVE minted[j] \in Nat
  BY DEF Table!IInv

\* What the tasks are at.
LEMMA TaskIs ==
  ASSUME NEW t \in TaskState
  PROVE  /\ t.pc = "claim" => t \in Claiming
         /\ t.pc \in {"work", "settle"} => t \in Owning
         /\ t.pc \in {"settle_publish", "publish"} => t \in Offering
         /\ t.pc = "mark" => t \in Telling
  BY DEF TaskState, Idle, Claiming, Owning, Offering, Telling

LEMMA WorkingIs ==
  ASSUME IInv, NEW p \in Procs, HasLease(task[p])
  PROVE  /\ task[p].job \in Jobs /\ task[p].lease \in 1..minted[task[p].job]
         /\ task[p].lease \in Nat \ {0}
  <1>1. task[p] \in TaskState /\ task[p].lease \in 1..minted[task[p].job]
    BY DEF IInv, Types, Leased
  <1>2. task[p] \in Owning \cup Offering
    BY <1>1, TaskIs DEF HasLease
  <1> QED BY <1>1, <1>2 DEF Owning, Offering

LEMMA ClaimingIs ==
  ASSUME IInv, NEW p \in Procs, task[p].pc = "claim"
  PROVE  /\ task[p].message \in Message /\ task[p].message.job \in Jobs
         /\ task[p].live \in BOOLEAN
  <1>1. task[p] \in Claiming
    BY TaskIs DEF IInv, Types
  <1> QED BY <1>1 DEF Claiming, Message

LEMMA TellingIs ==
  ASSUME IInv, NEW p \in Procs, task[p].pc = "mark"
  PROVE  task[p].job \in Jobs
  <1>1. task[p] \in Telling
    BY TaskIs DEF IInv, Types
  <1> QED BY <1>1 DEF Telling

LEMMA ProducerIs ==
  ASSUME IInv, NEW p \in Producers, producer[p].pc \in {"publish", "mark", "follow"}
  PROVE  /\ producer[p].job \in Jobs
         /\ producer[p].pc = "publish" => producer[p].delay \in BOOLEAN
  <1>1. producer[p] \in ProducerState
    BY DEF IInv, Types
  <1> QED BY <1>1 DEF ProducerState

LEMMA SweepIs ==
  ASSUME IInv, NEW p \in Procs, sweep[p].pc # "retire"
  PROVE  /\ sweep[p].todo \subseteq Jobs
         /\ sweep[p].pc = "mark" => sweep[p].job \in Jobs
  <1>1. sweep[p] \in SweepState
    BY DEF IInv, Types
  <1> QED BY <1>1 DEF SweepState, NoSweep

LEMMA StepIsStatement ==
  ASSUME IInv, Next
  PROVE  Statement
  <1>1. ASSUME NEW m \in parked, ParkingOver(m) PROVE Statement
    BY <1>1 DEF ParkingOver, Statement
  <1>2. ASSUME NEW p \in Procs,
               (\E m \in Message : Deliver(p, m)) \/ (\E j \in Jobs : QuietOver(p, j))
        PROVE  Statement
    BY <1>2 DEF Deliver, QuietOver, Statement
  <1>3. ASSUME NEW p \in Producers, Enqueueing(p) \/ GiveUp(p) PROVE Statement
    <2>1. CASE EnqueuePublish(p) \/ FollowEnds(p) \/ GiveUp(p)
               \/ \E j \in Jobs : EnqueueDuplicate(p, j)
      BY <2>1 DEF EnqueuePublish, FollowEnds, GiveUp, Close, EnqueueDuplicate, Statement
    <2>2. ASSUME NEW j \in Jobs, NEW max \in Limits, NEW delay \in Delays,
                 EnqueueInsert(p, j, max, delay)
          PROVE  Statement
      <3>1. delay \in BOOLEAN
        OBVIOUS
      <3> QED BY <2>2, <3>1 DEF EnqueueInsert, Statement
    <2>3. CASE EnqueueMark(p)
      <3>1. producer[p].job \in Jobs
        BY <2>3, ProducerIs DEF EnqueueMark
      <3> QED BY <2>3, <3>1 DEF EnqueueMark, Statement, Marking
    <2> QED BY <1>3, <2>1, <2>2, <2>3 DEF Enqueueing
  <1>4. ASSUME NEW p \in Workers, Consuming(p) PROVE Statement
    <2>1. CASE ReserveNext(p) \/ ReserveRefused(p) \/ SettleFinished(p) \/ NackPublish(p)
      BY <2>1 DEF ReserveNext, ReserveRefused, SettleFinished, NackPublish, Statement
    <2>2. CASE ReserveClaims(p)
      BY <2>2, ClaimingIs DEF ReserveClaims, Statement
    <2>3. CASE NackMark(p)
      BY <2>3, TellingIs DEF NackMark, Statement, Marking
    <2> QED BY <1>4, <2>1, <2>2, <2>3 DEF Consuming
  <1>5. ASSUME NEW p \in Workers, ExtendLease(p) \/ Finishing(p) PROVE Statement
    <2>1. Working(p) => task[p].job \in Jobs /\ task[p].lease \in 1..minted[task[p].job]
      BY WorkingIs DEF Working, HasLease
    <2>2. CASE ExtendLease(p)
      BY <2>1, <2>2 DEF ExtendLease, Statement
    <2>3. CASE AckRow(p)
      BY <2>1, <2>3 DEF AckRow, Statement
    <2>4. CASE DiscardStale(p)
      BY <2>4 DEF DiscardStale, Statement
    <2>5. ASSUME NEW delay \in Delays, NackRow(p, delay) PROVE Statement
      <3>1. delay \in BOOLEAN
        OBVIOUS
      <3>2. GivingBack(delay)
        BY <2>5 DEF GivingBack
      <3> QED BY <2>1, <2>5, <3>1, <3>2 DEF NackRow, Statement
    <2> QED BY <1>5, <2>2, <2>3, <2>4, <2>5 DEF Finishing
  <1>6. ASSUME NEW p \in Procs, Maintaining(p) PROVE Statement
    <2>1. CASE SweepRetire(p)
      BY <2>1 DEF SweepRetire, Statement
    <2>2. CASE SweepFindOrphans(p) \/ \E j \in Jobs : SweepLapsed(p, j) \/ SweepPublish(p, j)
      BY <2>2 DEF SweepFindOrphans, SweepLapsed, SweepPublish, Statement
    <2>3. CASE SweepMark(p)
      <3>1. sweep[p].job \in Jobs
        BY <2>3, SweepIs DEF SweepMark, Sweeping
      <3> QED BY <2>3, <3>1 DEF SweepMark, Sweeping, Statement, Marking
    <2> QED BY <1>6, <2>1, <2>2, <2>3 DEF Maintaining
  <1>7. ASSUME NEW p \in Procs, Failing(p) PROVE Statement
    <2>1. CASE SweepFails(p) \/ Crash(p) \/ Blip(p)
      BY <2>1 DEF SweepFails, Crash, Blip, Statement
    <2>2. CASE SpawnFails(p) \/ NackPublishFails(p)
      BY <2>2 DEF SpawnFails, NackPublishFails, Statement
    <2>3. CASE ReserveFails(p)
      BY <2>3, ClaimingIs DEF ReserveFails, Statement
    <2>4. ASSUME p \in Workers, NEW delay \in Delays, FinishFails(p, delay) PROVE Statement
      <3>1. delay \in BOOLEAN
        OBVIOUS
      <3>2. task[p].job \in Jobs /\ task[p].lease \in 1..minted[task[p].job]
        BY <2>4, WorkingIs DEF FinishFails, Working, HasLease
      <3>3. GivingBack(delay)
        BY <2>4 DEF GivingBack
      <3> QED BY <2>4, <3>1, <3>2, <3>3 DEF FinishFails, Statement
    <2> QED BY <1>7, <2>1, <2>2, <2>3, <2>4 DEF Failing
  <1>8. ASSUME NEW j \in Jobs, ClientCancels(j) \/ Clock(j) PROVE Statement
    BY <1>8 DEF ClientCancels, Clock, Statement
  <1> QED BY <1>1, <1>2, <1>3, <1>4, <1>5, <1>6, <1>7, <1>8 DEF Next

LEMMA TableStep ==
  ASSUME IInv, [Next]_vars
  PROVE  /\ [Table!Next]_(Table!vars)
         /\ Table!IInv' /\ Table!LogInv'
         /\ \A j \in Jobs : minted'[j] \in Nat /\ minted'[j] >= minted[j]
  <1>1. UNCHANGED tableVars => UNCHANGED Table!vars
    BY DEF tableVars, Table!vars
  <1>2. Statement => [Table!Next]_(Table!vars)
    BY <1>1, SameStatements DEF Statement, Table!Next, Table!JobStep
  <1>3. [Table!Next]_(Table!vars)
    BY <1>1, <1>2, StepIsStatement DEF vars
  <1>4. Table!StoreAssumption
    BY DEF QueueAssumption, Table!StoreAssumption
  <1>5. Table!IInv' /\ Table!LogInv'
    BY <1>3, <1>4, Table!InvInductive, Table!LogInductive DEF IInv
  <1>6. Statement => minted' = minted \/ \E j \in Jobs : minted' = [minted EXCEPT ![j] = @ + 1]
    BY DEF Statement, tableVars, Store!RetireLapsed, Store!Claim, Store!Cancel, Store!MarkPublished,
           Store!LeaseExpires, Store!RunAfterPasses, Store!InsertOrGet, Store!Extend, Store!Ack,
           Store!Nack, Store!Write, Store!WriteAndRecord
  <1>7. minted' = minted \/ \E j \in Jobs : minted' = [minted EXCEPT ![j] = @ + 1]
    BY <1>6, StepIsStatement DEF vars, tableVars
  <1>8. \A j \in Jobs : minted'[j] \in Nat /\ minted'[j] >= minted[j]
    BY <1>7, MintedType DEF IInv, Table!IInv
  <1> QED BY <1>3, <1>5, <1>8

-----------------------------------------------------------------------------
(* What each step does to the deliveries of a process.                     *)

Still == UNCHANGED <<unacked, incoming, held, task>>

\* A step of p leaves the channels and the memory of the others alone.
Alone(p) ==
  /\ \A q \in Procs \ {p} : /\ unacked'[q] = unacked[q] /\ incoming'[q] = incoming[q]
                            /\ held'[q] = held[q] /\ task'[q] = task[q]
  /\ unacked' = [q \in Procs |-> unacked'[q]]
  /\ incoming' = [q \in Procs |-> incoming'[q]]
  /\ held' = [q \in Procs |-> held'[q]]
  /\ task' = [q \in Procs |-> task'[q]]

\* The steps that keep what the broker counts and what is known equal.
Fair(u, i, h, t, v, k, g, s) ==
  \/ Stays(u, i, h, t, v, k, g, s) \/ Delivers(u, i, h, t, v, k, g, s)
  \/ Takes(u, i, h, t, v, k, g, s) \/ Refuses(u, i, h, t, v, k, g, s)
  \/ Releases(u, i, h, t, v, k, g, s) \/ Retires(u, i, h, t, v, k, g, s)
  \/ Closes(u, i, h, t, v, k, g, s)

Fairly(p) == /\ Alone(p) /\ task'[p] \in TaskState
             /\ Fair(unacked[p], incoming[p], held[p], task[p],
                     unacked'[p], incoming'[p], held'[p], task'[p])

LEMMA DeliverShape ==
  ASSUME IInv, NEW p \in Procs, NEW m \in Message, Deliver(p, m)
  PROVE  Fairly(p)
  <1>1. Alone(p) /\ task'[p] \in TaskState
    BY DEF IInv, Types, Deliver, Alone
  <1>2. /\ unacked'[p] = [unacked[p] EXCEPT ![m] = @ + 1]
        /\ incoming'[p] = Append(incoming[p], Alive(m))
        /\ held'[p] = held[p] /\ task'[p] = task[p]
    BY DEF IInv, Types, Deliver, Alive
  <1>3. Delivers(unacked[p], incoming[p], held[p], task[p],
                 unacked'[p], incoming'[p], held'[p], task'[p])
    BY <1>2 DEF Delivers
  <1> QED BY <1>1, <1>3 DEF Fairly, Fair

LEMMA TakeShape ==
  ASSUME IInv, NEW p \in Procs, ReserveNext(p)
  PROVE  Fairly(p)
  <1> DEFINE s == [pc |-> "claim", message |-> Head(incoming[p]).message,
                   live |-> Head(incoming[p]).live]
  <1>1. s \in TaskState
    <2>1. incoming[p] \in Seq(Delivery) /\ incoming[p] # <<>>
      BY DEF IInv, Types, ReserveNext
    <2>2. PICK d \in Delivery : d = Head(incoming[p])
      BY <2>1
    <2>3. [pc |-> "claim", message |-> d.message, live |-> d.live] \in Claiming
      BY DEF Claiming, Delivery
    <2> QED BY <2>2, <2>3 DEF TaskState
  <1>2. /\ incoming'[p] = Tail(incoming[p]) /\ task'[p] = s
        /\ unacked'[p] = unacked[p] /\ held'[p] = held[p]
        /\ task[p] = Idle /\ incoming[p] # <<>>
    BY DEF IInv, Types, ReserveNext, SetTask, brokerVars
  <1>3. Alone(p)
    BY DEF IInv, Types, ReserveNext, SetTask, brokerVars, Alone
  <1> HIDE DEF s
  <1>4. Takes(unacked[p], incoming[p], held[p], task[p],
              unacked'[p], incoming'[p], held'[p], task'[p])
    BY <1>2 DEF Takes, s
  <1> QED BY <1>1, <1>2, <1>3, <1>4 DEF Fairly, Fair

LEMMA RefuseShape ==
  ASSUME IInv, NEW p \in Procs, ReserveRefused(p)
  PROVE  Fairly(p)
  <1>1. PICK m \in Message : m = task[p].message
    BY ClaimingIs DEF ReserveRefused
  <1>2. Alone(p)
    BY <1>1 DEF IInv, Types, ReserveRefused, Settle, SetTask, localVars, Alone
  <1>3. /\ incoming'[p] = incoming[p] /\ held'[p] = held[p]
        /\ task[p].pc = "claim" /\ task'[p] = Idle
    BY DEF IInv, Types, ReserveRefused, SetTask, localVars
  <1>4. unacked'[p] = [unacked[p] EXCEPT ![m] = IF task[p].live THEN @ - 1 ELSE @]
    BY <1>1 DEF IInv, Types, ReserveRefused, Settle
  <1>5. Refuses(unacked[p], incoming[p], held[p], task[p],
                unacked'[p], incoming'[p], held'[p], task'[p])
    BY <1>1, <1>3, <1>4 DEF Refuses, Idle
  <1> QED BY <1>2, <1>3, <1>5 DEF Fairly, Fair, TaskState

\* A release, or nothing held to be released.
LEMMA ReleaseShape ==
  ASSUME IInv, NEW p \in Procs, NEW j \in Jobs, NEW l, Release(p, j, l),
         incoming' = incoming, NEW s \in TaskState, task' = [task EXCEPT ![p] = s],
         Apace(task[p], s)
  PROVE  Fairly(p)
  <1>1. /\ task'[p] = s /\ incoming'[p] = incoming[p]
        /\ \A q \in Procs \ {p} : task'[q] = task[q]
        /\ task' = [q \in Procs |-> task'[q]] /\ incoming' = [q \in Procs |-> incoming'[q]]
    BY DEF IInv, Types
  <1>2. CASE UNCHANGED <<held, unacked>>
    <2>1. Alone(p)
      BY <1>1, <1>2 DEF IInv, Types, Alone
    <2> QED BY <1>1, <1>2, <2>1 DEF Fairly, Fair, Stays
  <1>3. CASE /\ held' = [held EXCEPT ![p][j] = NotHeld]
             /\ Settle(p, Held(j, held[p][j]), held[p][j].live)
    <2>1. PICK n : n = Held(j, held[p][j])
      OBVIOUS
    <2>2. /\ held'[p] = [held[p] EXCEPT ![j] = NotHeld]
          /\ unacked'[p] = [unacked[p] EXCEPT ![n] = IF held[p][j].live THEN @ - 1 ELSE @]
      BY <1>3, <2>1 DEF IInv, Types, Settle
    <2>3. Alone(p)
      BY <1>1, <1>3, <2>1 DEF IInv, Types, Alone, Settle
    <2>4. Releases(unacked[p], incoming[p], held[p], task[p],
                   unacked'[p], incoming'[p], held'[p], task'[p])
      BY <1>1, <2>1, <2>2 DEF Releases
    <2> QED BY <1>1, <2>3, <2>4 DEF Fairly, Fair
  <1> QED BY <1>2, <1>3 DEF Release

\* A step of a task that touches no delivery.
LEMMA TaskShape ==
  ASSUME IInv, NEW p \in Procs, NEW s \in TaskState, task' = [task EXCEPT ![p] = s],
         UNCHANGED <<unacked, incoming, held>>, Apace(task[p], s)
  PROVE  Fairly(p)
  <1>1. Alone(p) /\ task'[p] = s
    BY DEF IInv, Types, Alone
  <1> QED BY <1>1 DEF Fairly, Fair, Stays

LEMMA RetireShape ==
  ASSUME IInv, NEW p \in Procs, SweepRetire(p)
  PROVE  Fairly(p)
  <1>1. PICK some \in SUBSET Jobs : some = {j \in Found(Retirable) : held[p][j] # NotHeld}
    BY DEF Found
  <1>2. /\ held' = [held EXCEPT ![p] = [j \in Jobs |->
                      IF j \in some THEN NotHeld ELSE held[p][j]]]
        /\ unacked' = [unacked EXCEPT ![p] = [m \in Message |->
                         IF /\ m.job \in some
                            /\ m = Held(m.job, held[p][m.job]) /\ held[p][m.job].live
                         THEN unacked[p][m] - 1 ELSE unacked[p][m]]]
        /\ UNCHANGED <<incoming, task>>
    BY <1>1 DEF SweepRetire, IInv, Types
  <1>3. Alone(p)
    BY <1>2 DEF IInv, Types, Alone
  <1>4. Retires(unacked[p], incoming[p], held[p], task[p],
                unacked'[p], incoming'[p], held'[p], task'[p])
    BY <1>2 DEF Retires, IInv, Types
  <1> QED BY <1>2, <1>3, <1>4 DEF Fairly, Fair, IInv, Types

\* The channel of p closes: by a producer that is done, a crash, or a reconnect.
LEMMA CloseShape ==
  ASSUME IInv, NEW p \in Producers, Close(p)
  PROVE  Fairly(p)
  <1>1. /\ unacked' = [unacked EXCEPT ![p] = [m \in Message |-> 0]]
        /\ incoming' = [incoming EXCEPT ![p] = <<>>]
        /\ UNCHANGED <<held, task>>
    BY DEF Close, Requeue
  <1>2. Alone(p)
    BY <1>1 DEF IInv, Types, Alone
  <1>3. /\ unacked'[p] = [m \in Message |-> 0] /\ incoming'[p] = <<>>
        /\ held'[p] = held[p] /\ task'[p] = Idle
    BY <1>1 DEF IInv, Types, Passive
  <1>4. /\ held[p] \in [Jobs -> Hold] /\ \A j \in Jobs : ~held[p][j].live
    BY NotHeldType DEF IInv, Types, Passive
  <1>5. Closes(unacked[p], incoming[p], held[p], task[p],
               unacked'[p], incoming'[p], held'[p], task'[p])
    BY <1>3, <1>4 DEF Closes, Idle
  <1> QED BY <1>2, <1>3, <1>5 DEF Fairly, Fair, TaskState

LEMMA CrashShape ==
  ASSUME IInv, NEW p \in Procs, Crash(p)
  PROVE  Fairly(p)
  <1>1. /\ unacked' = [unacked EXCEPT ![p] = [m \in Message |-> 0]]
        /\ incoming' = [incoming EXCEPT ![p] = <<>>]
        /\ held' = [held EXCEPT ![p] = [j \in Jobs |-> NotHeld]]
        /\ task' = [task EXCEPT ![p] = Idle]
    BY DEF Crash, Requeue, SetTask
  <1>2. Alone(p)
    BY <1>1 DEF IInv, Types, Alone
  <1>3. /\ unacked'[p] = [m \in Message |-> 0] /\ incoming'[p] = <<>>
        /\ held'[p] = [j \in Jobs |-> NotHeld] /\ task'[p] = Idle
    BY <1>1 DEF IInv, Types
  <1>4. Closes(unacked[p], incoming[p], held[p], task[p],
               unacked'[p], incoming'[p], held'[p], task'[p])
    BY <1>3, NotHeldType DEF Closes, Idle
  <1> QED BY <1>2, <1>3, <1>4 DEF Fairly, Fair, TaskState

\* A record of which the broker has taken the delivery back.
LEMMA NoLonger ==
  /\ \A d \in Delivery : /\ [d EXCEPT !.live = FALSE] \in Delivery
                         /\ ~[d EXCEPT !.live = FALSE].live
  /\ \A c \in Hold : /\ [c EXCEPT !.live = FALSE] \in Hold
                     /\ ~[c EXCEPT !.live = FALSE].live
                     /\ [c EXCEPT !.live = FALSE].lease = c.lease
                     /\ c = NotHeld => [c EXCEPT !.live = FALSE] = NotHeld
  /\ \A t \in Claiming : /\ [t EXCEPT !.live = FALSE] \in Claiming
                         /\ ~[t EXCEPT !.live = FALSE].live
  <1>1. PICK no \in BOOLEAN : no = FALSE
    OBVIOUS
  <1>2. ASSUME NEW d \in Delivery
        PROVE  [d EXCEPT !.live = FALSE] \in Delivery /\ ~[d EXCEPT !.live = FALSE].live
    <2>1. [d EXCEPT !.live = no] \in Delivery /\ [d EXCEPT !.live = no].live = no
      BY DEF Delivery
    <2> QED BY <1>1, <2>1
  <1>3. ASSUME NEW c \in Hold
        PROVE  /\ [c EXCEPT !.live = FALSE] \in Hold /\ ~[c EXCEPT !.live = FALSE].live
               /\ [c EXCEPT !.live = FALSE].lease = c.lease
               /\ c = NotHeld => [c EXCEPT !.live = FALSE] = NotHeld
    <2>1. /\ [c EXCEPT !.live = no] \in Hold /\ [c EXCEPT !.live = no].live = no
          /\ [c EXCEPT !.live = no].lease = c.lease
          /\ c.live = no => [c EXCEPT !.live = no] = c
      BY DEF Hold
    <2>2. NotHeld = [lease |-> 0, returns |-> 0, live |-> no]
      BY <1>1 DEF NotHeld
    <2>3. c = NotHeld => c.live = no
      BY <2>2
    <2> QED BY <1>1, <2>1, <2>3
  <1>4. ASSUME NEW t \in Claiming
        PROVE  [t EXCEPT !.live = FALSE] \in Claiming /\ ~[t EXCEPT !.live = FALSE].live
    <2>1. [t EXCEPT !.live = no] \in Claiming /\ [t EXCEPT !.live = no].live = no
      BY DEF Claiming
    <2> QED BY <1>1, <2>1
  <1> QED BY <1>2, <1>3, <1>4

LEMMA BlipShape ==
  ASSUME IInv, NEW p \in Procs, Blip(p)
  PROVE  Fairly(p)
  <1> DEFINE k == [n \in DOMAIN incoming[p] |-> [incoming[p][n] EXCEPT !.live = FALSE]]
             g == [j \in Jobs |-> [held[p][j] EXCEPT !.live = FALSE]]
             s == IF task[p].pc = "claim" THEN [task[p] EXCEPT !.live = FALSE] ELSE task[p]
  <1>1. /\ unacked' = [unacked EXCEPT ![p] = [m \in Message |-> 0]]
        /\ incoming' = [incoming EXCEPT ![p] = k]
        /\ held' = [held EXCEPT ![p] = g]
        /\ task' = [task EXCEPT ![p] = s]
    BY DEF Blip, Requeue, SetTask, IInv, Types
  <1>2. /\ incoming[p] \in Seq(Delivery) /\ held[p] \in [Jobs -> Hold]
        /\ task[p] \in TaskState
    BY DEF IInv, Types
  <1>3. k \in Seq(Delivery) /\ \A n \in DOMAIN k : ~k[n].live
    <2>1. /\ DOMAIN incoming[p] = 1..Len(incoming[p]) /\ Len(incoming[p]) \in Nat
          /\ \A n \in 1..Len(incoming[p]) : incoming[p][n] \in Delivery
      BY <1>2
    <2>2. \A n \in 1..Len(incoming[p]) : k[n] \in Delivery /\ ~k[n].live
      BY <2>1, NoLonger
    <2>3. k = [n \in 1..Len(incoming[p]) |-> k[n]]
      BY <2>1
    <2> HIDE DEF k
    <2>4. PICK l \in Nat : l = Len(incoming[p])
      BY <2>1
    <2>5. k \in [1..l -> Delivery] /\ DOMAIN k = 1..l
      BY <2>2, <2>3, <2>4
    <2>6. k \in Seq(Delivery)
      BY <2>5
    <2> QED BY <2>2, <2>4, <2>5, <2>6
  <1>4. g \in [Jobs -> Hold] /\ \A j \in Jobs : ~g[j].live
    <2>1. \A j \in Jobs : g[j] \in Hold /\ ~g[j].live
      BY <1>2, NoLonger
    <2> QED BY <2>1
  <1>5. s \in TaskState /\ (s.pc = "claim" => ~s.live)
    <2>1. CASE task[p].pc = "claim"
      <3>1. task[p] \in Claiming
        BY <1>2, <2>1, TaskIs
      <3>2. s \in Claiming /\ ~s.live
        BY <2>1, <3>1, NoLonger
      <3> QED BY <3>2 DEF TaskState
    <2>2. CASE task[p].pc # "claim"
      BY <1>2, <2>2
    <2> QED BY <2>1, <2>2
  <1> HIDE DEF k, g, s
  <1>6. Alone(p)
    BY <1>1 DEF IInv, Types, Alone
  <1>7. /\ unacked'[p] = [m \in Message |-> 0] /\ incoming'[p] = k
        /\ held'[p] = g /\ task'[p] = s
    BY <1>1 DEF IInv, Types
  <1>8. Closes(unacked[p], incoming[p], held[p], task[p],
               unacked'[p], incoming'[p], held'[p], task'[p])
    BY <1>3, <1>4, <1>5, <1>7 DEF Closes
  <1> QED BY <1>5, <1>6, <1>7, <1>8 DEF Fairly, Fair

\* The two steps after which the broker may count more than is known: a claim that
\* takes the place of another that is held, and a claim that raises.
Placing(p) ==
  /\ Alone(p) /\ task'[p] \in TaskState
  /\ Claims(unacked[p], incoming[p], held[p], task[p],
            unacked'[p], incoming'[p], held'[p], task'[p])

Dropping(p) ==
  /\ Alone(p) /\ task'[p] \in TaskState
  /\ Drops(unacked[p], incoming[p], held[p], task[p],
           unacked'[p], incoming'[p], held'[p], task'[p])

LEMMA ClaimShape ==
  ASSUME IInv, NEW p \in Procs, ReserveClaims(p)
  PROVE  Placing(p)
  <1>1. PICK m \in Message : m = task[p].message
    BY ClaimingIs DEF ReserveClaims
  <1>2. PICK l \in Nat \ {0} : l = minted[m.job] + 1
    BY MintedType DEF IInv, Message
  <1>3. PICK c : c = [lease |-> l, returns |-> m.returns, live |-> task[p].live]
    OBVIOUS
  <1>4. PICK s \in TaskState : s = [pc |-> "work", job |-> m.job, lease |-> l]
    <2>1. [pc |-> "work", job |-> m.job, lease |-> l] \in Owning
      BY DEF Owning, Message
    <2> QED BY <2>1 DEF TaskState
  <1>5. /\ held' = [held EXCEPT ![p][m.job] = c]
        /\ task' = [task EXCEPT ![p] = s]
        /\ UNCHANGED <<unacked, incoming>> /\ task[p].pc = "claim"
    BY <1>1, <1>2, <1>3, <1>4 DEF ReserveClaims, SetTask, brokerVars
  <1>6. Alone(p)
    BY <1>5 DEF IInv, Types, Alone
  <1>7. /\ held'[p] = [held[p] EXCEPT ![m.job] = c] /\ task'[p] = s
        /\ unacked'[p] = unacked[p] /\ incoming'[p] = incoming[p]
    BY <1>5 DEF IInv, Types
  <1>8. s.pc # "claim"
    BY <1>4
  <1>9. Claims(unacked[p], incoming[p], held[p], task[p],
               unacked'[p], incoming'[p], held'[p], task'[p])
    BY <1>1, <1>3, <1>5, <1>7, <1>8 DEF Claims
  <1> QED BY <1>6, <1>7, <1>9 DEF Placing

LEMMA DropShape ==
  ASSUME IInv, NEW p \in Procs, ReserveFails(p)
  PROVE  Dropping(p)
  <1>1. /\ task' = [task EXCEPT ![p] = Idle]
        /\ UNCHANGED <<unacked, incoming, held>> /\ task[p].pc = "claim"
    BY DEF ReserveFails, SetTask, brokerVars, localVars
  <1>2. Alone(p) /\ task'[p] = Idle
    BY <1>1 DEF IInv, Types, Alone
  <1> QED BY <1>1, <1>2 DEF Dropping, Drops, Idle, TaskState

\* What a finish, or a failure of it, leaves the task at.
LEMMA NextTask ==
  ASSUME IInv, NEW p \in Procs, HasLease(task[p]), NEW delay \in BOOLEAN
  PROVE  /\ [pc |-> "settle", job |-> task[p].job, lease |-> task[p].lease] \in TaskState
         /\ [pc |-> "settle_publish", job |-> task[p].job, lease |-> task[p].lease,
             delay |-> delay] \in TaskState
         /\ [pc |-> "mark", job |-> task[p].job] \in TaskState
         /\ task[p].pc = "settle_publish" =>
              /\ [task[p] EXCEPT !.pc = "publish"] \in Offering
              /\ [task[p] EXCEPT !.pc = "publish"].pc = "publish"
              /\ [task[p] EXCEPT !.pc = "publish"].job = task[p].job
              /\ [task[p] EXCEPT !.pc = "publish"].lease = task[p].lease
              /\ [task[p] EXCEPT !.pc = "publish"].delay = task[p].delay
  <1>1. task[p].job \in Jobs /\ task[p].lease \in Nat \ {0}
    BY WorkingIs
  <1>2. [pc |-> "settle", job |-> task[p].job, lease |-> task[p].lease] \in Owning
    BY <1>1 DEF Owning
  <1>3. [pc |-> "settle_publish", job |-> task[p].job, lease |-> task[p].lease,
         delay |-> delay] \in Offering
    BY <1>1 DEF Offering
  <1>4. [pc |-> "mark", job |-> task[p].job] \in Telling
    BY <1>1 DEF Telling
  <1>5. ASSUME task[p].pc = "settle_publish"
        PROVE  /\ [task[p] EXCEPT !.pc = "publish"] \in Offering
               /\ [task[p] EXCEPT !.pc = "publish"].pc = "publish"
               /\ [task[p] EXCEPT !.pc = "publish"].job = task[p].job
               /\ [task[p] EXCEPT !.pc = "publish"].lease = task[p].lease
               /\ [task[p] EXCEPT !.pc = "publish"].delay = task[p].delay
    <2>1. task[p] \in Offering
      BY <1>5, TaskIs DEF IInv, Types
    <2> QED BY <2>1 DEF Offering
  <1> QED BY <1>2, <1>3, <1>4, <1>5 DEF TaskState

LEMMA TaskShapes ==
  ASSUME IInv, NEW p \in Procs,
         \/ SpawnFails(p) \/ AckRow(p) \/ NackPublish(p) \/ NackPublishFails(p) \/ NackMark(p)
         \/ \E delay \in Delays : NackRow(p, delay) \/ FinishFails(p, delay)
  PROVE  Fairly(p)
  <1>1. UNCHANGED <<unacked, incoming, held>> /\ task[p].pc # "claim"
    BY DEF SpawnFails, AckRow, NackPublish, NackPublishFails, NackMark, NackRow, FinishFails,
           Working, brokerVars, localVars
  <1>2. \E s \in TaskState : s.pc # "claim" /\ task' = [task EXCEPT ![p] = s]
    <2>1. Idle \in TaskState /\ Idle.pc # "claim"
      BY DEF TaskState, Idle
    <2>2. CASE SpawnFails(p) \/ NackPublishFails(p) \/ NackMark(p)
      BY <2>1, <2>2 DEF SpawnFails, NackPublishFails, NackMark, SetTask
    <2>3. CASE NackPublish(p)
      BY <2>3, NextTask DEF NackPublish, SetTask, HasLease
    <2>4. CASE AckRow(p)
      BY <2>4, NextTask DEF AckRow, SetTask, HasLease, Working
    <2>5. ASSUME NEW delay \in Delays, FinishFails(p, delay)
          PROVE  \E s \in TaskState : s.pc # "claim" /\ task' = [task EXCEPT ![p] = s]
      BY <2>5, NextTask DEF FinishFails, SetTask, HasLease, Working
    <2>6. ASSUME NEW delay \in Delays, NackRow(p, delay)
          PROVE  \E s \in TaskState : s.pc # "claim" /\ task' = [task EXCEPT ![p] = s]
      <3>1. delay \in BOOLEAN
        OBVIOUS
      <3>2. \/ task' = [task EXCEPT ![p] = [pc |-> "settle", job |-> task[p].job,
                                            lease |-> task[p].lease]]
            \/ task' = [task EXCEPT ![p] = [pc |-> "settle_publish", job |-> task[p].job,
                                            lease |-> task[p].lease, delay |-> delay]]
        BY <2>6 DEF NackRow, SetTask
      <3> QED BY <2>6, <3>1, <3>2, NextTask DEF NackRow, HasLease, Working
    <2> QED BY <2>2, <2>3, <2>4, <2>5, <2>6
  <1> QED BY <1>1, <1>2, TaskShape DEF Apace

LEMMA ReleaseShapes ==
  ASSUME IInv, NEW p \in Procs,
         \/ DiscardStale(p) \/ SettleFinished(p) \/ SweepFails(p)
         \/ \E j \in Jobs : SweepLapsed(p, j)
  PROVE  Fairly(p)
  <1>1. Idle \in TaskState /\ Idle.pc # "claim"
    BY DEF TaskState, Idle
  <1>2. task[p] \in TaskState /\ task = [task EXCEPT ![p] = task[p]]
    BY DEF IInv, Types
  <1>3. CASE DiscardStale(p)
    <2>1. Working(p) /\ task[p].job \in Jobs
      BY <1>3, WorkingIs DEF DiscardStale, Working, HasLease
    <2> QED BY <1>1, <1>3, <2>1, ReleaseShape DEF DiscardStale, SetTask, Working, Apace
  <1>4. CASE SettleFinished(p)
    <2>1. task[p].pc \in {"settle", "settle_publish"} /\ task[p].job \in Jobs
      BY <1>4, WorkingIs DEF SettleFinished, HasLease
    <2>2. PICK s \in TaskState :
             /\ s.pc # "claim"
             /\ s = IF task[p].pc = "settle" THEN Idle ELSE [task[p] EXCEPT !.pc = "publish"]
      <3>1. CASE task[p].pc = "settle"
        BY <1>1, <3>1
      <3>2. CASE task[p].pc = "settle_publish"
        BY <3>2, NextTask DEF HasLease, TaskState
      <3> QED BY <2>1, <3>1, <3>2
    <2>3. /\ task' = [task EXCEPT ![p] = s] /\ Release(p, task[p].job, task[p].lease)
          /\ incoming' = incoming
      BY <1>4, <2>2 DEF SettleFinished, SetTask
    <2> QED BY <2>1, <2>2, <2>3, ReleaseShape DEF Apace
  <1>5. ASSUME NEW j \in Jobs, SweepLapsed(p, j) PROVE Fairly(p)
    BY <1>2, <1>5, ReleaseShape DEF SweepLapsed, Apace
  <1>6. CASE SweepFails(p)
    <2>1. CASE UNCHANGED <<held, unacked>>
      BY <1>2, <1>6, <2>1, TaskShape DEF SweepFails, Apace
    <2>2. ASSUME NEW j \in sweep[p].todo, sweep[p].pc = "lapsed", Release(p, j, NoLease)
          PROVE  Fairly(p)
      <3>1. j \in Jobs
        BY <2>2, SweepIs
      <3> QED BY <1>2, <1>6, <2>2, <3>1, ReleaseShape DEF SweepFails, Apace
    <2> QED BY <1>6, <2>1, <2>2 DEF SweepFails
  <1> QED BY <1>3, <1>4, <1>5, <1>6

LEMMA NextShapes ==
  ASSUME IInv, Next
  PROVE  \/ Still
         \/ \E p \in Procs : \/ Fairly(p)
                             \/ ReserveClaims(p) /\ Placing(p)
                             \/ ReserveFails(p) /\ Dropping(p)
  <1>1. ASSUME NEW m \in parked, ParkingOver(m) PROVE Still
    BY <1>1 DEF ParkingOver, localVars, Still
  <1>2. ASSUME NEW p \in Procs, NEW j \in Jobs, QuietOver(p, j) PROVE Still
    BY <1>2 DEF QuietOver, brokerVars, Still
  <1>3. ASSUME NEW p \in Producers, Enqueueing(p) \/ GiveUp(p) PROVE Still \/ Fairly(p)
    BY <1>3, CloseShape DEF Enqueueing, EnqueueInsert, EnqueueDuplicate, EnqueuePublish,
       EnqueueMark, FollowEnds, GiveUp, brokerVars, localVars, Still
  <1>4. ASSUME NEW p \in Workers, Consuming(p)
        PROVE  Fairly(p) \/ (ReserveClaims(p) /\ Placing(p))
    BY <1>4, TakeShape, ClaimShape, RefuseShape, ReleaseShapes, TaskShapes DEF Consuming
  <1>5. ASSUME NEW p \in Workers, ExtendLease(p) \/ Finishing(p) PROVE Still \/ Fairly(p)
    <2>1. CASE ExtendLease(p)
      BY <2>1 DEF ExtendLease, brokerVars, localVars, Still
    <2> QED BY <1>5, <2>1, TaskShapes, ReleaseShapes DEF Finishing
  <1>6. ASSUME NEW p \in Procs, Maintaining(p) PROVE Still \/ Fairly(p)
    <2>1. CASE SweepFindOrphans(p) \/ SweepMark(p) \/ \E j \in Jobs : SweepPublish(p, j)
      BY <2>1 DEF SweepFindOrphans, SweepMark, SweepPublish, brokerVars, localVars, Still
    <2> QED BY <1>6, <2>1, RetireShape, ReleaseShapes DEF Maintaining
  <1>7. ASSUME NEW p \in Procs, Failing(p)
        PROVE  Fairly(p) \/ (ReserveFails(p) /\ Dropping(p))
    BY <1>7, CrashShape, BlipShape, DropShape, TaskShapes, ReleaseShapes DEF Failing
  <1>8. ASSUME NEW j \in Jobs, ClientCancels(j) \/ Clock(j) PROVE Still
    BY <1>8 DEF ClientCancels, Clock, brokerVars, localVars, Still
  <1> QED BY <1>1, <1>2, <1>3, <1>4, <1>5, <1>6, <1>7, <1>8, DeliverShape DEF Next

\* What a channel and the memory of its process are after a step, of any kind.
LEMMA DeliveriesStep ==
  ASSUME IInv, Next
  PROVE  /\ unacked' \in [Procs -> [Message -> Nat]]
         /\ incoming' \in [Procs -> Seq(Delivery)]
         /\ held' \in [Procs -> [Jobs -> Hold]]
         /\ task' \in [Procs -> TaskState]
         /\ \A p \in Procs : Covers(unacked'[p], incoming'[p], held'[p], task'[p])
  <1>1. \A p \in Procs : /\ ProcTypes(unacked[p], incoming[p], held[p], task[p])
                         /\ Covers(unacked[p], incoming[p], held[p], task[p])
    BY DEF IInv, Types, Covered, ProcTypes
  <1>2. CASE Still
    BY <1>1, <1>2 DEF Still, IInv, Types
  <1>3. ASSUME NEW p \in Procs, Alone(p),
               ProcTypes(unacked'[p], incoming'[p], held'[p], task'[p]),
               Covers(unacked'[p], incoming'[p], held'[p], task'[p])
        PROVE  /\ unacked' \in [Procs -> [Message -> Nat]]
               /\ incoming' \in [Procs -> Seq(Delivery)]
               /\ held' \in [Procs -> [Jobs -> Hold]]
               /\ task' \in [Procs -> TaskState]
               /\ \A q \in Procs : Covers(unacked'[q], incoming'[q], held'[q], task'[q])
    <2>1. ASSUME NEW q \in Procs
          PROVE  /\ ProcTypes(unacked'[q], incoming'[q], held'[q], task'[q])
                 /\ Covers(unacked'[q], incoming'[q], held'[q], task'[q])
      <3>1. CASE q = p
        BY <1>3, <3>1
      <3>2. CASE q # p
        <4>1. /\ unacked'[q] = unacked[q] /\ incoming'[q] = incoming[q]
              /\ held'[q] = held[q] /\ task'[q] = task[q]
          BY <1>3, <3>2 DEF Alone
        <4> QED BY <1>1, <4>1
      <3> QED BY <3>1, <3>2
    <2> QED BY <1>3, <2>1 DEF Alone, ProcTypes
  <1>4. ASSUME NEW p \in Procs,
               Fairly(p) \/ Placing(p) \/ Dropping(p)
        PROVE  /\ Alone(p)
               /\ ProcTypes(unacked'[p], incoming'[p], held'[p], task'[p])
               /\ Covers(unacked'[p], incoming'[p], held'[p], task'[p])
    BY <1>1, <1>4, StaysOK, DeliversOK, TakesOK, ClaimsOK, RefusesOK, DropsOK, ReleasesOK,
       RetiresOK, ClosesOK DEF Fairly, Fair, Placing, Dropping
  <1> QED BY <1>2, <1>3, <1>4, NextShapes

-----------------------------------------------------------------------------
(* The types of the other variables.                                       *)

BrokerTypes == work \in [Message -> Nat] /\ parked \subseteq [job : Jobs, after : Nat]

LoopTypes ==
  /\ up \subseteq Procs
  /\ republished \in [Procs -> SUBSET Jobs]
  /\ producer \in [Producers -> ProducerState]
  /\ sweep \in [Procs -> SweepState]
  /\ faults \in Nat

LEMMA FreshType == \A j \in Jobs : Fresh(j) \in Message
  BY DEF Fresh, Message

LEMMA PublishTypes ==
  ASSUME BrokerTypes, NEW j \in Jobs, NEW delay, NEW after \in Nat, Publish(j, delay, after)
  PROVE  BrokerTypes'
  BY FreshType DEF BrokerTypes, Publish

\* The messages that come back have one return more.
LEMMA ReturnType ==
  ASSUME NEW m \in Message, m.returns # 0
  PROVE  [m EXCEPT !.returns = @ - 1] \in Message
  BY DEF Message

LEMMA RequeueTypes ==
  ASSUME IInv, NEW p \in Procs, Requeue(p), parked' = parked
  PROVE  BrokerTypes'
  <1>1. work \in [Message -> Nat] /\ unacked[p] \in [Message -> Nat]
    BY DEF IInv, Types
  <1> DEFINE back(m) == CASE ~Counting -> unacked[p][m]
                          [] Counting /\ m.returns = 0 -> 0
                          [] OTHER -> unacked[p][[m EXCEPT !.returns = @ - 1]]
  <1>2. ASSUME NEW m \in Message PROVE back(m) \in Nat
    <2>1. CASE ~Counting \/ m.returns = 0
      BY <1>1, <2>1
    <2>2. CASE Counting /\ m.returns # 0
      <3>1. PICK n \in Message : n = [m EXCEPT !.returns = @ - 1]
        BY <2>2, ReturnType
      <3>2. back(m) = unacked[p][n]
        BY <2>2, <3>1
      <3> QED BY <1>1, <3>2
    <2> QED BY <2>1, <2>2
  <1>3. work' = [m \in Message |-> work[m] + back(m)]
    BY DEF Requeue
  <1> HIDE DEF back
  <1>4. \A m \in Message : work[m] + back(m) \in Nat
    BY <1>1, <1>2
  <1>5. work' \in [Message -> Nat]
    BY <1>3, <1>4
  <1> QED BY <1>5 DEF IInv, Types, BrokerTypes

LEMMA BrokerStep ==
  ASSUME IInv, Next
  PROVE  BrokerTypes'
  <1> USE DEF brokerVars
  <1>0. BrokerTypes
    BY DEF IInv, Types, BrokerTypes
  <1>1. UNCHANGED <<work, parked>> => BrokerTypes'
    BY <1>0 DEF BrokerTypes
  <1>2. ASSUME NEW m \in parked, ParkingOver(m) PROVE BrokerTypes'
    <2>1. m.job \in Jobs
      BY <1>0 DEF BrokerTypes
    <2> QED BY <1>0, <1>2, <2>1, FreshType DEF BrokerTypes, ParkingOver
  <1>3. ASSUME NEW p \in Procs, NEW m \in Message, Deliver(p, m) PROVE BrokerTypes'
    BY <1>0, <1>3 DEF BrokerTypes, Deliver
  <1>4. ASSUME NEW p \in Producers, Enqueueing(p) \/ GiveUp(p) PROVE BrokerTypes'
    <2>1. CASE EnqueuePublish(p)
      BY <1>0, <2>1, ProducerIs, PublishTypes DEF EnqueuePublish
    <2>2. CASE Close(p)
      BY <2>2, RequeueTypes DEF Close
    <2> QED BY <1>1, <1>4, <2>1, <2>2 DEF Enqueueing, EnqueueInsert, EnqueueDuplicate,
            EnqueueMark, FollowEnds, GiveUp
  <1>5. ASSUME NEW p \in Workers, Consuming(p) PROVE BrokerTypes'
    <2>1. CASE NackPublish(p)
      BY <1>0, <2>1, WorkingIs, PublishTypes DEF NackPublish, HasLease
    <2> QED BY <1>1, <1>5, <2>1 DEF Consuming, ReserveNext, ReserveClaims, ReserveRefused,
            SettleFinished, NackMark
  <1>6. ASSUME NEW p \in Workers, ExtendLease(p) \/ Finishing(p) PROVE BrokerTypes'
    BY <1>1, <1>6 DEF ExtendLease, Finishing, AckRow, NackRow, DiscardStale
  <1>7. ASSUME NEW p \in Procs, Maintaining(p) PROVE BrokerTypes'
    <2>1. ASSUME NEW j \in Jobs, SweepLapsed(p, j) PROVE BrokerTypes'
      BY <1>0, <1>1, <2>1, PublishTypes DEF SweepLapsed
    <2>2. ASSUME NEW j \in Jobs, SweepPublish(p, j) PROVE BrokerTypes'
      BY <1>0, <2>2, PublishTypes DEF SweepPublish
    <2> QED BY <1>1, <1>7, <2>1, <2>2 DEF Maintaining, SweepRetire, SweepFindOrphans, SweepMark
  <1>8. ASSUME NEW p \in Procs, Failing(p) PROVE BrokerTypes'
    <2>1. CASE Crash(p) \/ Blip(p)
      BY <2>1, RequeueTypes DEF Crash, Blip
    <2> QED BY <1>1, <1>8, <2>1 DEF Failing, SweepFails, ReserveFails, SpawnFails,
            NackPublishFails, FinishFails
  <1>9. ASSUME NEW j \in Jobs, ClientCancels(j) \/ Clock(j) PROVE BrokerTypes'
    BY <1>1, <1>9 DEF ClientCancels, Clock
  <1>10. ASSUME NEW p \in Procs, NEW j \in Jobs, QuietOver(p, j) PROVE BrokerTypes'
    BY <1>1, <1>10 DEF QuietOver
  <1> QED BY <1>2, <1>3, <1>4, <1>5, <1>6, <1>7, <1>8, <1>9, <1>10 DEF Next

LEMMA LoopStep ==
  ASSUME IInv, Next
  PROVE  LoopTypes'
  <1> USE DEF brokerVars, localVars
  <1>0. LoopTypes
    BY DEF IInv, Types, LoopTypes
  <1>1. UNCHANGED <<up, republished, producer, sweep, faults>> => LoopTypes'
    BY <1>0 DEF LoopTypes
  <1>2. ASSUME NEW m \in parked, ParkingOver(m) PROVE LoopTypes'
    BY <1>1, <1>2 DEF ParkingOver
  <1>3. ASSUME NEW p \in Procs, NEW m \in Message, Deliver(p, m) PROVE LoopTypes'
    BY <1>1, <1>3 DEF Deliver
  <1>4. ASSUME NEW p \in Producers, Enqueueing(p) \/ GiveUp(p) PROVE LoopTypes'
    <2>1. ASSUME NEW s \in ProducerState, SetProducer(p, s),
                 UNCHANGED <<up, republished, sweep, faults>>
          PROVE  LoopTypes'
      BY <1>0, <2>1 DEF LoopTypes, SetProducer
    <2>2. CASE Close(p)
      <3>1. [pc |-> "done"] \in ProducerState /\ NoSweep \in SweepState
        BY DEF ProducerState, SweepState
      <3> QED BY <1>0, <2>2, <3>1 DEF Close, SetProducer, LoopTypes
    <2>3. ASSUME NEW j \in Jobs, NEW max \in Limits, NEW delay \in Delays,
                 EnqueueInsert(p, j, max, delay)
          PROVE  LoopTypes'
      <3>1. [pc |-> "publish", job |-> j, delay |-> delay] \in ProducerState
        BY DEF ProducerState
      <3> QED BY <2>1, <2>3, <3>1 DEF EnqueueInsert
    <2>4. ASSUME NEW j \in Jobs
          PROVE  {[pc |-> "follow", job |-> j], [pc |-> "mark", job |-> j]} \subseteq ProducerState
      BY DEF ProducerState
    <2>5. CASE EnqueuePublish(p) \/ EnqueueMark(p) \/ \E j \in Jobs : EnqueueDuplicate(p, j)
      BY <2>1, <2>4, <2>5, ProducerIs DEF EnqueuePublish, EnqueueMark, EnqueueDuplicate
    <2> QED BY <1>4, <2>2, <2>3, <2>5 DEF Enqueueing, FollowEnds, GiveUp
  <1>5. ASSUME NEW p \in Workers, Consuming(p) PROVE LoopTypes'
    BY <1>1, <1>5 DEF Consuming, ReserveNext, ReserveClaims, ReserveRefused, SettleFinished,
       NackPublish, NackMark
  <1>6. ASSUME NEW p \in Workers, ExtendLease(p) \/ Finishing(p) PROVE LoopTypes'
    BY <1>1, <1>6 DEF ExtendLease, Finishing, AckRow, NackRow, DiscardStale
  <1>7. ASSUME NEW p \in Procs, Maintaining(p) PROVE LoopTypes'
    <2>1. ASSUME NEW s \in SweepState, SetSweep(p, s), UNCHANGED <<up, producer, faults>>,
                 \/ republished' = republished
                 \/ \E j \in Jobs : republished' = [republished EXCEPT ![p] = @ \cup {j}]
          PROVE  LoopTypes'
      BY <1>0, <2>1 DEF LoopTypes, SetSweep
    <2>2. ASSUME NEW todo \in SUBSET Jobs, NEW j \in Jobs
          PROVE  {NoSweep, [pc |-> "lapsed", todo |-> todo], [pc |-> "unpublished", todo |-> todo],
                  [pc |-> "mark", todo |-> todo, job |-> j]} \subseteq SweepState
      BY DEF SweepState
    <2>3. Found(Lapsed) \subseteq Jobs /\ Found(Orphaned) \subseteq Jobs
      BY DEF Found
    <2>4. CASE SweepRetire(p)
      <3>1. PICK todo \in SUBSET Jobs : todo = Found(Lapsed)
        BY <2>3
      <3>2. [pc |-> "lapsed", todo |-> todo] \in SweepState
        BY DEF SweepState
      <3> QED BY <2>1, <2>4, <3>1, <3>2 DEF SweepRetire
    <2>5. CASE SweepFindOrphans(p)
      <3>1. PICK todo \in SUBSET Jobs : todo = Found(Orphaned)
        BY <2>3
      <3>2. [pc |-> "unpublished", todo |-> todo] \in SweepState /\ NoSweep \in SweepState
        BY DEF SweepState
      <3> QED BY <2>1, <2>5, <3>1, <3>2 DEF SweepFindOrphans
    <2>6. CASE SweepMark(p)
      <3>1. sweep[p].todo \subseteq Jobs
        BY <2>6, SweepIs DEF SweepMark, Sweeping
      <3>2. [pc |-> "unpublished", todo |-> sweep[p].todo] \in SweepState /\ NoSweep \in SweepState
        BY <3>1 DEF SweepState
      <3> QED BY <2>1, <2>6, <3>2 DEF SweepMark
    <2>7. ASSUME NEW j \in Jobs, SweepLapsed(p, j) PROVE LoopTypes'
      <3>1. [sweep[p] EXCEPT !.todo = @ \ {j}] \in SweepState
        <4>1. sweep[p] \in [pc : {"lapsed", "unpublished"}, todo : SUBSET Jobs]
          BY <1>0, <2>7 DEF LoopTypes, SweepState, SweepLapsed, Sweeping, NoSweep
        <4>2. PICK todo \in SUBSET Jobs : todo = sweep[p].todo \ {j}
          BY <4>1
        <4>3. [sweep[p] EXCEPT !.todo = todo] \in SweepState
          BY <4>1 DEF SweepState
        <4> QED BY <4>2, <4>3
      <3> QED BY <2>1, <2>7, <3>1 DEF SweepLapsed
    <2>8. ASSUME NEW j \in Jobs, SweepPublish(p, j) PROVE LoopTypes'
      <3>1. sweep[p].todo \ {j} \subseteq Jobs
        BY <2>8, SweepIs DEF SweepPublish, Sweeping
      <3>2. [pc |-> "mark", todo |-> sweep[p].todo \ {j}, job |-> j] \in SweepState
        BY <3>1 DEF SweepState
      <3> QED BY <2>1, <2>8, <3>2 DEF SweepPublish
    <2> QED BY <1>7, <2>4, <2>5, <2>6, <2>7, <2>8 DEF Maintaining
  <1>8. ASSUME NEW p \in Procs, Failing(p) PROVE LoopTypes'
    <2>0. NoSweep \in SweepState /\ [pc |-> "done"] \in ProducerState
      BY DEF SweepState, ProducerState
    <2>1. \A k : Fault(k) => faults' \in Nat
      BY <1>0 DEF Fault, LoopTypes
    <2>2. CASE Crash(p)
      BY <1>0, <2>0, <2>1, <2>2 DEF Crash, SetSweep, LoopTypes
    <2>3. CASE SweepFails(p)
      BY <1>0, <2>0, <2>1, <2>3 DEF SweepFails, SetSweep, LoopTypes
    <2>4. CASE Blip(p) \/ ReserveFails(p) \/ SpawnFails(p) \/ NackPublishFails(p)
               \/ \E delay \in Delays : FinishFails(p, delay)
      BY <1>0, <2>1, <2>4 DEF Blip, ReserveFails, SpawnFails, NackPublishFails, FinishFails,
         LoopTypes
    <2> QED BY <1>8, <2>2, <2>3, <2>4 DEF Failing
  <1>9. ASSUME NEW j \in Jobs, ClientCancels(j) \/ Clock(j) PROVE LoopTypes'
    BY <1>1, <1>9 DEF ClientCancels, Clock
  <1>10. ASSUME NEW p \in Procs, NEW j \in Jobs, QuietOver(p, j) PROVE LoopTypes'
    BY <1>0, <1>10 DEF QuietOver, LoopTypes
  <1> QED BY <1>2, <1>3, <1>4, <1>5, <1>6, <1>7, <1>8, <1>9, <1>10 DEF Next

-----------------------------------------------------------------------------
(* Leases, and who has none.                                               *)

\* A worker's own step, but for the failures that may also be a producer's.
Reserving(p) ==
  \/ Consuming(p) \/ Finishing(p) \/ ReserveFails(p) \/ SpawnFails(p) \/ NackPublishFails(p)
  \/ \E delay \in Delays : FinishFails(p, delay)

LEMMA ReservingAlone ==
  ASSUME IInv, NEW p \in Procs, Reserving(p)
  PROVE  Alone(p) /\ task'[p] \in TaskState
  <1>1. Fairly(p) \/ Placing(p) \/ Dropping(p)
    BY TakeShape, ClaimShape, RefuseShape, ReleaseShapes, TaskShapes, DropShape
    DEF Reserving, Consuming, Finishing
  <1> QED BY <1>1 DEF Fairly, Placing, Dropping

\* What the steps of others, of the broker and of the maintenance loop leave of a task.
LEMMA OtherSteps ==
  ASSUME IInv, Next
  PROVE  \/ \E p \in Workers : Reserving(p)
         \/ task' = task
         \/ \E p \in Procs : Crash(p) \/ Blip(p)
  <1>1. CASE \E m \in parked : ParkingOver(m)
    BY <1>1 DEF ParkingOver
  <1>2. CASE \E p \in Procs : \/ \E m \in Message : Deliver(p, m)
                              \/ \E j \in Jobs : QuietOver(p, j)
    BY <1>2 DEF Deliver, QuietOver
  <1>3. CASE \E p \in Producers : Enqueueing(p) \/ GiveUp(p)
    BY <1>3 DEF Enqueueing, EnqueueInsert, EnqueueDuplicate, EnqueuePublish, EnqueueMark,
                FollowEnds, GiveUp, Close
  <1>4. CASE \E p \in Workers : Consuming(p) \/ ExtendLease(p) \/ Finishing(p)
    BY <1>4 DEF Reserving, ExtendLease
  <1>5. CASE \E p \in Procs : Maintaining(p)
    BY <1>5 DEF Maintaining, SweepRetire, SweepFindOrphans, SweepMark, SweepLapsed, SweepPublish
  <1>6. CASE \E p \in Procs : Failing(p)
    BY <1>6 DEF Failing, SweepFails, Reserving
  <1>7. CASE \E j \in Jobs : ClientCancels(j) \/ Clock(j)
    BY <1>7 DEF ClientCancels, Clock
  <1> QED BY <1>1, <1>2, <1>3, <1>4, <1>5, <1>6, <1>7 DEF Next

\* A task keeps the lease it works under, and goes back to work with a new one only.
Inherits(t, s) ==
  HasLease(s) => /\ HasLease(t) /\ s.job = t.job /\ s.lease = t.lease
                 /\ s.pc = "work" => t.pc = "work"

LEMMA LeaseMoves ==
  ASSUME IInv, Next, NEW p \in Procs
  PROVE  Inherits(task[p], task'[p]) \/ (p \in Workers /\ ReserveClaims(p))
  <1>1. CASE task' = task
    BY <1>1 DEF Inherits
  <1>2. ASSUME NEW q \in Procs, Crash(q) PROVE Inherits(task[p], task'[p])
    BY <1>2 DEF Crash, SetTask, IInv, Types, Inherits, HasLease, Idle
  <1>3. ASSUME NEW q \in Procs, Blip(q) PROVE Inherits(task[p], task'[p])
    <2>1. CASE task[q].pc = "claim"
      <3>1. PICK s \in Claiming : s = [task[q] EXCEPT !.live = FALSE]
        BY <2>1, TaskIs, NoLonger DEF IInv, Types
      <3>2. task' = [task EXCEPT ![q] = s] /\ s.pc = "claim"
        BY <1>3, <2>1, <3>1 DEF Blip, SetTask, Claiming
      <3> QED BY <3>2 DEF IInv, Types, Inherits, HasLease
    <2>2. CASE task[q].pc # "claim"
      <3>1. task' = task
        BY <1>3, <2>2 DEF Blip, SetTask, IInv, Types
      <3> QED BY <3>1 DEF Inherits
    <2> QED BY <2>1, <2>2
  <1>4. ASSUME NEW q \in Workers, Reserving(q), q # p PROVE Inherits(task[p], task'[p])
    BY <1>4, ReservingAlone DEF Alone, Inherits
  <1>5. ASSUME p \in Workers, Reserving(p), ~ReserveClaims(p)
        PROVE  Inherits(task[p], task'[p])
    <2>0. task \in [Procs -> TaskState]
      BY DEF IInv, Types
    <2>1. CASE ReserveNext(p) \/ ReserveRefused(p) \/ ReserveFails(p) \/ SpawnFails(p)
               \/ NackPublishFails(p) \/ NackMark(p) \/ NackPublish(p) \/ DiscardStale(p)
      BY <2>0, <2>1 DEF ReserveNext, ReserveRefused, ReserveFails, SpawnFails, NackPublishFails,
         NackMark, NackPublish, DiscardStale, SetTask, Inherits, HasLease, Idle
    <2>2. CASE SettleFinished(p)
      <3>1. CASE task[p].pc = "settle"
        BY <2>0, <2>2, <3>1 DEF SettleFinished, SetTask, Inherits, HasLease, Idle
      <3>2. CASE task[p].pc = "settle_publish"
        <4>1. PICK s : s = [task[p] EXCEPT !.pc = "publish"]
          OBVIOUS
        <4>2. /\ s.pc = "publish" /\ s.job = task[p].job /\ s.lease = task[p].lease
          BY <3>2, <4>1, NextTask DEF HasLease
        <4>3. task'[p] = s
          BY <2>0, <2>2, <3>2, <4>1 DEF SettleFinished, SetTask
        <4> QED BY <3>2, <4>2, <4>3 DEF Inherits, HasLease
      <3> QED BY <2>2, <3>1, <3>2 DEF SettleFinished
    <2>3. CASE AckRow(p)
      BY <2>0, <2>3 DEF AckRow, Working, SetTask, Inherits, HasLease
    <2>4. ASSUME NEW delay \in Delays, FinishFails(p, delay)
          PROVE  Inherits(task[p], task'[p])
      BY <2>0, <2>4 DEF FinishFails, Working, SetTask, Inherits, HasLease
    <2>5. ASSUME NEW delay \in Delays, NackRow(p, delay)
          PROVE  Inherits(task[p], task'[p])
      <3>1. \/ task' = [task EXCEPT ![p] = [pc |-> "settle", job |-> task[p].job,
                                            lease |-> task[p].lease]]
            \/ task' = [task EXCEPT ![p] = [pc |-> "settle_publish", job |-> task[p].job,
                                            lease |-> task[p].lease, delay |-> delay]]
        BY <2>5 DEF NackRow, SetTask
      <3> QED BY <2>0, <2>5, <3>1 DEF NackRow, Working, Inherits, HasLease
    <2> QED BY <1>5, <2>1, <2>2, <2>3, <2>4, <2>5 DEF Reserving, Consuming, Finishing
  <1>6. ReserveClaims(p) /\ p \in Workers => Reserving(p)
    BY DEF Reserving, Consuming
  <1> QED BY <1>1, <1>2, <1>3, <1>4, <1>5, OtherSteps

\* A claim is under the lease that the table draws with it.
LEMMA ClaimLease ==
  ASSUME IInv, NEW p \in Procs, ReserveClaims(p)
  PROVE  /\ Alone(p)
         /\ task'[p].pc = "work" /\ task'[p].job \in Jobs
         /\ task'[p].lease = minted[task'[p].job] + 1
         /\ minted'[task'[p].job] = minted[task'[p].job] + 1
  <1>1. Alone(p)
    BY ClaimShape DEF Placing
  <1>2. task[p].message.job \in Jobs
    BY ClaimingIs DEF ReserveClaims
  <1>3. task'[p] = [pc |-> "work", job |-> task[p].message.job,
                    lease |-> minted[task[p].message.job] + 1]
    BY DEF ReserveClaims, SetTask, IInv, Types
  <1>4. minted' = [minted EXCEPT ![task[p].message.job] = @ + 1]
    BY DEF ReserveClaims, Store!Claim
  <1> QED BY <1>1, <1>2, <1>3, <1>4 DEF IInv, Table!IInv

LEMMA LeaseStep ==
  ASSUME IInv, Next
  PROVE  Leased' /\ Apart'
  <1>1. \A j \in Jobs : minted[j] \in Nat /\ minted'[j] \in Nat /\ minted'[j] >= minted[j]
    BY TableStep, MintedType DEF IInv
  <1>2. ASSUME NEW p \in Procs, HasLease(task'[p])
        PROVE  /\ task'[p].job \in Jobs
               /\ task'[p].lease \in 1..minted'[task'[p].job]
               /\ Inherits(task[p], task'[p]) =>
                    task'[p].lease \in 1..minted[task'[p].job]
    <2>1. CASE Inherits(task[p], task'[p])
      BY <1>1, <1>2, <2>1, WorkingIs DEF Inherits
    <2>2. CASE ReserveClaims(p) /\ ~Inherits(task[p], task'[p])
      BY <1>1, <2>2, ClaimLease
    <2> QED BY <2>1, <2>2, LeaseMoves
  <1>3. Leased'
    BY <1>2 DEF Leased, HasLease
  <1>4. ASSUME NEW p \in Procs, NEW q \in Procs, p # q, task'[p].pc = "work",
               task'[q].pc = "work", task'[p].job = task'[q].job, Inherits(task[p], task'[p])
        PROVE  task'[p].lease # task'[q].lease
    <2>1. HasLease(task'[p]) /\ HasLease(task'[q])
      BY <1>4 DEF HasLease
    <2>2. CASE Inherits(task[q], task'[q])
      BY <1>4, <2>1, <2>2 DEF Inherits, IInv, Apart, Working
    <2>3. CASE ReserveClaims(q)
      <3>1. task'[p].lease \in 1..minted[task'[p].job] /\ task'[p].job \in Jobs
        BY <1>2, <1>4, <2>1
      <3>2. task'[q].lease = minted[task'[p].job] + 1
        BY <1>4, <2>3, ClaimLease
      <3> QED BY <1>1, <3>1, <3>2
    <2> QED BY <2>2, <2>3, LeaseMoves
  <1>5. ASSUME NEW p \in Procs, NEW q \in Procs, p # q, task'[p].pc = "work",
               task'[q].pc = "work", task'[p].job = task'[q].job
        PROVE  task'[p].lease # task'[q].lease
    <2>1. CASE Inherits(task[p], task'[p]) \/ Inherits(task[q], task'[q])
      BY <1>4, <1>5, <2>1
    <2>2. CASE ReserveClaims(p) /\ ReserveClaims(q)
      <3>1. task'[q] = task[q] /\ task[q].pc = "claim"
        BY <1>5, <2>2, ClaimLease DEF Alone, ReserveClaims
      <3> QED BY <1>5, <3>1
    <2> QED BY <2>1, <2>2, LeaseMoves
  <1>6. Apart'
    BY <1>5 DEF Apart, Working
  <1> QED BY <1>3, <1>6

\* Which steps reach what is held.
LEMMA HeldSteps ==
  ASSUME IInv, Next
  PROVE  \/ \E p \in Workers : Reserving(p)
         \/ held' = held
         \/ \E p \in Procs : \/ Crash(p) \/ Blip(p) \/ SweepRetire(p) \/ SweepFails(p)
                             \/ \E j \in Jobs : SweepLapsed(p, j)
  <1> USE DEF localVars
  <1>1. CASE \E m \in parked : ParkingOver(m)
    BY <1>1 DEF ParkingOver
  <1>2. CASE \E p \in Procs : \/ \E m \in Message : Deliver(p, m)
                              \/ \E j \in Jobs : QuietOver(p, j)
    BY <1>2 DEF Deliver, QuietOver
  <1>3. CASE \E p \in Producers : Enqueueing(p) \/ GiveUp(p)
    BY <1>3 DEF Enqueueing, EnqueueInsert, EnqueueDuplicate, EnqueuePublish, EnqueueMark,
                FollowEnds, GiveUp, Close
  <1>4. CASE \E p \in Workers : Consuming(p) \/ ExtendLease(p) \/ Finishing(p)
    BY <1>4 DEF Reserving, ExtendLease
  <1>5. CASE \E p \in Procs : Maintaining(p)
    BY <1>5 DEF Maintaining, SweepFindOrphans, SweepMark, SweepPublish
  <1>6. CASE \E p \in Procs : Failing(p)
    BY <1>6 DEF Failing, Reserving
  <1>7. CASE \E j \in Jobs : ClientCancels(j) \/ Clock(j)
    BY <1>7 DEF ClientCancels, Clock
  <1> QED BY <1>1, <1>2, <1>3, <1>4, <1>5, <1>6, <1>7 DEF Next

\* What a step of the loop, a crash or a reconnect leaves of what is held.
LEMMA HeldFewer ==
  ASSUME IInv, NEW p \in Procs,
         \/ Crash(p) \/ Blip(p) \/ SweepRetire(p) \/ SweepFails(p)
         \/ \E j \in Jobs : SweepLapsed(p, j)
  PROVE  /\ \A q \in Procs \ {p} : held'[q] = held[q]
         /\ \A j \in Jobs : \/ held'[p][j] = NotHeld
                            \/ held[p][j] # NotHeld /\ held'[p][j].lease = held[p][j].lease
  <1>0. held \in [Procs -> [Jobs -> Hold]]
    BY DEF IInv, Types
  <1>1. CASE Crash(p)
    BY <1>0, <1>1 DEF Crash
  <1>2. CASE Blip(p)
    <2>1. \A q \in Procs \ {p} : held'[q] = held[q]
      BY <1>0, <1>2 DEF Blip
    <2>2. ASSUME NEW j \in Jobs
          PROVE  \/ held'[p][j] = NotHeld
                 \/ held[p][j] # NotHeld /\ held'[p][j].lease = held[p][j].lease
      <3>1. PICK c \in Hold : c = held[p][j]
        BY <1>0
      <3>2. held'[p][j] = [c EXCEPT !.live = FALSE]
        BY <1>0, <1>2, <3>1 DEF Blip
      <3> QED BY <3>1, <3>2, NoLonger
    <2> QED BY <2>1, <2>2
  <1>3. CASE SweepRetire(p)
    <2>1. PICK some \in SUBSET Jobs : some = {j \in Found(Retirable) : held[p][j] # NotHeld}
      BY DEF Found
    <2>2. held' = [held EXCEPT ![p] = [j \in Jobs |-> IF j \in some THEN NotHeld ELSE held[p][j]]]
      BY <1>0, <1>3, <2>1 DEF SweepRetire
    <2> QED BY <1>0, <2>2
  <1>4. ASSUME NEW j \in Jobs, NEW l, Release(p, j, l)
        PROVE  /\ \A q \in Procs \ {p} : held'[q] = held[q]
               /\ \A k \in Jobs : held'[p][k] \in {held[p][k], NotHeld}
    BY <1>0, <1>4 DEF Release
  <1>5. CASE SweepFails(p)
    <2>1. \A j \in sweep[p].todo : sweep[p].pc = "lapsed" => j \in Jobs
      BY SweepIs
    <2>2. held' = held \/ \E j \in Jobs : Release(p, j, NoLease)
      BY <1>5, <2>1 DEF SweepFails
    <2> QED BY <1>4, <2>2
  <1>6. ASSUME NEW j \in Jobs, SweepLapsed(p, j)
        PROVE  /\ \A q \in Procs \ {p} : held'[q] = held[q]
               /\ \A k \in Jobs : held'[p][k] \in {held[p][k], NotHeld}
    BY <1>4, <1>6 DEF SweepLapsed
  <1> QED BY <1>1, <1>2, <1>3, <1>5, <1>6

LEMMA PassiveStep ==
  ASSUME IInv, Next
  PROVE  Passive'
  <1>0. Workers \cap Producers = {}
    BY DEF QueueAssumption
  <1> SUFFICES ASSUME NEW r \in Producers
               PROVE  task'[r] = Idle /\ \A j \in Jobs : held'[r][j] = NotHeld
    BY DEF Passive
  <1>1. task[r] = Idle /\ \A j \in Jobs : held[r][j] = NotHeld
    BY DEF IInv, Passive
  <1>2. task'[r] = Idle
    <2>1. ASSUME NEW p \in Workers, Reserving(p) PROVE task'[r] = Idle
      BY <1>0, <1>1, <2>1, ReservingAlone DEF Alone
    <2>2. ASSUME NEW p \in Procs, Crash(p) PROVE task'[r] = Idle
      BY <1>1, <2>2 DEF Crash, SetTask, IInv, Types
    <2>3. ASSUME NEW p \in Procs, Blip(p) PROVE task'[r] = Idle
      <3>1. CASE p = r
        BY <1>1, <2>3, <3>1 DEF Blip, SetTask, IInv, Types, Idle
      <3>2. CASE p # r
        BY <1>1, <2>3, <3>2, BlipShape DEF Fairly, Alone
      <3> QED BY <3>1, <3>2
    <2> QED BY <1>1, <2>1, <2>2, <2>3, OtherSteps
  <1>3. ASSUME NEW j \in Jobs PROVE held'[r][j] = NotHeld
    <2>1. ASSUME NEW p \in Workers, Reserving(p) PROVE held'[r][j] = NotHeld
      BY <1>0, <1>1, <2>1, ReservingAlone DEF Alone
    <2> QED BY <1>1, <2>1, HeldSteps, HeldFewer
  <1> QED BY <1>2, <1>3

-----------------------------------------------------------------------------
(* The invariant holds.                                                    *)

THEOREM InvInductive == IInv /\ [Next]_vars => IInv'
  <1> SUFFICES ASSUME IInv, [Next]_vars PROVE IInv'
    OBVIOUS
  <1>1. Table!IInv' /\ Table!LogInv'
    BY TableStep
  <1>2. CASE Next
    <2>1. Types' /\ Covered'
      BY <1>2, DeliveriesStep, BrokerStep, LoopStep DEF Types, Covered, BrokerTypes, LoopTypes
    <2> QED BY <1>1, <1>2, <2>1, LeaseStep, PassiveStep DEF IInv
  <1>3. CASE UNCHANGED vars
    <2>1. Types' /\ Covered' /\ Leased' /\ Apart' /\ Passive'
      BY <1>3 DEF vars, tableVars, brokerVars, localVars, IInv, Types, Covered, Leased, Apart,
         Working, Passive
    <2> QED BY <1>1, <2>1 DEF IInv
  <1> QED BY <1>2, <1>3

\* The row of a job that was enqueued before, in the words of the table's proofs.
LEMMA BacklogOK ==
  ASSUME NEW max \in Limits
  PROVE  /\ Table!RowInv(BacklogRow(max), 0, {})
         /\ BacklogRow(max).state = "queued" /\ Table!Exists(BacklogRow(max))
         /\ BacklogRow(max).published /\ BacklogRow(max).run_after = "due"
  <1>1. max \in Nat \ {0}
    BY DEF QueueAssumption
  <1>2. PICK no \in BOOLEAN : no = FALSE
    OBVIOUS
  <1>3. PICK r : r = Table!Inserted(max, no)
    OBVIOUS
  <1>4. Table!RowInv(Table!AbsentRow, 0, {}) /\ ~Table!Exists(Table!AbsentRow)
    BY Table!AbsentOK DEF Table!Exists, Table!AbsentRow
  <1>5. Table!RowInv(r, 0, {})
    BY <1>1, <1>2, <1>3, <1>4, Table!InsertedOK
  <1>6. r.state = "queued" /\ r.run_after = "due"
    <2>1. Table!AbsentRow \in Table!Row
      BY <1>4 DEF Table!RowInv
    <2>2. r = [Table!AbsentRow EXCEPT !.state = "queued", !.max_attempts = max, !.run_after = "due"]
      BY <1>2, <1>3 DEF Table!Inserted, Table!Delayed
    <2> QED BY <2>1, <2>2 DEF Table!Row
  <1>7. BacklogRow(max) = Table!MarkedPublished(r)
    BY <1>2, <1>3 DEF BacklogRow, MarkedPublished, Inserted, Delayed, AbsentRow,
       Table!MarkedPublished, Table!Inserted, Table!Delayed, Table!AbsentRow
  <1>8. Table!RowInv(Table!MarkedPublished(r), 0, {})
    BY <1>5, <1>6, Table!MarkedPublishedOK DEF Table!Exists
  <1>9. PICK yes \in BOOLEAN : yes = TRUE
    OBVIOUS
  <1>10. Table!MarkedPublished(r) = [r EXCEPT !.published = yes]
    BY <1>9 DEF Table!MarkedPublished
  <1>11. LET b == Table!MarkedPublished(r)
         IN  b.state = r.state /\ b.run_after = r.run_after /\ b.published = yes
    BY <1>5, <1>10 DEF Table!RowInv, Table!Row
  <1> QED BY <1>6, <1>7, <1>8, <1>9, <1>11 DEF Table!Exists

LEMMA InitOK == Init => IInv
  <1> SUFFICES ASSUME Init PROVE IInv
    OBVIOUS
  <1>1. PICK max \in Limits :
          rows = [j \in Jobs |-> IF j \in Backlog THEN BacklogRow(max) ELSE AbsentRow]
    BY DEF Init
  <1>2. /\ minted = [j \in Jobs |-> 0] /\ acked = [j \in Jobs |-> {}]
        /\ events = [j \in Jobs |-> IF j \in Backlog \cap InSession THEN <<"queued">> ELSE <<>>]
    BY DEF Init
  <1>3. AbsentRow = Table!AbsentRow /\ Table!RowInv(Table!AbsentRow, 0, {})
    BY Table!AbsentOK DEF AbsentRow, Table!AbsentRow
  <1>4. \A j \in Jobs : Table!RowInv(rows[j], 0, {})
    BY <1>1, <1>3, BacklogOK
  <1>5. Table!IInv
    <2>1. rows \in [Jobs -> Table!Row]
      BY <1>1, <1>4 DEF Table!RowInv
    <2> QED BY <1>2, <1>4, <2>1 DEF Table!IInv
  <1>6. Table!LogInv
    <2>1. \A j \in Backlog : rows[j].state = "queued" /\ Table!Exists(rows[j])
      BY <1>1, BacklogOK
    <2>2. \A j \in Jobs \ Backlog : ~Table!Exists(rows[j])
      BY <1>1, <1>3 DEF Table!Exists, Table!AbsentRow
    <2>3. <<"queued">> \in Seq(Table!JobState) /\ <<>> \in Seq(Table!JobState)
      OBVIOUS
    <2>4. Table!LogType
      BY <1>2, <2>3 DEF Table!LogType
    <2>5. Table!LogTellsState
      BY <1>2, <2>1, <2>2 DEF Table!LogTellsState
    <2> QED BY <2>4, <2>5 DEF Table!LogInv
  <1>7. Types
    <2>1. work \in [Message -> Nat] /\ unacked \in [Procs -> [Message -> Nat]]
      BY DEF Init
    <2>2. /\ incoming \in [Procs -> Seq(Delivery)]
          /\ held \in [Procs -> [Jobs -> Hold]] /\ republished \in [Procs -> SUBSET Jobs]
      BY NotHeldType DEF Init
    <2>3. task \in [Procs -> TaskState]
      BY DEF Init, TaskState
    <2>4. producer \in [Producers -> ProducerState] /\ sweep \in [Procs -> SweepState]
      <3>1. [pc |-> "start"] \in ProducerState /\ NoSweep \in SweepState
        BY DEF ProducerState, SweepState
      <3> QED BY <3>1 DEF Init
    <2> QED BY <2>1, <2>2, <2>3, <2>4 DEF Init, Types
  <1>8. \A p \in Procs : /\ task[p] = Idle /\ incoming[p] = <<>>
                         /\ \A j \in Jobs : held[p][j] = NotHeld
                         /\ unacked[p] = [m \in Message |-> 0]
    BY DEF Init
  <1>9. Covered
    <2>1. ASSUME NEW p \in Procs, NEW m \in Message
          PROVE  unacked[p][m] >= Known(incoming[p], held[p], task[p], m)
      <3>1. Cardinality(Where(incoming[p], Alive(m))) = 0
        BY <1>8, WhereEmpty
      <3>2. m.job \in Jobs
        BY DEF Message
      <3>3. One(Taken(task[p], m)) = 0 /\ One(Behind(held[p], m)) = 0
        BY <1>8, <3>2, NotHeldType DEF One, Taken, Behind, Idle
      <3> QED BY <1>8, <3>1, <3>3 DEF Known
    <2> QED BY <2>1 DEF Covered, Covers
  <1>10. Leased /\ Apart /\ Passive
    BY <1>8 DEF Leased, HasLease, Apart, Working, Passive, Idle
  <1> QED BY <1>5, <1>6, <1>7, <1>9, <1>10 DEF IInv

\* The inductive invariant holds in every reachable state of the queue.
THEOREM InvHolds == Spec => []IInv
  BY InitOK, InvInductive, PTL DEF Spec

\* Every variable keeps its type: in particular no delivery is settled that the broker
\* does not count, so that no channel's count goes below what it has.
THEOREM TypeCorrect == Spec => []TypeOK
  <1>1. IInv => TypeOK
    <2> SUFFICES ASSUME IInv PROVE TypeOK
      OBVIOUS
    <2>1. Store!TypeOK
      BY DEF IInv, Table!IInv, Table!LogInv, Table!LogType, Table!Row, Store!Row, Store!TypeOK
    <2>2. \A p \in Procs : task[p] \in TaskState
      BY DEF IInv, Types
    <2>3. \A p \in Producers : producer[p] \in ProducerState
      BY DEF IInv, Types
    <2>4. \A p \in Procs : sweep[p] \in SweepState
      BY DEF IInv, Types
    <2> QED BY <2>1, <2>2, <2>3, <2>4 DEF IInv, Types, TypeOK, TaskState, Claiming, Owning,
            Offering, Telling, ProducerState, SweepState, Hold
  <1> QED BY <1>1, InvHolds, PTL

\* At most one consumer works under a lease that the row honours, however many messages
\* there are for the job and whatever failed before.
THEOREM AtMostOneLiveConsumerHolds == Spec => []AtMostOneLiveConsumer
  <1>1. ASSUME IInv, NEW j \in Jobs
        PROVE  Cardinality({p \in Workers : /\ Working(p) /\ task[p].job = j
                                            /\ Fenced(rows[j], task[p].lease)}) <= 1
    <2> DEFINE live == {p \in Workers : /\ Working(p) /\ task[p].job = j
                                        /\ Fenced(rows[j], task[p].lease)}
    <2>1. \A p, q \in live : p = q
      BY <1>1 DEF Fenced, IInv, Apart
    <2> HIDE DEF live
    <2>2. live = {} => Cardinality(live) <= 1
      BY FS_EmptySet
    <2>3. ASSUME live # {} PROVE Cardinality(live) <= 1
      <3>1. PICK p : p \in live
        BY <2>3
      <3>2. live = {p}
        BY <2>1, <3>1
      <3>3. Cardinality({p}) = 1
        BY FS_Singleton
      <3> QED BY <3>2, <3>3
    <2>4. Cardinality(live) <= 1
      BY <2>2, <2>3
    <2> QED BY <2>4 DEF live
  <1>2. IInv => AtMostOneLiveConsumer
    BY <1>1 DEF AtMostOneLiveConsumer
  <1> QED BY <1>2, InvHolds, PTL

\* Whatever the processes do, each step is one statement of the job store, or leaves the
\* table alone: what JobStore_proofs shows of the store's steps holds of the queue's.
THEOREM StepsAreStatements == Spec => [][Store!Next]_(Store!vars)
  <1>1. Statement => [Store!Next]_(Store!vars)
    BY DEF Statement, Store!Next, Store!JobStep, tableVars, Store!vars
  <1>2. IInv /\ [Next]_vars => [Store!Next]_(Store!vars)
    BY <1>1, StepIsStatement DEF vars, tableVars, Store!vars
  <1> QED BY <1>2, InvHolds, PTL DEF Spec

-----------------------------------------------------------------------------
(* No delivery is forgotten, unless a claim raises or a child cannot be    *)
(* started.                                                                *)

Sound == Failures \cap {"claim", "spawn"} = {}

\* The broker counts nothing that nobody knows of.
Exact == \A p \in Procs : Matches(unacked[p], incoming[p], held[p], task[p])

\* What is held is held for the claim that the supervisor works on, or is finishing.
HoldsFor(t, j, l) ==
  t.pc \in {"work", "settle", "settle_publish"} /\ t.job = j /\ t.lease = l

HeldByTask ==
  \A p \in Procs, j \in Jobs :
    held[p][j] # NotHeld => HoldsFor(task[p], j, held[p][j].lease)

LEMMA HoldingStep ==
  ASSUME IInv, Sound, HeldByTask, Next
  PROVE  HeldByTask'
  <1>0. held \in [Procs -> [Jobs -> Hold]] /\ task \in [Procs -> TaskState]
    BY DEF IInv, Types
  <1>1. ASSUME NEW p \in Workers, Reserving(p) PROVE HeldByTask'
    <2>1. Alone(p)
      BY <1>1, ReservingAlone
    <2> SUFFICES ASSUME NEW j \in Jobs, held'[p][j] # NotHeld
                 PROVE  HoldsFor(task'[p], j, held'[p][j].lease)
      BY <2>1 DEF HeldByTask, Alone
    <2>2. held[p][j] # NotHeld => HoldsFor(task[p], j, held[p][j].lease)
      BY DEF HeldByTask
    <2>3. CASE \/ ReserveNext(p) \/ ReserveRefused(p) \/ NackPublish(p) \/ NackMark(p)
               \/ NackPublishFails(p)
      <3>1. held' = held /\ task[p].pc \notin {"work", "settle", "settle_publish"}
        BY <2>3 DEF ReserveNext, ReserveRefused, NackPublish, NackMark, NackPublishFails,
           localVars, Idle
      <3> QED BY <2>2, <3>1 DEF HoldsFor
    <2>4. CASE ReserveClaims(p)
      <3>1. task[p].message.job \in Jobs /\ task[p].pc = "claim"
        BY <2>4, ClaimingIs DEF ReserveClaims
      <3>2. PICK k \in Jobs : k = task[p].message.job
        BY <3>1
      <3>3. PICK c : c = [lease |-> minted[k] + 1, returns |-> task[p].message.returns,
                          live |-> task[p].live]
        OBVIOUS
      <3>4. held' = [held EXCEPT ![p][k] = c] /\ c.lease = minted[k] + 1
        BY <2>4, <3>2, <3>3 DEF ReserveClaims
      <3>5. task'[p] = [pc |-> "work", job |-> k, lease |-> minted[k] + 1]
        BY <1>0, <2>4, <3>2 DEF ReserveClaims, SetTask
      <3>6. j = k
        BY <1>0, <2>2, <3>1, <3>4 DEF HoldsFor
      <3>7. held'[p][j] = c
        BY <1>0, <3>4, <3>6
      <3> QED BY <3>4, <3>5, <3>6, <3>7 DEF HoldsFor
    <2>5. CASE SettleFinished(p) \/ DiscardStale(p)
      <3>1. Release(p, task[p].job, task[p].lease) /\ HasLease(task[p])
        BY <2>5 DEF SettleFinished, DiscardStale, Working, HasLease
      <3>2. PICK k \in Jobs : k = task[p].job
        BY <3>1, WorkingIs
      <3>3. held[p][j] # NotHeld
        BY <1>0, <3>1 DEF Release
      <3>4. j = k /\ held[p][j].lease = task[p].lease
        BY <2>2, <3>2, <3>3 DEF HoldsFor
      <3>5. held' = [held EXCEPT ![p][k] = NotHeld]
        BY <3>1, <3>2, <3>3, <3>4 DEF Release
      <3> QED BY <1>0, <3>4, <3>5
    <2>6. CASE AckRow(p) \/ \E delay \in Delays : NackRow(p, delay) \/ FinishFails(p, delay)
      <3>1. held' = held /\ task[p].pc = "work"
        BY <2>6 DEF AckRow, NackRow, FinishFails, Working, localVars
      <3>2. task'[p].pc \in {"settle", "settle_publish"}
            /\ task'[p].job = task[p].job /\ task'[p].lease = task[p].lease
        <4>1. CASE AckRow(p)
          BY <1>0, <4>1 DEF AckRow, SetTask
        <4>2. ASSUME NEW delay \in Delays, FinishFails(p, delay)
              PROVE  task'[p].pc \in {"settle", "settle_publish"}
                     /\ task'[p].job = task[p].job /\ task'[p].lease = task[p].lease
          BY <1>0, <4>2 DEF FinishFails, SetTask
        <4>3. ASSUME NEW delay \in Delays, NackRow(p, delay)
              PROVE  task'[p].pc \in {"settle", "settle_publish"}
                     /\ task'[p].job = task[p].job /\ task'[p].lease = task[p].lease
          <5>1. \/ task' = [task EXCEPT ![p] = [pc |-> "settle", job |-> task[p].job,
                                                lease |-> task[p].lease]]
                \/ task' = [task EXCEPT ![p] = [pc |-> "settle_publish", job |-> task[p].job,
                                                lease |-> task[p].lease, delay |-> delay]]
            BY <4>3 DEF NackRow, SetTask
          <5> QED BY <1>0, <5>1
        <4> QED BY <2>6, <4>1, <4>2, <4>3
      <3> QED BY <2>2, <3>1, <3>2 DEF HoldsFor
    <2>7. ~ReserveFails(p) /\ ~SpawnFails(p)
      BY DEF Sound, ReserveFails, SpawnFails, Fault
    <2> QED BY <1>1, <2>3, <2>4, <2>5, <2>6, <2>7 DEF Reserving, Consuming, Finishing
  <1>2. ASSUME NEW p \in Procs, Crash(p) PROVE HeldByTask'
    <2>1. /\ Alone(p) /\ \A j \in Jobs : held'[p][j] = NotHeld
      BY <1>0, <1>2, CrashShape DEF Crash, Fairly
    <2> QED BY <2>1 DEF HeldByTask, Alone
  <1>3. ASSUME NEW p \in Procs, Blip(p) PROVE HeldByTask'
    <2>1. Alone(p)
      BY <1>3, BlipShape DEF Fairly
    <2>2. task[p].pc # "claim" => task'[p] = task[p]
      BY <1>0, <1>3 DEF Blip, SetTask
    <2>3. ASSUME NEW j \in Jobs, held'[p][j] # NotHeld
          PROVE  HoldsFor(task'[p], j, held'[p][j].lease)
      <3>1. held[p][j] # NotHeld /\ held'[p][j].lease = held[p][j].lease
        BY <1>3, <2>3, HeldFewer
      <3>2. HoldsFor(task[p], j, held[p][j].lease)
        BY <3>1 DEF HeldByTask
      <3> QED BY <2>2, <3>1, <3>2 DEF HoldsFor
    <2> QED BY <2>1, <2>3 DEF HeldByTask, Alone
  <1>4. ASSUME task' = task, held' = held PROVE HeldByTask'
    BY <1>4 DEF HeldByTask
  <1>5. ASSUME NEW p \in Procs, task' = task,
               SweepRetire(p) \/ SweepFails(p) \/ \E j \in Jobs : SweepLapsed(p, j)
        PROVE  HeldByTask'
    <2>1. ASSUME NEW q \in Procs, NEW j \in Jobs, held'[q][j] # NotHeld
          PROVE  HoldsFor(task'[q], j, held'[q][j].lease)
      <3>1. held[q][j] # NotHeld /\ held'[q][j].lease = held[q][j].lease
        BY <1>5, <2>1, HeldFewer
      <3> QED BY <1>5, <3>1 DEF HeldByTask
    <2> QED BY <2>1 DEF HeldByTask
  <1> QED BY <1>1, <1>2, <1>3, <1>4, <1>5, OtherSteps, HeldSteps

LEMMA ExactStep ==
  ASSUME IInv, Sound, HeldByTask, Exact, Next
  PROVE  Exact'
  <1>1. \A p \in Procs : /\ ProcTypes(unacked[p], incoming[p], held[p], task[p])
                         /\ Covers(unacked[p], incoming[p], held[p], task[p])
                         /\ Matches(unacked[p], incoming[p], held[p], task[p])
    BY DEF IInv, Types, Covered, ProcTypes, Exact
  <1>2. CASE Still
    BY <1>1, <1>2 DEF Still, Exact
  <1>3. ASSUME NEW p \in Procs, Alone(p),
               Matches(unacked'[p], incoming'[p], held'[p], task'[p])
        PROVE  Exact'
    <2>1. ASSUME NEW q \in Procs
          PROVE  Matches(unacked'[q], incoming'[q], held'[q], task'[q])
      <3>1. CASE q = p
        BY <1>3, <3>1
      <3>2. CASE q # p
        <4>1. /\ unacked'[q] = unacked[q] /\ incoming'[q] = incoming[q]
              /\ held'[q] = held[q] /\ task'[q] = task[q]
          BY <1>3, <3>2 DEF Alone
        <4> QED BY <1>1, <4>1
      <3> QED BY <3>1, <3>2
    <2> QED BY <2>1 DEF Exact
  <1>4. ASSUME NEW p \in Procs, Fairly(p)
        PROVE  Alone(p) /\ Matches(unacked'[p], incoming'[p], held'[p], task'[p])
    BY <1>1, <1>4, StaysOK, DeliversOK, TakesOK, RefusesOK, ReleasesOK, RetiresOK, ClosesOK
    DEF Fairly, Fair
  <1>5. ASSUME NEW p \in Procs, ReserveClaims(p), Placing(p)
        PROVE  Alone(p) /\ Matches(unacked'[p], incoming'[p], held'[p], task'[p])
    <2>1. task[p].message.job \in Jobs /\ task[p].pc = "claim"
      BY <1>5, ClaimingIs DEF ReserveClaims
    <2>2. held[p][task[p].message.job] = NotHeld
      BY <2>1 DEF HeldByTask, HoldsFor
    <2>3. ~held[p][task[p].message.job].live
      BY <2>2, NotHeldType
    <2> QED BY <1>1, <1>5, <2>3, ClaimsOK DEF Placing
  <1>6. \A p \in Procs : ~ReserveFails(p)
    BY DEF Sound, ReserveFails, Fault
  <1> QED BY <1>2, <1>3, <1>4, <1>5, <1>6, NextShapes

\* Every delivery that counts against a channel's prefetch is one that somebody will
\* settle.  The two failures that break it, a claim() that raises and a child that
\* cannot be started, are excluded; crashes, reconnects, failing passes, publishes and
\* finishes are not.
THEOREM NoDeliveryForgottenHolds ==
  ASSUME Failures \cap {"claim", "spawn"} = {}
  PROVE  Spec => []NoDeliveryForgotten
  <1>0. Sound
    BY DEF Sound
  <1>1. Init => HeldByTask /\ Exact
    <2> SUFFICES ASSUME Init PROVE HeldByTask /\ Exact
      OBVIOUS
    <2>1. \A p \in Procs : /\ task[p] = Idle /\ incoming[p] = <<>>
                           /\ \A j \in Jobs : held[p][j] = NotHeld
                           /\ unacked[p] = [m \in Message |-> 0]
      BY DEF Init
    <2>2. ASSUME NEW p \in Procs, NEW m \in Message
          PROVE  unacked[p][m] = Known(incoming[p], held[p], task[p], m)
      <3>1. Cardinality(Where(incoming[p], Alive(m))) = 0
        BY <2>1, WhereEmpty
      <3>2. m.job \in Jobs
        BY DEF Message
      <3>3. One(Taken(task[p], m)) = 0 /\ One(Behind(held[p], m)) = 0
        BY <2>1, <3>2, NotHeldType DEF One, Taken, Behind, Idle
      <3> QED BY <2>1, <3>1, <3>3 DEF Known
    <2> QED BY <2>1, <2>2 DEF HeldByTask, Exact, Matches
  <1>2. IInv /\ HeldByTask /\ Exact /\ [Next]_vars => (HeldByTask /\ Exact)'
    <2>1. CASE Next
      BY <1>0, <2>1, HoldingStep, ExactStep
    <2>2. CASE UNCHANGED vars
      BY <2>2 DEF vars, brokerVars, localVars, HeldByTask, Exact
    <2> QED BY <2>1, <2>2
  <1>3. IInv /\ HeldByTask /\ Exact => NoDeliveryForgotten
    <2> SUFFICES ASSUME IInv, HeldByTask, Exact, NEW p \in up, NEW m \in Message
                 PROVE  unacked[p][m] = LiveIn(p, m) + IF InHand(p, m) THEN 1 ELSE 0
      BY DEF NoDeliveryForgotten
    <2>1. p \in Procs /\ m.job \in Jobs /\ incoming[p] \in Seq(Delivery)
      BY DEF IInv, Types, Message
    <2>2. unacked[p][m] = Known(incoming[p], held[p], task[p], m)
      BY <2>1 DEF Exact, Matches
    <2>3. LiveIn(p, m) = Cardinality(Where(incoming[p], Alive(m)))
      BY DEF LiveIn, Where, Alive
    <2>4. PICK c \in Hold : c = held[p][m.job]
      BY <2>1 DEF IInv, Types
    <2>5. InHand(p, m) <=> Taken(task[p], m) \/ Behind(held[p], m)
      <3>1. PICK yes \in BOOLEAN : yes = TRUE
        OBVIOUS
      <3>2. Behind(held[p], m) <=> c.live = yes /\ c.returns = m.returns
        BY <2>4, <3>1 DEF Behind, Hold
      <3>3. c = [lease |-> task[p].lease, returns |-> m.returns, live |-> yes]
              => c.live = yes /\ c.returns = m.returns
        OBVIOUS
      <3>4. c.live = yes /\ c.returns = m.returns /\ c.lease = task[p].lease
              => c = [lease |-> task[p].lease, returns |-> m.returns, live |-> yes]
        BY DEF Hold
      <3>5. c.live = yes => HoldsFor(task[p], m.job, c.lease)
        BY <2>1, <2>4, <3>1, NotHeldType DEF HeldByTask
      <3>6. InHand(p, m) <=>
              \/ Taken(task[p], m)
              \/ /\ task[p].pc \in {"work", "settle", "settle_publish"}
                 /\ task[p].job = m.job
                 /\ c = [lease |-> task[p].lease, returns |-> m.returns, live |-> yes]
        BY <2>4, <3>1 DEF InHand, Taken
      <3> QED BY <3>2, <3>3, <3>4, <3>5, <3>6 DEF HoldsFor
    <2>6. ~(Taken(task[p], m) /\ Behind(held[p], m))
      <3>1. Behind(held[p], m) => task[p].pc # "claim"
        BY <2>1, NotHeldType DEF Behind, HeldByTask, HoldsFor
      <3> QED BY <3>1 DEF Taken
    <2>7. Cardinality(Where(incoming[p], Alive(m))) \in Nat
      BY <2>1, KnownType
    <2>8. One(Taken(task[p], m)) + One(Behind(held[p], m)) = IF InHand(p, m) THEN 1 ELSE 0
      BY <2>5, <2>6 DEF One
    <2>9. One(Taken(task[p], m)) \in {0, 1} /\ One(Behind(held[p], m)) \in {0, 1}
      BY DEF One
    <2> QED BY <2>2, <2>3, <2>7, <2>8, <2>9 DEF Known
  <1> QED BY <1>1, <1>2, <1>3, InvHolds, PTL DEF Spec

=============================================================================
