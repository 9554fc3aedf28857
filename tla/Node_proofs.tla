----------------------------- MODULE Node_proofs -----------------------------
(***************************************************************************)
(* The machines of a node.  On the way out, for every set of keys, queue   *)
(* size and number of events, nothing parsed is lost, doubled or overtaken *)
(* while the sender lives, and KEY_END ends a session that lost nothing;   *)
(* the queue's blobs are joined by FlattenSeq, whose laws are in           *)
(* SequenceLaws.  On the way in, for every placing of the resets, size of  *)
(* a file, wrap of <seq> and number of pool threads, files are shifted by  *)
(* the true count of the resets before them, none is refused, deleted      *)
(* unread or left behind.  With lSPAD, for every number of rows, sessions, *)
(* restarts and faults, what a session reads is its own.  The panel is the *)
(* run control of RunControl_proofs, for one node.                         *)
(***************************************************************************)
EXTENDS NodePrograms, FiniteSetTheorems, SequenceLaws

-----------------------------------------------------------------------------
\* What is on its way under one key: written w, sent s, queued c, waiting for a
\* slot b, buffered u.
Lane(w, s, c, b, u) == Cat(w, Cat(Cat(Cat(s, FlattenSeq(c)), b), u))

\* An event is buffered; a put gets its slot; a buffer is flushed; a blob is
\* taken; a blob is written.
LEMMA LaneParsed ==
    ASSUME NEW S, NEW w \in Seq(S), NEW s \in Seq(S), NEW c \in Seq(Seq(S)),
           NEW b \in Seq(S), NEW u \in Seq(S), NEW e \in S
    PROVE  Lane(w, s, c, b, Plus(u, e)) = Plus(Lane(w, s, c, b, u), e)
  <1>1. PICK v \in Seq(S) : v = Cat(Cat(s, FlattenSeq(c)), b)
    BY FlattenType, CatTyped
  <1>2. Cat(v, Plus(u, e)) = Plus(Cat(v, u), e)
    BY CatAppends
  <1>v. Cat(v, u) \in Seq(S)
    BY CatTyped
  <1>3. Cat(w, Plus(Cat(v, u), e)) = Plus(Cat(w, Cat(v, u)), e)
    BY <1>v, CatAppends
  <1> QED
    BY <1>1, <1>2, <1>3 DEF Lane

LEMMA LaneSlot ==
    ASSUME NEW S, NEW w \in Seq(S), NEW s \in Seq(S), NEW c \in Seq(Seq(S)),
           NEW b \in Seq(S), NEW u \in Seq(S)
    PROVE  Lane(w, s, Append(c, b), <<>>, u) = Lane(w, s, c, b, u)
  <1>1. PICK q \in Seq(S) : q = FlattenSeq(c)
    BY FlattenType
  <1>2. FlattenSeq(Append(c, b)) = Cat(q, b)
    BY <1>1, FlattenAppend DEF Cat
  <1>3. Cat(Cat(s, Cat(q, b)), <<>>) = Cat(Cat(s, q), b)
    BY CatTyped, CatGroups, CatEmpty
  <1> QED
    BY <1>1, <1>2, <1>3 DEF Lane

LEMMA LaneFlushed ==
    ASSUME NEW S, NEW w \in Seq(S), NEW s \in Seq(S), NEW c \in Seq(Seq(S)), NEW u \in Seq(S)
    PROVE  Lane(w, s, c, u, <<>>) = Lane(w, s, c, <<>>, u)
  <1>1. PICK v \in Seq(S) : v = Cat(s, FlattenSeq(c))
    BY FlattenType, CatTyped
  <1>2. Cat(Cat(v, u), <<>>) = Cat(Cat(v, <<>>), u)
    BY CatTyped, CatEmpty
  <1> QED
    BY <1>1, <1>2 DEF Lane

LEMMA LaneTaken ==
    ASSUME NEW S, NEW w \in Seq(S), NEW c \in Seq(Seq(S)), c # <<>>,
           NEW b \in Seq(S), NEW u \in Seq(S)
    PROVE  Lane(w, Head(c), Tail(c), b, u) = Lane(w, <<>>, c, b, u)
  <1>1. Cat(<<>>, FlattenSeq(c)) = FlattenSeq(c)
    BY FlattenType, CatEmpty
  <1>2. FlattenSeq(c) = Cat(Head(c), FlattenSeq(Tail(c)))
    BY FlattenHead DEF Cat
  <1> QED
    BY <1>1, <1>2 DEF Lane

LEMMA LaneSent ==
    ASSUME NEW S, NEW w \in Seq(S), NEW s \in Seq(S), NEW c \in Seq(Seq(S)),
           NEW b \in Seq(S), NEW u \in Seq(S)
    PROVE  Lane(Cat(w, s), <<>>, c, b, u) = Lane(w, s, c, b, u)
  <1>1. PICK q \in Seq(S) : q = FlattenSeq(c)
    BY FlattenType
  <1>2. Cat(<<>>, q) = q
    BY CatEmpty
  <1>3. Cat(Cat(w, s), Cat(Cat(q, b), u)) = Cat(w, Cat(Cat(Cat(s, q), b), u))
    BY CatTyped, CatGroups
  <1> QED
    BY <1>1, <1>2, <1>3 DEF Lane

\* The blobs of the queue under one key.
Column(q, k) == [i \in 1 .. Len(q) |-> q[i][k]]

LEMMA ColumnTyped ==
    ASSUME NEW S, NEW q \in Seq([Keys -> Seq(S)]), NEW k \in Keys
    PROVE  /\ Column(q, k) \in Seq(Seq(S)) /\ Len(Column(q, k)) = Len(q)
           /\ q # <<>> => Column(q, k) # <<>>
  <1> DEFINE c == Column(q, k)
  <1>1. c \in Seq(Seq(S)) /\ Len(c) = Len(q)
    BY DEF Column
  <1> HIDE DEF c
  <1>2. q # <<>> => c # <<>>
    BY <1>1
  <1> QED
    BY <1>1, <1>2 DEF c

LEMMA ColumnAppend ==
    ASSUME NEW S, NEW q \in Seq([Keys -> Seq(S)]), NEW x \in [Keys -> Seq(S)], NEW k \in Keys
    PROVE  Column(Append(q, x), k) = Append(Column(q, k), x[k])
  BY DEF Column

LEMMA ColumnTail ==
    ASSUME NEW S, NEW q \in Seq([Keys -> Seq(S)]), q # <<>>, NEW k \in Keys
    PROVE  /\ Head(Column(q, k)) = Head(q)[k] /\ Head(q) \in [Keys -> Seq(S)]
           /\ Column(Tail(q), k) = Tail(Column(q, k)) /\ Tail(q) \in Seq([Keys -> Seq(S)])
  BY DEF Column
-----------------------------------------------------------------------------
\* The inductive invariant. A put adds to `unfinished` what it adds to `sq` and
\* the sender takes away what it has sent; run() reaches its join with empty
\* buffers, and passes it with nothing in the queue but the None.
Blobs == [Keys -> Seq(1 .. MaxEvents)]
UpTo(n) == [i \in 1 .. n |-> i]

Counted == unfinished = Len(sq) + (IF sender = "send" THEN 1 ELSE 0)
HandsEmpty ==
    /\ sender # "send" => sending = Empty
    /\ pc # "put" => blocked = Empty
    /\ sender = "died" => link = "down"
Drained ==
    /\ pc = "join" => bufs = Empty
    /\ pc = "put" => resume # "join_thread" /\ (resume = "join" => bufs = Empty)
    /\ pc \in {"join_thread", "done"} =>
         bufs = Empty /\ sending = Empty /\ (sq = <<>> \/ sq = <<EndBlob>>)
ToldAtEnd == key_end => pc = "done" /\ sender # "died"
LaneNow(k) == Lane(wire[k], sending[k], Column(sq, k), blocked[k], bufs[k])
LanesWhole == sender # "died" => \A k \in Keys : LaneNow(k) = UpTo(parsed[k])

QueueInv == TypeOK /\ Counted /\ HandsEmpty /\ Drained /\ ToldAtEnd /\ LanesWhole

LEMMA UpToNext == ASSUME NEW n \in Nat PROVE Append(UpTo(n), n + 1) = UpTo(n + 1)
  <1>1. UpTo(n) \in Seq(Nat) /\ Len(UpTo(n)) = n
    BY DEF UpTo
  <1>2. UpTo(n + 1) \in Seq(Nat) /\ Len(UpTo(n + 1)) = n + 1
    BY DEF UpTo
  <1> DEFINE a == Append(UpTo(n), n + 1)
             b == UpTo(n + 1)
  <1>3. a \in Seq(Nat) /\ Len(a) = n + 1 /\ a[n + 1] = n + 1
        /\ \A i \in 1 .. n : a[i] = UpTo(n)[i]
    BY <1>1
  <1>4. \A i \in 1 .. n + 1 : b[i] = i
    BY DEF UpTo
  <1>5. \A i \in 1 .. n : UpTo(n)[i] = i
    BY DEF UpTo
  <1> HIDE DEF a, b
  <1>6. \A i \in 1 .. n + 1 : a[i] = b[i]
    BY <1>3, <1>4, <1>5
  <1>7. b \in Seq(Nat) /\ Len(b) = n + 1
    BY <1>2 DEF b
  <1>8. a = b
    BY <1>3, <1>6, <1>7
  <1> QED
    BY <1>8 DEF a, b

LEMMA EmptyTyped == Empty \in Blobs /\ \A k \in Keys : Empty[k] = <<>>
  BY DEF Empty, Blobs

LEMMA QueueTyped ==
    ASSUME TypeOK
    PROVE  /\ sq \in Seq(Blobs) /\ Len(sq) \in Nat
           /\ wire \in Blobs /\ sending \in Blobs /\ blocked \in Blobs /\ bufs \in Blobs
           /\ \A k \in Keys : Column(sq, k) \in Seq(Seq(1 .. MaxEvents))
  <1>1. sq \in Seq(Blobs) /\ Len(sq) \in Nat
    BY DEF TypeOK, Blobs
  <1>2. ASSUME NEW k \in Keys PROVE Column(sq, k) \in Seq(Seq(1 .. MaxEvents))
    BY <1>1, ColumnTyped DEF Blobs
  <1> QED
    BY <1>1, <1>2 DEF TypeOK, Blobs

\* A flush moves the events of its keys from the buffers to the blob it puts, in
\* the queue or waiting for it, and no key's events change their order.
LEMMA FlushKeepsLanes ==
    ASSUME TypeOK, HandsEmpty, NEW keys \in SUBSET Keys, NEW next, pc # "put",
           Flush(keys, next), UNCHANGED <<sending, wire>>
    PROVE  /\ \A k \in Keys : LaneNow(k)' = LaneNow(k)
           /\ sq' \in Seq(Blobs) /\ bufs' \in Blobs /\ blocked' \in Blobs
           /\ \A k \in keys : bufs'[k] = <<>>
  <1> DEFINE blob == [k \in Keys |-> IF k \in keys THEN bufs[k] ELSE <<>>]
             E == 1 .. MaxEvents
  <1>1. blob \in Blobs /\ bufs' \in Blobs
    BY QueueTyped, EmptyTyped DEF Flush, Flushed, Blobs
  <1>2. /\ \A k \in Keys : blob[k] = IF k \in keys THEN bufs[k] ELSE <<>>
        /\ \A k \in Keys : bufs'[k] = IF k \in keys THEN <<>> ELSE bufs[k]
        /\ blocked = Empty
    BY DEF Flush, Flushed, HandsEmpty
  <1>3. \/ blob = Empty /\ sq' = sq /\ blocked' = blocked
        \/ sq' = Append(sq, blob) /\ blocked' = blocked
        \/ sq' = sq /\ blocked' = blob
    BY DEF Flush, Put
  <1>4. \A k \in keys : bufs'[k] = <<>>
    BY <1>2
  <1> HIDE DEF blob
  <1>5. sq' \in Seq(Blobs) /\ blocked' \in Blobs
    <2>1. Append(sq, blob) \in Seq(Blobs)
      BY <1>1, QueueTyped, AppendAt
    <2> QED
      BY <1>1, <1>3, <2>1, QueueTyped
  <1>6. ASSUME NEW k \in Keys PROVE LaneNow(k)' = LaneNow(k)
    <2> DEFINE w == wire[k]
               s == sending[k]
               c == Column(sq, k)
               x == blob[k]
               u == bufs[k]
               v == bufs'[k]
    <2>1. w \in Seq(E) /\ s \in Seq(E) /\ c \in Seq(Seq(E)) /\ x \in Seq(E) /\ u \in Seq(E)
          /\ v \in Seq(E)
      BY <1>1, QueueTyped DEF Blobs
    <2>2. blocked[k] = <<>>
      BY <1>2, EmptyTyped
    <2>3. LaneNow(k) = Lane(w, s, c, <<>>, u)
      BY <2>2 DEF LaneNow
    <2>4. LaneNow(k)' = Lane(w, s, Column(sq', k), blocked'[k], v)
      BY DEF LaneNow
    <2>5. /\ k \in keys => x = u /\ v = <<>>
          /\ k \notin keys => x = <<>> /\ v = u
      BY <1>2
    <2>6. blob = Empty => x = <<>>
      BY EmptyTyped
    <2>7. Column(Append(sq, blob), k) = Append(c, x)
      BY <1>1, QueueTyped, ColumnAppend DEF Blobs
    <2> HIDE DEF w, s, c, x, u, v
    <2>8. Lane(w, s, c, x, v) = Lane(w, s, c, <<>>, u)
      <3>1. CASE k \in keys
        BY <2>1, <2>5, <3>1, LaneFlushed
      <3>2. CASE k \notin keys
        BY <2>5, <3>2
      <3> QED
        BY <3>1, <3>2
    <2>9. CASE blob = Empty /\ sq' = sq /\ blocked' = blocked
      <3>1. LaneNow(k)' = Lane(w, s, c, x, v)
        BY <2>2, <2>4, <2>6, <2>9 DEF c
      <3> QED
        BY <2>3, <2>8, <3>1
    <2>10. CASE sq' = Append(sq, blob) /\ blocked' = blocked
      <3>1. LaneNow(k)' = Lane(w, s, Append(c, x), <<>>, v)
        BY <2>2, <2>4, <2>7, <2>10
      <3>2. Lane(w, s, Append(c, x), <<>>, v) = Lane(w, s, c, x, v)
        BY <2>1, LaneSlot
      <3> QED
        BY <2>3, <2>8, <3>1, <3>2
    <2>11. CASE sq' = sq /\ blocked' = blob
      <3>1. LaneNow(k)' = Lane(w, s, c, x, v)
        BY <2>4, <2>11 DEF c, x
      <3> QED
        BY <2>3, <2>8, <3>1
    <2> QED
      BY <1>3, <2>9, <2>10, <2>11
  <1> QED
    BY <1>1, <1>4, <1>5, <1>6

LEMMA FlushKeeps ==
    ASSUME QueueInv, NEW keys \in SUBSET Keys, NEW next, pc \in {"loop", "marked"},
           next = "loop" \/ (next = "join" /\ keys = Keys), Flush(keys, next),
           UNCHANGED <<stop_event, parsed, sender, sending, link, wire, key_end>>
    PROVE  QueueInv'
  <1>1. /\ \A k \in Keys : LaneNow(k)' = LaneNow(k)
        /\ sq' \in Seq(Blobs) /\ bufs' \in Blobs /\ blocked' \in Blobs
        /\ \A k \in keys : bufs'[k] = <<>>
    BY FlushKeepsLanes DEF QueueInv
  <1>2. \/ pc' = next /\ UNCHANGED <<blocked, sq, unfinished>>
        \/ /\ Len(sq) < QueueMax /\ pc' = next /\ blocked' = blocked
           /\ Len(sq') = Len(sq) + 1 /\ unfinished' = unfinished + 1
        \/ pc' = "put" /\ UNCHANGED <<sq, unfinished>>
    <2> DEFINE blob == [k \in Keys |-> IF k \in keys THEN bufs[k] ELSE <<>>]
    <2>1. blob \in Blobs
      BY QueueTyped, EmptyTyped DEF QueueInv, Blobs
    <2>2. Len(Append(sq, blob)) = Len(sq) + 1
      BY <2>1, QueueTyped, AppendAt DEF QueueInv
    <2>3. \/ pc' = next /\ UNCHANGED <<blocked, sq, unfinished>>
          \/ Put(blob) /\ resume' = next
      BY DEF Flush
    <2> HIDE DEF blob
    <2> QED
      BY <2>2, <2>3 DEF Put
  <1>3. resume' = next
    BY DEF Flush
  <1>4. Len(sq) \in Nat
    BY QueueTyped DEF QueueInv
  <1>5. next = "join" => bufs' = Empty
    BY <1>1 DEF Empty, Blobs
  <1>6. TypeOK'
    <2>1. Len(sq') =< QueueMax
      BY <1>2, <1>4, SendQueueAssumption DEF QueueInv, TypeOK
    <2>2. unfinished' \in 0 .. QueueMax + 1
      BY <1>2, <1>4, SendQueueAssumption DEF QueueInv, TypeOK, Counted
    <2>3. pc' \in {"loop", "join", "put"} /\ resume' \in {"loop", "join"}
      BY <1>2, <1>3
    <2> QED
      BY <1>1, <2>1, <2>2, <2>3 DEF QueueInv, TypeOK, Blobs
  <1>7. Counted'
    <2>1. unfinished' - unfinished = Len(sq') - Len(sq) /\ sender' = sender
      BY <1>2, <1>4 DEF QueueInv, TypeOK
    <2>2. Len(sq') \in Nat /\ unfinished \in Int /\ unfinished' \in Int
      BY <1>2, <1>4 DEF QueueInv, TypeOK
    <2> QED
      BY <1>4, <2>1, <2>2 DEF QueueInv, Counted
  <1>8. HandsEmpty'
    BY <1>2 DEF QueueInv, HandsEmpty
  <1>9. Drained'
    BY <1>2, <1>3, <1>5 DEF Drained
  <1>10. ToldAtEnd'
    BY DEF QueueInv, ToldAtEnd
  <1>11. LanesWhole'
    BY <1>1 DEF QueueInv, LanesWhole
  <1> QED
    BY <1>6, <1>7, <1>8, <1>9, <1>10, <1>11 DEF QueueInv

LEMMA ParseKeeps == ASSUME QueueInv, NEW k \in Keys, Parse(k) PROVE QueueInv'
  <1>1. parsed[k] + 1 \in 1 .. MaxEvents /\ parsed[k] \in Nat
    BY SendQueueAssumption DEF QueueInv, TypeOK, Parse
  <1>2. /\ bufs' = [bufs EXCEPT ![k] = Append(bufs[k], parsed[k] + 1)]
        /\ parsed' = [parsed EXCEPT ![k] = parsed[k] + 1]
    BY DEF Parse
  <1>3. Append(bufs[k], parsed[k] + 1) \in Seq(1 .. MaxEvents)
    BY <1>1, AppendAt DEF QueueInv, TypeOK
  <1>4. bufs' \in Blobs /\ parsed' \in [Keys -> 0 .. MaxEvents]
    BY <1>1, <1>2, <1>3 DEF QueueInv, TypeOK, Blobs
  <1>5. TypeOK'
    BY <1>4 DEF QueueInv, TypeOK, Blobs, Parse
  <1>6. Counted' /\ HandsEmpty' /\ Drained' /\ ToldAtEnd'
    BY DEF QueueInv, Parse, Counted, HandsEmpty, Drained, ToldAtEnd
  <1>7. LanesWhole'
    <2> SUFFICES ASSUME sender # "died", NEW j \in Keys PROVE LaneNow(j)' = UpTo(parsed'[j])
      BY DEF LanesWhole, Parse
    <2>1. LaneNow(j) = UpTo(parsed[j])
      BY DEF QueueInv, LanesWhole
    <2>2. LaneNow(j)' = Lane(wire[j], sending[j], Column(sq, j), blocked[j], bufs'[j])
      BY DEF LaneNow, Parse
    <2>3. CASE j = k
      <3>1. bufs'[j] = Append(bufs[j], parsed[j] + 1) /\ parsed'[j] = parsed[j] + 1
        BY <1>2, <2>3 DEF QueueInv, TypeOK
      <3>2. LaneNow(j)' = Append(LaneNow(j), parsed[j] + 1)
        <4>1. /\ wire[j] \in Seq(1 .. MaxEvents) /\ sending[j] \in Seq(1 .. MaxEvents)
              /\ blocked[j] \in Seq(1 .. MaxEvents) /\ bufs[j] \in Seq(1 .. MaxEvents)
              /\ Column(sq, j) \in Seq(Seq(1 .. MaxEvents))
              /\ parsed[j] + 1 \in 1 .. MaxEvents
          BY <1>1, <2>3, QueueTyped DEF QueueInv, Blobs
        <4> DEFINE w == wire[j]
                   s == sending[j]
                   c == Column(sq, j)
                   x == blocked[j]
                   u == bufs[j]
                   e == parsed[j] + 1
               E == 1 .. MaxEvents
        <4>3. LaneNow(j)' = Lane(w, s, c, x, Plus(u, e)) /\ LaneNow(j) = Lane(w, s, c, x, u)
          BY <2>2, <3>1 DEF LaneNow, Plus
        <4>2. w \in Seq(E) /\ s \in Seq(E) /\ c \in Seq(Seq(E)) /\ x \in Seq(E) /\ u \in Seq(E)
              /\ e \in E
          BY <4>1
        <4> HIDE DEF w, s, c, x, u, e, E
        <4>5. LaneNow(j)' = Plus(LaneNow(j), e)
          BY <4>2, <4>3, LaneParsed
        <4> QED
          BY <4>5 DEF e, Plus
      <3> QED
        BY <1>1, <2>1, <2>3, <3>1, <3>2, UpToNext
    <2>4. CASE j # k
      BY <1>2, <2>1, <2>2, <2>4 DEF QueueInv, TypeOK, LaneNow
    <2> QED
      BY <2>3, <2>4
  <1> QED
    BY <1>5, <1>6, <1>7 DEF QueueInv

LEMMA SlotKeeps == ASSUME QueueInv, PutGetsSlot PROVE QueueInv'
  <1>1. sq' = Append(sq, blocked) /\ blocked' = Empty /\ Len(sq) < QueueMax
        /\ unfinished' = unfinished + 1 /\ pc = "put" /\ pc' = resume
    BY DEF PutGetsSlot
  <1>2. sq' \in Seq(Blobs) /\ Len(sq') = Len(sq) + 1 /\ Len(sq) \in Nat /\ blocked' \in Blobs
    BY <1>1, QueueTyped, EmptyTyped, AppendAt DEF QueueInv
  <1>3. TypeOK'
    <2>1. Len(sq') =< QueueMax /\ unfinished' \in 0 .. QueueMax + 1
      BY <1>1, <1>2, SendQueueAssumption DEF QueueInv, TypeOK, Counted
    <2> QED
      BY <1>1, <1>2, <2>1 DEF QueueInv, TypeOK, Blobs, PutGetsSlot
  <1>4. Counted'
    <2>1. sender' = sender
      BY DEF PutGetsSlot
    <2> QED
      BY <1>1, <1>2, <2>1 DEF QueueInv, Counted
  <1>5. HandsEmpty' /\ Drained' /\ ToldAtEnd'
    BY DEF QueueInv, TypeOK, PutGetsSlot, HandsEmpty, Drained, ToldAtEnd
  <1>6. ASSUME NEW k \in Keys PROVE LaneNow(k)' = LaneNow(k)
    <2>1. Column(sq', k) = Append(Column(sq, k), blocked[k]) /\ blocked'[k] = <<>>
      BY <1>1, QueueTyped, ColumnAppend, EmptyTyped DEF QueueInv, Blobs
    <2>2. LaneNow(k)' = Lane(wire[k], sending[k], Append(Column(sq, k), blocked[k]), <<>>, bufs[k])
      BY <2>1 DEF LaneNow, PutGetsSlot
    <2>3. /\ wire[k] \in Seq(1 .. MaxEvents) /\ sending[k] \in Seq(1 .. MaxEvents)
          /\ blocked[k] \in Seq(1 .. MaxEvents) /\ bufs[k] \in Seq(1 .. MaxEvents)
          /\ Column(sq, k) \in Seq(Seq(1 .. MaxEvents))
      BY QueueTyped DEF QueueInv, Blobs
    <2> QED
      BY <2>2, <2>3, LaneSlot DEF LaneNow
  <1>7. LanesWhole'
    BY <1>6 DEF QueueInv, LanesWhole, PutGetsSlot
  <1> QED
    BY <1>3, <1>4, <1>5, <1>7 DEF QueueInv

LEMMA JoinKeeps == ASSUME QueueInv, JoinQueue PROVE QueueInv'
  <1>1. unfinished = 0 /\ Len(sq) = 0 /\ sender # "send" /\ sq = <<>>
    <2>1. unfinished = 0 /\ Len(sq) \in Nat /\ sq \in Seq(Blobs)
      BY QueueTyped DEF JoinQueue, Joined, QueueInv
    <2>2. Len(sq) = 0 /\ sender # "send"
      BY <2>1 DEF QueueInv, Counted
    <2> QED
      BY <2>1, <2>2
  <1>2. sq' = <<EndBlob>> /\ pc' = "join_thread" /\ blocked' = blocked /\ unfinished' = 1
        /\ resume' = "join_thread" /\ sending = Empty /\ bufs = Empty /\ blocked = Empty
    <2>1. Len(sq) < QueueMax
      BY <1>1, SendQueueAssumption
    <2>2. sq' = Append(sq, EndBlob) /\ unfinished' = unfinished + 1 /\ pc' = resume'
          /\ blocked' = blocked /\ resume' = "join_thread" /\ pc = "join"
      BY <2>1 DEF JoinQueue, Put
    <2>3. Append(<<>>, EndBlob) = <<EndBlob>>
      OBVIOUS
    <2>4. sending = Empty /\ bufs = Empty /\ blocked = Empty
      BY <1>1, <2>2 DEF QueueInv, HandsEmpty, Drained
    <2> QED
      BY <1>1, <2>2, <2>3, <2>4
  <1>3. sq' \in Seq(Blobs) /\ Len(sq') = 1
    <2>1. EndBlob \in Blobs
      BY EmptyTyped DEF EndBlob
    <2> QED
      BY <1>2, <2>1
  <1>4. TypeOK'
    BY <1>2, <1>3, SendQueueAssumption DEF QueueInv, TypeOK, Blobs, JoinQueue
  <1>5. Counted'
    BY <1>1, <1>2, <1>3 DEF Counted, JoinQueue
  <1>6. HandsEmpty' /\ Drained' /\ ToldAtEnd'
    BY <1>1, <1>2 DEF QueueInv, JoinQueue, HandsEmpty, Drained, ToldAtEnd
  <1>7. ASSUME NEW k \in Keys PROVE LaneNow(k)' = LaneNow(k)
    <2> DEFINE w == wire[k]
               s == sending[k]
               c == Column(sq, k)
               u == bufs[k]
               E == 1 .. MaxEvents
    <2>1. w \in Seq(E) /\ s \in Seq(E) /\ c \in Seq(Seq(E)) /\ u \in Seq(E) /\ <<>> \in Seq(E)
      BY QueueTyped DEF QueueInv, Blobs
    <2>2. EndBlob \in Blobs /\ EndBlob[k] = <<>> /\ blocked[k] = <<>>
      BY <1>2, EmptyTyped DEF EndBlob
    <2>3. Column(sq', k) = Append(c, <<>>)
      <3>1. sq' = Append(sq, EndBlob)
        BY <1>1, <1>2
      <3>2. Column(Append(sq, EndBlob), k) = Append(Column(sq, k), EndBlob[k])
        BY <2>2, QueueTyped, ColumnAppend DEF QueueInv, Blobs
      <3> QED
        BY <2>2, <3>1, <3>2
    <2>4. LaneNow(k)' = Lane(w, s, Append(c, <<>>), <<>>, u)
      BY <1>2, <2>2, <2>3 DEF LaneNow, JoinQueue
    <2>5. LaneNow(k) = Lane(w, s, c, <<>>, u)
      BY <2>2 DEF LaneNow
    <2> DEFINE x == <<>>
    <2>6. x \in Seq(E) /\ LaneNow(k)' = Lane(w, s, Append(c, x), <<>>, u)
          /\ LaneNow(k) = Lane(w, s, c, x, u)
      BY <2>1, <2>4, <2>5
    <2> HIDE DEF w, s, c, u, E, x
    <2> QED
      BY <2>1, <2>6, LaneSlot
  <1>8. LanesWhole'
    BY <1>7 DEF QueueInv, LanesWhole, JoinQueue
  <1> QED
    BY <1>4, <1>5, <1>6, <1>8 DEF QueueInv

LEMMA GetKeeps == ASSUME QueueInv, Get PROVE QueueInv'
  <1>1. sender = "get" /\ sq # <<>> /\ sending' = Head(sq) /\ sq' = Tail(sq) /\ sender' = "send"
        /\ sending = Empty
    BY DEF Get, Taken, QueueInv, HandsEmpty
  <1>2. sq \in Seq(Blobs) /\ Len(sq) \in Nat
    BY QueueTyped DEF QueueInv
  <1>3. sq' \in Seq(Blobs) /\ Len(sq') = Len(sq) - 1 /\ sending' \in Blobs /\ Len(sq) > 0
    BY <1>1, <1>2
  <1>4. TypeOK'
    <2>1. Len(sq') =< QueueMax
      BY <1>2, <1>3, SendQueueAssumption DEF QueueInv, TypeOK
    <2> QED
      BY <1>1, <1>3, <2>1 DEF QueueInv, TypeOK, Blobs, Get
  <1>5. Counted'
    BY <1>1, <1>2, <1>3 DEF QueueInv, Counted, Get
  <1>6. HandsEmpty' /\ ToldAtEnd'
    BY <1>1 DEF QueueInv, Get, HandsEmpty, ToldAtEnd
  <1>7. Drained'
    <2>1. sq = <<EndBlob>> => sq' = <<>> /\ sending' = Empty
      BY <1>1 DEF EndBlob
    <2> QED
      BY <1>1, <2>1 DEF QueueInv, Get, Drained
  <1>8. ASSUME NEW k \in Keys PROVE LaneNow(k)' = LaneNow(k)
    <2> DEFINE w == wire[k]
               c == Column(sq, k)
               x == blocked[k]
               u == bufs[k]
               E == 1 .. MaxEvents
    <2>1. w \in Seq(E) /\ c \in Seq(Seq(E)) /\ c # <<>> /\ x \in Seq(E) /\ u \in Seq(E)
      BY <1>1, QueueTyped, ColumnTyped DEF QueueInv, Blobs
    <2>2. Head(c) = sending'[k] /\ Column(sq', k) = Tail(c)
      BY <1>1, QueueTyped, ColumnTail DEF QueueInv, Blobs
    <2>3. sending[k] = <<>>
      BY <1>1, EmptyTyped
    <2>4. LaneNow(k)' = Lane(w, Head(c), Tail(c), x, u) /\ LaneNow(k) = Lane(w, <<>>, c, x, u)
      BY <2>2, <2>3 DEF LaneNow, Get
    <2> HIDE DEF w, c, x, u, E
    <2> QED
      BY <2>1, <2>4, LaneTaken
  <1>9. LanesWhole'
    BY <1>1, <1>8 DEF QueueInv, LanesWhole, Get
  <1> QED
    BY <1>4, <1>5, <1>6, <1>7, <1>9 DEF QueueInv

LEMMA SendKeeps == ASSUME QueueInv, Send PROVE QueueInv'
  <1>1. sender = "send" /\ sending' = Empty /\ sender' \in {"get", "exited"}
        /\ unfinished' = unfinished - 1
        /\ wire' = [k \in Keys |-> wire[k] \o sending[k]]
    BY DEF Send, TaskDone
  <1>2. wire' \in Blobs /\ sending' \in Blobs
    <2>1. \A k \in Keys : wire[k] \o sending[k] \in Seq(1 .. MaxEvents)
      BY QueueTyped, CatTyped DEF QueueInv, Blobs, Cat
    <2> QED
      BY <1>1, <2>1, EmptyTyped DEF Blobs
  <1>3. Len(sq) \in Nat /\ unfinished = Len(sq) + 1
    BY <1>1, QueueTyped DEF QueueInv, Counted
  <1>4. TypeOK'
    <2>1. unfinished' \in 0 .. QueueMax + 1
      BY <1>1, <1>3, SendQueueAssumption DEF QueueInv, TypeOK
    <2> QED
      BY <1>1, <1>2, <2>1 DEF QueueInv, TypeOK, Blobs, Send, main
  <1>5. Counted'
    BY <1>1, <1>3 DEF Counted, Send
  <1>6. HandsEmpty' /\ Drained' /\ ToldAtEnd'
    BY <1>1 DEF QueueInv, Send, main, HandsEmpty, Drained, ToldAtEnd
  <1>7. ASSUME NEW k \in Keys PROVE LaneNow(k)' = LaneNow(k)
    <2> DEFINE w == wire[k]
               s == sending[k]
               c == Column(sq, k)
               x == blocked[k]
               u == bufs[k]
               E == 1 .. MaxEvents
    <2>1. w \in Seq(E) /\ s \in Seq(E) /\ c \in Seq(Seq(E)) /\ x \in Seq(E) /\ u \in Seq(E)
      BY QueueTyped DEF QueueInv, Blobs
    <2>2. wire'[k] = Cat(w, s) /\ sending'[k] = <<>>
      BY <1>1, EmptyTyped DEF Cat
    <2>3. LaneNow(k)' = Lane(Cat(w, s), <<>>, c, x, u) /\ LaneNow(k) = Lane(w, s, c, x, u)
      BY <2>2 DEF LaneNow, Send, main
    <2> HIDE DEF w, s, c, x, u, E
    <2> QED
      BY <2>1, <2>3, LaneSent
  <1>8. LanesWhole'
    BY <1>1, <1>7 DEF QueueInv, LanesWhole, Send, main
  <1> QED
    BY <1>4, <1>5, <1>6, <1>8 DEF QueueInv

LEMMA SendFailsKeeps == ASSUME QueueInv, SendFails PROVE QueueInv'
  <1>1. sender = "send" /\ sending' = Empty /\ sender' = "died" /\ unfinished' = unfinished - 1
        /\ link = "down" /\ sending # EndBlob
    BY DEF SendFails, TaskDone
  <1>2. Len(sq) \in Nat /\ unfinished = Len(sq) + 1
    BY <1>1, QueueTyped DEF QueueInv, Counted
  <1>3. TypeOK'
    <2>1. unfinished' \in 0 .. QueueMax + 1
      BY <1>1, <1>2, SendQueueAssumption DEF QueueInv, TypeOK
    <2> QED
      BY <1>1, <2>1, EmptyTyped DEF QueueInv, TypeOK, Blobs, SendFails, main
  <1>4. Counted'
    BY <1>1, <1>2 DEF Counted, SendFails
  <1>5. HandsEmpty' /\ Drained'
    BY <1>1 DEF QueueInv, SendFails, main, HandsEmpty, Drained
  <1>6. ToldAtEnd' /\ LanesWhole'
    <2>1. key_end = FALSE
      BY <1>1 DEF QueueInv, TypeOK, ToldAtEnd, Drained, EndBlob
    <2> QED
      BY <1>1, <2>1 DEF SendFails, ToldAtEnd, LanesWhole
  <1> QED
    BY <1>3, <1>4, <1>5, <1>6 DEF QueueInv

LEMMA QueueStarts == ASSUME Init PROVE QueueInv
  <1>1. TypeOK
    <2>1. /\ blocked \in Blobs /\ bufs \in Blobs /\ sending \in Blobs /\ wire \in Blobs
          /\ stop_event \in BOOLEAN /\ key_end \in BOOLEAN
      BY EmptyTyped DEF Init
    <2>2. parsed \in [Keys -> 0 .. MaxEvents] /\ unfinished \in 0 .. QueueMax + 1
      BY SendQueueAssumption DEF Init
    <2>3. sq \in Seq(Blobs) /\ Len(sq) =< QueueMax
      BY SendQueueAssumption DEF Init
    <2>4. pc = "loop" /\ resume = "loop" /\ sender = "get" /\ link = "up"
      BY DEF Init
    <2> QED
      BY <2>1, <2>2, <2>3, <2>4 DEF TypeOK, Blobs
  <1>2. Counted /\ HandsEmpty /\ Drained /\ ToldAtEnd
    BY DEF Init, Counted, HandsEmpty, Drained, ToldAtEnd
  <1>3. ASSUME NEW k \in Keys PROVE LaneNow(k) = UpTo(parsed[k])
    <2>1. Column(sq, k) = <<>> /\ wire[k] = <<>> /\ sending[k] = <<>> /\ blocked[k] = <<>>
          /\ bufs[k] = <<>> /\ parsed[k] = 0
      BY EmptyTyped DEF Init, Column
    <2>2. Lane(<<>>, <<>>, <<>>, <<>>, <<>>) = <<>>
      BY FlattenEmpty, CatEmpty DEF Lane
    <2>3. UpTo(0) = <<>>
      BY DEF UpTo
    <2> QED
      BY <2>1, <2>2, <2>3 DEF LaneNow
  <1> QED
    BY <1>1, <1>2, <1>3 DEF QueueInv, LanesWhole

LEMMA QueueSteps == QueueInv /\ [Next]_vars => QueueInv'
  <1> SUFFICES ASSUME QueueInv, [Next]_vars PROVE QueueInv'
    OBVIOUS
  <1>1. ASSUME NEW k \in Keys, Parse(k) PROVE QueueInv'
    BY <1>1, ParseKeeps
  <1>2. CASE FlushAll
    <2>1. pc \in {"loop", "marked"} /\ Flush(Keys, "loop")
          /\ UNCHANGED <<stop_event, parsed, sender, sending, link, wire, key_end>>
      BY <1>2 DEF FlushAll
    <2> QED
      BY <2>1, FlushKeeps
  <1>3. CASE LeaveLoop
    <2>1. pc \in {"loop", "marked"} /\ Flush(Keys, "join")
          /\ UNCHANGED <<stop_event, parsed, sender, sending, link, wire, key_end>>
      BY <1>3 DEF LeaveLoop
    <2> QED
      BY <2>1, FlushKeeps
  <1>4. CASE FlushMarkers
    <2>1. pc \in {"loop", "marked"} /\ Flush(Markers, "loop") /\ Markers \in SUBSET Keys
          /\ UNCHANGED <<stop_event, parsed, sender, sending, link, wire, key_end>>
      BY <1>4 DEF FlushMarkers, Keys
    <2> QED
      BY <2>1, FlushKeeps
  <1>5. CASE Stop \/ LinkDown \/ SendKeyEnd \/ UNCHANGED vars
    <2>1. UNCHANGED <<blocked, resume, parsed, bufs, sq, unfinished, sender, sending, wire>>
      BY <1>5 DEF Stop, LinkDown, SendKeyEnd, vars, main
    <2>2. TypeOK'
      <3>1. stop_event' \in BOOLEAN /\ key_end' \in BOOLEAN
        BY <1>5, Zenon DEF QueueInv, TypeOK, Stop, LinkDown, SendKeyEnd, vars, main
      <3>2. pc' \in {pc, "done"} /\ link' \in {link, "down"}
        BY <1>5 DEF Stop, LinkDown, SendKeyEnd, vars, main
      <3> QED
        BY <2>1, <3>1, <3>2 DEF QueueInv, TypeOK
    <2>3. Counted'
      BY <2>1 DEF QueueInv, Counted
    <2>4. HandsEmpty' /\ Drained' /\ ToldAtEnd'
      BY <1>5, <2>1 DEF QueueInv, TypeOK, HandsEmpty, Drained, ToldAtEnd, Stop, LinkDown,
                        SendKeyEnd, vars, main
    <2>5. LanesWhole'
      BY <2>1 DEF QueueInv, LanesWhole, LaneNow
    <2> QED
      BY <2>2, <2>3, <2>4, <2>5 DEF QueueInv
  <1>6. CASE PutGetsSlot
    BY <1>6, SlotKeeps
  <1>7. CASE JoinQueue
    BY <1>7, JoinKeeps
  <1>8. CASE Get
    BY <1>8, GetKeeps
  <1>9. CASE Send
    BY <1>9, SendKeeps
  <1>10. CASE SendFails
    BY <1>10, SendFailsKeeps
  <1> QED
    BY <1>1, <1>2, <1>3, <1>4, <1>5, <1>6, <1>7, <1>8, <1>9, <1>10
    DEF Next, Teardown, SenderStep, Ended

\* What the invariant says of the wire.
LEMMA LanesAre == \A k \in Keys : wire[k] \o Pending(k) = LaneNow(k)
  BY DEF Pending, LaneNow, Lane, Column, Cat

\* Whatever the two flushes, the full queue, the stop and the link do, while the
\* sender lives every event parsed is on the wire or on its way to it, once, in
\* the order of its key (run() and sender_fn, node_backend.py).
THEOREM NothingOvertaken == Spec => []StreamSound
  <1>1. QueueInv => StreamSound
    BY LanesAre DEF QueueInv, LanesWhole, StreamSound, StreamInOrder, UpTo
  <1> QED
    BY <1>1, QueueStarts, QueueSteps, PTL DEF Spec

\* A session that the receiver sees ended has sent all it parsed: the queue was
\* joined with nothing left but the None, and a sender that died leaves a socket
\* on which KEY_END cannot be written (the teardown of run()).
THEOREM KeyEndIsTrue == Spec => []KeyEndAfterEverything
  <1>1. QueueInv => KeyEndAfterEverything
    <2> SUFFICES ASSUME QueueInv, key_end, NEW k \in Keys PROVE wire[k] = UpTo(parsed[k])
      BY DEF KeyEndAfterEverything, UpTo
    <2>1. pc = "done" /\ sender # "died" /\ bufs = Empty /\ sending = Empty /\ blocked = Empty
          /\ (sq = <<>> \/ sq = <<EndBlob>>)
      BY DEF QueueInv, ToldAtEnd, Drained, HandsEmpty
    <2>2. FlattenSeq(Column(sq, k)) = <<>>
      <3>1. CASE sq = <<>>
        <4>1. Column(sq, k) = <<>>
          BY <3>1 DEF Column
        <4> QED
          BY <4>1, FlattenEmpty
      <3>2. CASE sq = <<EndBlob>>
        <4>1. EndBlob[k] = <<>>
          BY EmptyTyped DEF EndBlob
        <4>2. Column(sq, k) = Append(<<>>, <<>>)
          BY <3>2, <4>1 DEF Column
        <4>3. <<>> \in Seq(Seq({})) /\ <<>> \in Seq({}) /\ <<>> \o <<>> = <<>>
          OBVIOUS
        <4>4. FlattenSeq(Append(<<>>, <<>>)) = FlattenSeq(<<>>) \o <<>>
          BY <4>3, FlattenAppend
        <4> QED
          BY <4>2, <4>3, <4>4, FlattenEmpty
      <3> QED
        BY <2>1, <3>1, <3>2
    <2>3. LaneNow(k) = wire[k]
      <3>1. sending[k] = <<>> /\ blocked[k] = <<>> /\ bufs[k] = <<>>
            /\ wire[k] \in Seq(1 .. MaxEvents)
        BY <2>1, EmptyTyped, QueueTyped DEF QueueInv, Blobs
      <3> QED
        BY <2>2, <3>1, CatEmpty DEF LaneNow, Lane
    <2> QED
      BY <2>1, <2>3 DEF QueueInv, LanesWhole
  <1> QED
    BY <1>1, QueueStarts, QueueSteps, PTL DEF Spec
-----------------------------------------------------------------------------
\* The rows before file n, and those of file i.
Start(n) == n * FileRows
Part(i) == {r \in Nat : Start(i) < r /\ r =< Start(i + 1)}

LEMMA Starts ==
    ASSUME TModeAssumption
    PROVE  /\ Start(0) = 0
           /\ \A n \in Nat : Start(n) \in Nat /\ Start(n + 1) = Start(n) + FileRows
           /\ \A m, n \in Nat : m =< n => Start(m) =< Start(n)
  <1>1. FileRows \in Nat
    BY DEF TModeAssumption
  <1>2. Start(0) = 0
    BY <1>1 DEF Start
  <1>3. \A n \in Nat : Start(n) \in Nat /\ Start(n + 1) = Start(n) + FileRows
    BY <1>1 DEF Start
  <1>4. \A m, n \in Nat : m =< n => Start(m) =< Start(n)
    <2>1. \A a, b \in Nat : a * b >= 0
      OBVIOUS
    <2>2. \A m, n \in Nat : n * FileRows - m * FileRows = (n - m) * FileRows
      BY <1>1
    <2>3. ASSUME NEW m \in Nat, NEW n \in Nat, m =< n PROVE Start(m) =< Start(n)
      <3>1. n - m \in Nat
        BY <2>3
      <3>2. (n - m) * FileRows >= 0
        BY <1>1, <2>1, <3>1
      <3>3. n * FileRows \in Int /\ m * FileRows \in Int
        BY <1>1
      <3> QED
        BY <2>2, <3>2, <3>3 DEF Start
    <2> QED
      BY <2>3
  <1> QED
    BY <1>2, <1>3, <1>4

\* Each row is in a file.
LEMMA RowInFile ==
    ASSUME TModeAssumption, NEW n \in Nat, NEW r \in Nat \ {0}, r =< Start(n)
    PROVE  \E q \in 0 .. n - 1 : r \in Part(q)
  <1> DEFINE B == {q \in Nat : r =< Start(q + 1)}
  <1>1. n # 0
    BY Starts
  <1>2. n - 1 \in Nat /\ (n - 1) + 1 = n
    BY <1>1
  <1>3. n - 1 \in B
    BY <1>2
  <1>4. PICK q \in B : \A i \in B : q =< i
    BY <1>3, Least
  <1>5. q \in 0 .. n - 1
    BY <1>2, <1>3, <1>4
  <1>6. Start(q) < r
    <2>1. CASE q = 0
      BY <2>1, Starts
    <2>2. CASE q # 0
      <3>1. q - 1 \in Nat /\ (q - 1) + 1 = q /\ ~(q =< q - 1)
        BY <2>2
      <3>2. q - 1 \notin B
        BY <1>4, <3>1
      <3> QED
        BY <3>1, <3>2, Starts
    <2> QED
      BY <2>1, <2>2
  <1> QED
    BY <1>4, <1>5, <1>6 DEF Part

LEMMA RowsAre ==
    ASSUME TModeAssumption, NEW c, NEW i \in Nat,
           rows[c] \in Nat PROVE Rows(c, i) = Part(i) \cap (1 .. rows[c])
  BY Starts DEF Rows, Part, Start

\* A file holds at most FileRows rows; what lies between two rows is counted.
LEMMA Counting ==
    ASSUME TModeAssumption
    PROVE  /\ \A a, b \in Nat : IsFiniteSet({s \in Nat : a < s /\ s =< b})
           /\ \A i \in Nat : IsFiniteSet(Part(i)) /\ Cardinality(Part(i)) = FileRows
  <1>1. ASSUME NEW a \in Nat, NEW b \in Nat
        PROVE  {s \in Nat : a < s /\ s =< b} = (a + 1) .. b
    OBVIOUS
  <1>2. ASSUME NEW a \in Nat, NEW b \in Nat
        PROVE  IsFiniteSet({s \in Nat : a < s /\ s =< b})
    <2>1. IsFiniteSet((a + 1) .. b)
      BY FS_Interval
    <2> QED
      BY <1>1, <2>1
  <1>3. ASSUME NEW i \in Nat PROVE IsFiniteSet(Part(i)) /\ Cardinality(Part(i)) = FileRows
    <2> DEFINE a == Start(i)
               b == Start(i + 1)
    <2>1. a \in Nat /\ b \in Nat /\ b = a + FileRows /\ FileRows \in Nat \ {0}
      <3>1. i + 1 \in Nat
        OBVIOUS
      <3> QED
        BY <3>1, Starts DEF TModeAssumption
    <2>2. Part(i) = (a + 1) .. b
      BY <1>1, <2>1 DEF Part
    <2> HIDE DEF a, b
    <2>3. IsFiniteSet((a + 1) .. b) /\
            Cardinality((a + 1) .. b) = (IF a + 1 > b THEN 0 ELSE b - (a + 1) + 1)
      BY <2>1, FS_Interval
    <2> QED
      BY <2>1, <2>2, <2>3
  <1> QED
    BY <1>2, <1>3

LEMMA SizeBounded ==
    ASSUME TModeAssumption, NEW c, NEW i \in Nat, rows[c] \in Nat PROVE Size(c, i) \in 0 .. FileRows
  <1>1. Rows(c, i) \in SUBSET Part(i)
    BY RowsAre
  <1>2. IsFiniteSet(Part(i)) /\ Cardinality(Part(i)) = FileRows
    BY Counting
  <1>3. IsFiniteSet(Rows(c, i)) /\ Cardinality(Rows(c, i)) =< FileRows
    BY <1>1, <1>2, FS_Subset
  <1>4. Cardinality(Rows(c, i)) \in Nat
    BY <1>3, FS_CardinalityType
  <1> QED
    BY <1>3, <1>4 DEF Size, TModeAssumption

\* The resets of a chip up to the row r, and up to the row q past it.
LEMMA EpochAdds ==
    ASSUME TModeAssumption, NEW c \in Chips, NEW r \in Nat, NEW q \in Nat, r =< q
    PROVE  /\ Epoch(c, r) \in Nat
           /\ Epoch(c, q) = Epoch(c, r) + Cardinality({s \in Resets[c] : r < s /\ s =< q})
           /\ Cardinality({s \in Resets[c] : r < s /\ s =< q}) \in Nat
  <1> DEFINE X == {s \in Resets[c] : s \in 1 .. r}
             Y == {s \in Resets[c] : r < s /\ s =< q}
  <1>1. Resets[c] \subseteq Nat
    BY DEF TModeAssumption
  <1>2. IsFiniteSet(X) /\ IsFiniteSet(Y)
    <2>1. X \in SUBSET {s \in Nat : 0 < s /\ s =< r} /\ Y \in SUBSET {s \in Nat : r < s /\ s =< q}
      BY <1>1
    <2>2. IsFiniteSet({s \in Nat : 0 < s /\ s =< r}) /\ IsFiniteSet({s \in Nat : r < s /\ s =< q})
      BY Counting
    <2> HIDE DEF X, Y
    <2> QED
      BY <2>1, <2>2, FS_Subset
  <1>3. X \cap Y = {} /\ X \cup Y = {s \in Resets[c] : s \in 1 .. q}
    BY <1>1
  <1>4. Epoch(c, r) = Cardinality(X) /\ Epoch(c, q) = Cardinality(X \cup Y)
    BY <1>3 DEF Epoch
  <1> HIDE DEF X, Y
  <1>5. Cardinality(X \cup Y) = Cardinality(X) + Cardinality(Y) - Cardinality(X \cap Y)
    BY <1>2, FS_Union
  <1>6. Cardinality(X \cap Y) = 0
    BY <1>3, FS_EmptySet
  <1>7. Cardinality(X) \in Nat /\ Cardinality(Y) \in Nat
    BY <1>2, FS_CardinalityType
  <1> QED
    BY <1>4, <1>5, <1>6, <1>7 DEF Y
-----------------------------------------------------------------------------
\* The inductive invariant. What has been dispatched lies before a row lSPAD has
\* written, or lSPAD is over: it will not grow. The offset is the count at the end
\* of the last file reassembled, wherever that file ends.
Settled(c, n) == Start(n) =< rows[c] \/ lspad = "over"
Chunks == [idx : Nat, n : Nat, shift : Nat]
InFlight == (next_to_check[master] - next_to_reassemble[master])
            + (next_to_check[slave] - next_to_reassemble[slave])

Typed ==
    /\ lspad \in {"acquiring", "over"}
    /\ rows \in [Chips -> 0 .. MaxRows] /\ removed \in [Chips -> SUBSET Nat]
    /\ loop_stop \in BOOLEAN /\ stopping \in BOOLEAN /\ reply_received \in BOOLEAN
    /\ loop_pc \in {"poll", "size", "rotated", "stable", "collect", "ended"}
    /\ turn \in {1, 2} /\ size1 \in 0 .. FileRows
    /\ next_to_check \in [Chips -> Nat] /\ next_to_reassemble \in [Chips -> Nat]
    /\ accumulated_offset \in [Chips -> Nat]
    /\ DOMAIN pending = Chips /\ loop_bufs \in [Chips -> Seq(Chunks)]
    /\ chip_done \in [Chips -> BOOLEAN]

Loop ==
    /\ reply_received => lspad = "over"
    /\ InFlight =< MaxInflight
    /\ loop_pc \in {"rotated", "stable", "collect"} => ~chip_done[chip]
    /\ loop_pc \in {"rotated", "stable"} =>
               InFlight < MaxInflight /\ Start(next_to_check[chip]) < rows[chip]
    /\ loop_pc = "stable" => Settled(chip, next_to_check[chip] + 1)
    /\ loop_pc = "ended" => \A c \in Chips : chip_done[c]

InOrder(c) ==
    /\ next_to_reassemble[c] =< next_to_check[c]
    /\ DOMAIN pending[c] = next_to_reassemble[c] .. next_to_check[c] - 1
    /\ removed[c] \subseteq 0 .. next_to_reassemble[c] - 1
    /\ next_to_check[c] > 0 => Start(next_to_check[c] - 1) < rows[c]
    /\ Settled(c, next_to_check[c])
Results(c) ==
    \A i \in next_to_reassemble[c] .. next_to_check[c] - 1 :
        pending[c][i] \in {Running, Processed(c, i)}
ReadTo(c) ==
    IF Start(next_to_reassemble[c]) =< rows[c] THEN Start(next_to_reassemble[c]) ELSE rows[c]
Offset(c) == accumulated_offset[c] = Epoch(c, ReadTo(c))
Appended(c) ==
    /\ Len(loop_bufs[c]) = next_to_reassemble[c]
    /\ \A k \in 1 .. next_to_reassemble[c] :
          /\ loop_bufs[c][k].idx = k - 1 /\ loop_bufs[c][k].n = Size(c, k - 1)
          /\ loop_bufs[c][k].shift = Epoch(c, Start(k - 1))
ChipLane(c) == InOrder(c) /\ Results(c) /\ Offset(c) /\ Appended(c)
DoneTrue(c) ==
    chip_done[c] => /\ reply_received /\ next_to_reassemble[c] = next_to_check[c]
                    /\ rows[c] =< Start(next_to_check[c])

IngestInv == Typed /\ Loop /\ \A c \in Chips : ChipLane(c) /\ DoneTrue(c)

LEMMA ChipIs == ASSUME Typed PROVE chip \in Chips
  BY DEF Typed, chip, CHIPS, Chips

LEMMA IngestStarts == ASSUME TModeAssumption, LoopInit PROVE IngestInv
  <1>1. master \in Chips /\ slave \in Chips
    BY DEF Chips
  <1>2. MaxRows \in Nat /\ FileRows \in Nat /\ MaxInflight \in Nat \ {0}
    BY DEF TModeAssumption
  <1>3. Typed
    <2>1. loop_bufs \in [Chips -> Seq(Chunks)] /\ DOMAIN pending = Chips
      BY DEF LoopInit
    <2>2. rows \in [Chips -> 0 .. MaxRows] /\ size1 \in 0 .. FileRows
      BY <1>2 DEF LoopInit
    <2>3. chip_done \in [Chips -> BOOLEAN] /\ removed \in [Chips -> SUBSET Nat]
      BY DEF LoopInit
    <2> QED
      BY <2>1, <2>2, <2>3 DEF LoopInit, Typed
  <1>4. Loop
    BY <1>1, <1>2 DEF LoopInit, Loop, InFlight
  <1>5. ASSUME NEW c \in Chips PROVE ChipLane(c) /\ DoneTrue(c)
    <2>1. InOrder(c)
      <3>1. pending[c] = <<>> /\ DOMAIN pending[c] = 0 .. 0 - 1
        BY DEF LoopInit
      <3> QED
        BY <3>1, Starts DEF LoopInit, InOrder, Settled
    <2>2. Results(c) /\ Appended(c) /\ DoneTrue(c)
      BY DEF LoopInit, Results, Appended, DoneTrue
    <2>3. Offset(c)
      <3>1. ReadTo(c) = 0
        BY Starts DEF LoopInit, ReadTo
      <3>2. Epoch(c, 0) = 0
        <4>1. {s \in Resets[c] : s \in 1 .. 0} = {}
          OBVIOUS
        <4> QED
          BY <4>1, FS_EmptySet DEF Epoch
      <3> QED
        BY <3>1, <3>2 DEF LoopInit, Offset
    <2> QED
      BY <2>1, <2>2, <2>3 DEF ChipLane
  <1> QED
    BY <1>3, <1>4, <1>5 DEF IngestInv

\* A lane nothing happens in.
LEMMA LaneStays ==
    ASSUME NEW c \in Chips, ChipLane(c), rows'[c] = rows[c], removed'[c] = removed[c],
           next_to_check'[c] = next_to_check[c], next_to_reassemble'[c] = next_to_reassemble[c],
           accumulated_offset'[c] = accumulated_offset[c], pending'[c] = pending[c],
           loop_bufs'[c] = loop_bufs[c], lspad = "over" => lspad' = "over"
    PROVE  ChipLane(c)'
  <1>1. InOrder(c)'
    BY DEF ChipLane, InOrder, Settled
  <1>2. Results(c)'
    BY DEF ChipLane, Results, Processed, Size, Rows
  <1>3. Offset(c)'
    BY DEF ChipLane, Offset, ReadTo
  <1>4. Appended(c)'
    BY DEF ChipLane, Appended, Size, Rows
  <1> QED
    BY <1>1, <1>2, <1>3, <1>4 DEF ChipLane

\* The steps of the loop and of the panel that leave the lanes alone.
LEMMA PollKeeps == ASSUME TModeAssumption, IngestInv, Poll PROVE IngestInv'
  <1>1. Typed'
    BY DEF IngestInv, Typed, Poll, disk, lane
  <1>2. Loop'
    BY DEF IngestInv, Typed, Loop, InFlight, Poll, disk, lane
  <1>3. ASSUME NEW c \in Chips PROVE ChipLane(c)' /\ DoneTrue(c)'
    <2>1. ChipLane(c)'
      BY LaneStays DEF IngestInv, Poll, disk, lane
    <2>2. DoneTrue(c)'
      BY DEF IngestInv, DoneTrue, Poll, disk, lane
    <2> QED
      BY <2>1, <2>2
  <1> QED
    BY <1>1, <1>2, <1>3 DEF IngestInv

LEMMA StopKeeps == ASSUME IngestInv, RequestStop PROVE IngestInv'
  <1>1. Typed'
    BY DEF IngestInv, Typed, RequestStop, disk, lane
  <1>2. Loop'
    BY DEF IngestInv, Loop, InFlight, Settled, chip, RequestStop, disk, lane
  <1>3. ASSUME NEW c \in Chips PROVE ChipLane(c)' /\ DoneTrue(c)'
    <2>1. ChipLane(c)'
      BY LaneStays DEF IngestInv, RequestStop, disk, lane
    <2>2. DoneTrue(c)'
      BY DEF IngestInv, DoneTrue, RequestStop, disk, lane
    <2> QED
      BY <2>1, <2>2
  <1> QED
    BY <1>1, <1>2, <1>3 DEF IngestInv

LEMMA EndKeeps == ASSUME IngestInv, LspadEnds PROVE IngestInv'
  <1>1. Typed'
    BY DEF IngestInv, Typed, LspadEnds, lane
  <1>2. Loop'
    BY DEF IngestInv, Loop, InFlight, Settled, chip, LspadEnds, lane
  <1>3. ASSUME NEW c \in Chips PROVE ChipLane(c)' /\ DoneTrue(c)'
    <2>1. ChipLane(c)'
      BY LaneStays DEF IngestInv, LspadEnds, lane
    <2>2. DoneTrue(c)'
      BY DEF IngestInv, DoneTrue, LspadEnds, lane
    <2> QED
      BY <2>1, <2>2
  <1> QED
    BY <1>1, <1>2, <1>3 DEF IngestInv

\* The thread pool has room, and a file exists, in the terms of the invariant.
LEMMA InFlightIs ==
    ASSUME TModeAssumption, Typed, \A c \in Chips : InOrder(c) PROVE total_pending = InFlight
  <1>1. ASSUME NEW c \in Chips
        PROVE  Cardinality(DOMAIN pending[c]) = next_to_check[c] - next_to_reassemble[c]
    <2> DEFINE a == next_to_reassemble[c]
               b == next_to_check[c] - 1
    <2>1. next_to_reassemble[c] \in Nat /\ next_to_check[c] \in Nat
      BY DEF Typed
    <2>2. a \in Int /\ b \in Int /\ a =< b + 1 /\ DOMAIN pending[c] = a .. b
      BY <2>1 DEF InOrder
    <2> HIDE DEF a, b
    <2>3. Cardinality(a .. b) = IF a > b THEN 0 ELSE b - a + 1
      BY <2>2, FS_Interval
    <2>4. Cardinality(DOMAIN pending[c]) = b - a + 1
      BY <2>2, <2>3
    <2> QED
      BY <2>1, <2>4 DEF a, b
  <1> QED
    BY <1>1 DEF total_pending, InFlight, Chips

LEMMA ExistsMeans ==
    ASSUME TModeAssumption, Typed, NEW c \in Chips, NEW i \in Nat
    PROVE  Rows(c, i) # {} <=> Start(i) < rows[c]
  <1>1. rows[c] \in Nat /\ i + 1 \in Nat
    BY DEF Typed, TModeAssumption
  <1>2. Start(i) \in Nat /\ Start(i + 1) = Start(i) + FileRows /\ FileRows \in Nat \ {0}
    BY Starts DEF TModeAssumption
  <1>3. Rows(c, i) = Part(i) \cap (1 .. rows[c])
    BY <1>1, RowsAre
  <1>4. ASSUME Start(i) < rows[c] PROVE Start(i) + 1 \in Rows(c, i)
    BY <1>1, <1>2, <1>3, <1>4 DEF Part
  <1>5. ASSUME NEW r \in Rows(c, i) PROVE Start(i) < rows[c]
    BY <1>1, <1>2, <1>3 DEF Part
  <1> QED
    BY <1>4, <1>5

LEMMA MeasureKeeps == ASSUME TModeAssumption, IngestInv, MeasureFile PROVE IngestInv'
  <1>1. chip \in Chips /\ next_to_check[chip] \in Nat /\ rows[chip] \in Nat
    BY ChipIs DEF IngestInv, Typed, TModeAssumption
  <1>2. size1' \in 0 .. FileRows
    <2>1. Size(chip, next_to_check[chip]) \in 0 .. FileRows
      BY <1>1, SizeBounded
    <2> QED
      BY <2>1 DEF IngestInv, Typed, MeasureFile
  <1>3. Typed'
    BY <1>2 DEF IngestInv, Typed, MeasureFile, disk, lane
  <1>4. loop_pc' = "rotated" => InFlight < MaxInflight /\ Start(next_to_check[chip]) < rows[chip]
    <2>1. total_pending = InFlight
      BY InFlightIs DEF IngestInv, ChipLane
    <2>2. loop_pc' = "rotated" => Room /\ Exists(chip, next_to_check[chip])
      BY DEF MeasureFile
    <2>3. Exists(chip, next_to_check[chip]) => Start(next_to_check[chip]) < rows[chip]
      BY <1>1, ExistsMeans DEF Exists, IngestInv
    <2> QED
      BY <2>1, <2>2, <2>3 DEF Room
  <1>5. Loop'
    <2>1. /\ ~chip_done[chip] /\ loop_pc' \in {"rotated", "collect"} /\ chip' = chip
          /\ UNCHANGED <<reply_received, lspad, rows, chip_done, next_to_check, next_to_reassemble>>
      BY DEF MeasureFile, disk, lane, chip
    <2> QED
      BY <1>4, <2>1 DEF IngestInv, Loop, InFlight
  <1>6. ASSUME NEW c \in Chips PROVE ChipLane(c)' /\ DoneTrue(c)'
    <2>1. ChipLane(c)'
      BY LaneStays DEF IngestInv, MeasureFile, disk, lane
    <2>2. DoneTrue(c)'
      BY DEF IngestInv, DoneTrue, MeasureFile, disk, lane
    <2> QED
      BY <2>1, <2>2
  <1> QED
    BY <1>3, <1>5, <1>6 DEF IngestInv

LEMMA RotatedKeeps == ASSUME TModeAssumption, IngestInv, CheckRotated PROVE IngestInv'
  <1>1. Typed'
    BY DEF IngestInv, Typed, CheckRotated, disk, lane
  <1>2. chip \in Chips /\ next_to_check[chip] + 1 \in Nat /\ rows[chip] \in Nat
    BY ChipIs DEF IngestInv, Typed, TModeAssumption
  <1>3. Ready => Settled(chip, next_to_check[chip] + 1)
    <2>1. Exists(chip, next_to_check[chip] + 1) => Start(next_to_check[chip] + 1) < rows[chip]
      BY <1>2, ExistsMeans DEF Exists, IngestInv
    <2>2. Start(next_to_check[chip] + 1) \in Nat
      BY <1>2, Starts
    <2> QED
      BY <1>2, <2>1, <2>2 DEF Ready, Settled, IngestInv, Loop
  <1>4. Loop'
    <2>1. /\ loop_pc = "rotated" /\
               loop_pc' = (IF Ready THEN "stable" ELSE "collect") /\ chip' = chip
          /\ UNCHANGED <<reply_received, lspad, rows, chip_done, next_to_check, next_to_reassemble>>
      BY DEF CheckRotated, disk, lane, chip
    <2> QED
      BY <1>3, <2>1 DEF IngestInv, Loop, InFlight, Settled
  <1>5. ASSUME NEW c \in Chips PROVE ChipLane(c)' /\ DoneTrue(c)'
    <2>1. ChipLane(c)'
      BY LaneStays DEF IngestInv, CheckRotated, disk, lane
    <2>2. DoneTrue(c)'
      BY DEF IngestInv, DoneTrue, CheckRotated, disk, lane
    <2> QED
      BY <2>1, <2>2
  <1> QED
    BY <1>1, <1>4, <1>5 DEF IngestInv

\* A chip is done: its last file is in, and lSPAD writes no more.
LEMMA DoneMeans ==
    ASSUME TModeAssumption, IngestInv, NEW c \in Chips, NoMoreFiles(c)
    PROVE  /\ reply_received /\ next_to_reassemble[c] = next_to_check[c]
           /\ rows[c] =< Start(next_to_check[c])
  <1>1. /\ next_to_reassemble[c] \in Nat /\ next_to_check[c] \in Nat /\ rows[c] \in Nat
        /\ InOrder(c) /\ Typed
    BY DEF IngestInv, Typed, ChipLane, TModeAssumption
  <1>2. reply_received /\ ~Exists(c, next_to_check[c]) /\ DOMAIN pending[c] = {}
    BY DEF NoMoreFiles
  <1>3. next_to_reassemble[c] = next_to_check[c]
    <2>1. next_to_reassemble[c] .. next_to_check[c] - 1 = {} /\
            next_to_reassemble[c] =< next_to_check[c]
      BY <1>1, <1>2 DEF InOrder
    <2>2. next_to_reassemble[c] < next_to_check[c]
              => next_to_reassemble[c] \in next_to_reassemble[c] .. next_to_check[c] - 1
      BY <1>1
    <2> QED
      BY <1>1, <2>1, <2>2
  <1>4. next_to_check[c] \notin removed[c]
    BY <1>1, <1>3 DEF InOrder
  <1>5. ~(Start(next_to_check[c]) < rows[c])
    BY <1>1, <1>2, <1>4, ExistsMeans DEF Exists
  <1>6. Start(next_to_check[c]) \in Nat
    BY <1>1, Starts
  <1> QED
    BY <1>1, <1>2, <1>3, <1>5, <1>6

LEMMA NextChipKeeps == ASSUME TModeAssumption, IngestInv, NextChip PROVE IngestInv'
  <1>1. chip \in Chips /\ chip_done \in [Chips -> BOOLEAN]
    BY ChipIs DEF IngestInv, Typed
  <1>2. \/ chip_done' = chip_done
        \/ chip_done' = [chip_done EXCEPT ![chip] = NoMoreFiles(chip)]
    BY DEF NextChip
  <1>3. NoMoreFiles(chip) \in BOOLEAN
    <2>1. reply_received \in BOOLEAN
      BY DEF IngestInv, Typed
    <2> QED
      BY <2>1, Zenon DEF NoMoreFiles
  <1>4. chip_done' \in [Chips -> BOOLEAN]
    BY <1>1, <1>2, <1>3
  <1>5. /\ UNCHANGED <<disk, loop_stop, stopping, reply_received, size1, next_to_check,
                       next_to_reassemble, accumulated_offset, pending, loop_bufs>>
        /\ turn' \in {1, 2} /\ loop_pc' \in {"size", "ended", "poll"}
        /\ loop_pc' = "ended" => \A c \in Chips : chip_done'[c]
    <2>1. UNCHANGED <<disk, loop_stop, stopping, reply_received, size1, next_to_check,
                      next_to_reassemble, accumulated_offset, pending, loop_bufs>>
      BY DEF NextChip
    <2>2. CASE turn = 1
      BY <2>1, <2>2 DEF NextChip
    <2>3. CASE turn # 1
      <3>1. turn' = turn
            /\ loop_pc' = IF reply_received /\ \A c \in Chips : chip_done'[c] THEN "ended" ELSE "poll"
        BY <2>3 DEF NextChip
      <3> QED
        BY <2>1, <3>1 DEF IngestInv, Typed
    <2> QED
      BY <2>2, <2>3
  <1>6. Typed'
    BY <1>4, <1>5 DEF IngestInv, Typed, disk
  <1>7. Loop'
    BY <1>5 DEF IngestInv, Loop, InFlight, disk
  <1>8. ASSUME NEW c \in Chips PROVE ChipLane(c)' /\ DoneTrue(c)'
    <2>1. ChipLane(c)'
      BY <1>5, LaneStays DEF IngestInv, disk
    <2>2. chip_done'[c] => /\ reply_received /\ next_to_reassemble[c] = next_to_check[c]
                           /\ rows[c] =< Start(next_to_check[c])
      <3>1. chip_done'[c] => chip_done[c] \/ (c = chip /\ NoMoreFiles(c))
        BY <1>1, <1>2
      <3>2. chip_done[c] => /\ reply_received /\ next_to_reassemble[c] = next_to_check[c]
                            /\ rows[c] =< Start(next_to_check[c])
        BY DEF IngestInv, DoneTrue
      <3> QED
        BY <3>1, <3>2, DoneMeans
    <2>3. DoneTrue(c)'
      BY <1>5, <2>2 DEF DoneTrue, disk
    <2> QED
      BY <2>1, <2>3
  <1> QED
    BY <1>6, <1>7, <1>8 DEF IngestInv

\* The rows of a file that has been dispatched do not change.
LEMMA FileIsFrozen ==
    ASSUME TModeAssumption, NEW c \in Chips, NEW i \in Nat, rows[c] \in Nat,
           rows'[c] \in Nat, Start(i + 1) =< rows[c], rows[c] =< rows'[c]
    PROVE  Rows(c, i)' = Rows(c, i) /\ Size(c, i)' = Size(c, i) /\
           Processed(c, i)' = Processed(c, i)
  <1>1. Start(i) \in Nat /\ Start(i + 1) \in Nat
    BY Starts
  <1>2. Rows(c, i) = Part(i) \cap (1 .. rows[c])
    BY RowsAre
  <1>3. Rows(c, i)' = Part(i) \cap (1 .. rows'[c])
    BY Starts DEF Rows, Part, Start
  <1>4. Rows(c, i)' = Rows(c, i)
    BY <1>1, <1>2, <1>3 DEF Part
  <1> QED
    BY <1>4 DEF Size, Processed

LEMMA WriteKeeps == ASSUME TModeAssumption, IngestInv, NEW w \in Chips, WriteRow(w) PROVE IngestInv'
  <1>1. /\ lspad = "acquiring" /\ rows' = [rows EXCEPT ![w] = @ + 1] /\ rows[w] < MaxRows
        /\ UNCHANGED <<lspad, removed, loop_stop, stopping, reply_received, loop_pc, turn, size1,
             lane>>
    BY DEF WriteRow
  <1>2. ASSUME NEW c \in Chips
        PROVE  /\ rows[c] \in Nat /\ rows'[c] \in Nat /\
                    rows'[c] = (IF c = w THEN rows[c] + 1 ELSE rows[c])
               /\ rows[c] =< rows'[c] /\ rows'[c] \in 0 .. MaxRows
               /\ next_to_check[c] \in Nat /\ next_to_reassemble[c] \in Nat
    BY <1>1 DEF IngestInv, Typed, TModeAssumption
  <1>3. Typed'
    <2>1. rows' \in [Chips -> 0 .. MaxRows]
      <3>1. rows' = [c \in Chips |-> rows'[c]]
        BY <1>1 DEF IngestInv, Typed
      <3> QED
        BY <1>2, <3>1
    <2> QED
      BY <1>1, <2>1 DEF IngestInv, Typed, lane
  <1>4. chip \in Chips /\ chip' = chip
    BY <1>1, ChipIs DEF IngestInv, chip
  <1>5. Loop'
    <2>1. \A n \in Nat : Start(n) \in Nat
      BY Starts
    <2>2. next_to_check[chip] + 1 \in Nat
      BY <1>2, <1>4
    <2>3. loop_pc' = loop_pc /\ reply_received' = reply_received /\ lspad' = lspad /\
            InFlight' = InFlight
          /\ chip_done' = chip_done /\ next_to_check' = next_to_check
      BY <1>1 DEF lane, InFlight
    <2>4. Start(next_to_check[chip]) < rows[chip] => Start(next_to_check[chip]) < rows'[chip]
      BY <1>2, <1>4, <2>1
    <2>5. Settled(chip, next_to_check[chip] + 1) => Settled(chip, next_to_check[chip] + 1)'
      <3>1. Start(next_to_check[chip] + 1) \in Nat
        BY <2>1, <2>2
      <3> QED
        BY <1>2, <1>4, <2>3, <3>1 DEF Settled
    <2> QED
      BY <1>4, <2>3, <2>4, <2>5 DEF IngestInv, Loop
  <1>6. ASSUME NEW c \in Chips PROVE ChipLane(c)' /\ DoneTrue(c)'
    <2> DEFINE a == next_to_reassemble[c]
               b == next_to_check[c]
    <2>1. /\ Start(b) =< rows[c] /\ a =< b /\ a \in Nat /\ b \in Nat /\ Start(a) =< Start(b)
          /\ Start(a) \in Nat /\ Start(b) \in Nat
      <3>1. a \in Nat /\ b \in Nat /\ a =< b /\ Start(b) =< rows[c]
        BY <1>1, <1>2 DEF IngestInv, ChipLane, InOrder, Settled
      <3> QED
        BY <3>1, Starts
    <2>2. InOrder(c)'
      <3>1. b > 0 => Start(b - 1) < rows[c] /\ Start(b - 1) \in Nat
        <4>1. b > 0 => b - 1 \in Nat
          BY <2>1
        <4> QED
          BY <4>1, Starts DEF IngestInv, ChipLane, InOrder
      <3>2. b > 0 => Start(b - 1) < rows'[c]
        BY <1>2, <3>1
      <3>3. Start(b) =< rows'[c]
        BY <1>2, <2>1
      <3> QED
        BY <1>1, <3>2, <3>3 DEF IngestInv, ChipLane, InOrder, Settled, lane
    <2>3. ASSUME NEW i \in Nat, i < b
          PROVE  Size(c, i)' = Size(c, i) /\ Processed(c, i)' = Processed(c, i)
      <3>1. i + 1 \in Nat /\ i + 1 =< b
        BY <2>1, <2>3
      <3>2. Start(i + 1) =< Start(b) /\ Start(i + 1) \in Nat
        BY <2>1, <3>1, Starts
      <3>3. Start(i + 1) =< rows[c]
        BY <1>2, <2>1, <3>2
      <3> QED
        BY <1>2, <3>3, FileIsFrozen
    <2>4. Results(c)'
      <3>1. ASSUME NEW i \in a .. b - 1 PROVE pending[c][i] \in {Running, Processed(c, i)'}
        <4>1. i \in Nat /\ i < b
          BY <2>1
        <4> QED
          BY <2>3, <4>1 DEF IngestInv, ChipLane, Results
      <3> QED
        BY <1>1, <3>1 DEF Results, lane
    <2>5. Offset(c)'
      <3>1. ReadTo(c) = Start(a) /\ ReadTo(c)' = Start(a)
        <4>1. Start(a) =< rows[c] /\ Start(a) =< rows'[c]
          BY <1>2, <2>1
        <4> QED
          BY <1>1, <4>1 DEF ReadTo, lane
      <3> QED
        BY <1>1, <3>1 DEF IngestInv, ChipLane, Offset, lane
    <2>6. Appended(c)'
      <3>1. ASSUME NEW k \in 1 .. a PROVE Size(c, k - 1)' = Size(c, k - 1)
        <4>1. k - 1 \in Nat /\ k - 1 < b
          BY <2>1
        <4> QED
          BY <2>3, <4>1
      <3> QED
        BY <1>1, <3>1 DEF IngestInv, ChipLane, Appended, lane
    <2>7. DoneTrue(c)'
      BY <1>1 DEF IngestInv, Loop, DoneTrue, lane
    <2> QED
      BY <2>2, <2>4, <2>5, <2>6, <2>7 DEF ChipLane
  <1> QED
    BY <1>3, <1>5, <1>6 DEF IngestInv

LEMMA DispatchKeeps == ASSUME TModeAssumption, IngestInv, Dispatch PROVE IngestInv'
  <1> DEFINE idx == next_to_check[chip]
  <1>1. /\ chip \in Chips /\ chip' = chip /\ loop_pc = "stable"
        /\ UNCHANGED <<disk, loop_stop, stopping, reply_received, turn, size1,
                       next_to_reassemble, accumulated_offset, chip_done, loop_bufs>>
    BY ChipIs DEF IngestInv, Dispatch, chip
  <1>2. /\ idx \in Nat /\ ~chip_done[chip] /\ InFlight < MaxInflight /\ Start(idx) < rows[chip]
        /\ Settled(chip, idx + 1) /\ InFlight \in Int /\ MaxInflight \in Nat
    <2>1. master \in Chips /\ slave \in Chips
      BY DEF Chips
    <2> QED
      BY <1>1, <2>1 DEF IngestInv, Typed, Loop, InFlight, TModeAssumption
  <1>3. CASE loop_pc' = "collect" /\ UNCHANGED <<pending, next_to_check>>
    <2>1. Typed'
      BY <1>1, <1>3 DEF IngestInv, Typed, disk
    <2>2. Loop'
      <3>1. InFlight' = InFlight
        BY <1>1, <1>3 DEF InFlight
      <3> QED
        BY <1>1, <1>2, <1>3, <3>1 DEF IngestInv, Loop, disk
    <2>3. ASSUME NEW c \in Chips PROVE ChipLane(c)' /\ DoneTrue(c)'
      <3>1. ChipLane(c)'
        BY <1>1, <1>3, LaneStays DEF IngestInv, disk
      <3>2. DoneTrue(c)'
        BY <1>1, <1>3 DEF IngestInv, DoneTrue, disk
      <3> QED
        BY <3>1, <3>2
    <2> QED
      BY <2>1, <2>2, <2>3 DEF IngestInv
  <1>4. CASE /\ pending' = [pending EXCEPT ![chip] =
                   [i \in DOMAIN @ \cup {idx} |-> IF i = idx THEN Running ELSE @[i]]]
             /\ next_to_check' = [next_to_check EXCEPT ![chip] = idx + 1]
             /\ loop_pc' = "size"
    <2> DEFINE a == next_to_reassemble[chip]
               new == [i \in DOMAIN pending[chip] \cup {idx} |->
                          IF i = idx THEN Running ELSE pending[chip][i]]
    <2>1. /\ pending' = [pending EXCEPT ![chip] = new]
          /\ DOMAIN pending = Chips /\ next_to_check \in [Chips -> Nat]
      BY <1>4 DEF IngestInv, Typed
    <2>2. a \in Nat /\ a =< idx /\ DOMAIN pending[chip] = a .. idx - 1
      BY <1>1 DEF IngestInv, Typed, ChipLane, InOrder
    <2>3. DOMAIN new = a .. (idx + 1) - 1 /\ new[idx] = Running
          /\ \A i \in a .. idx - 1 : new[i] = pending[chip][i]
      BY <1>2, <2>2
    <2> HIDE DEF new
    <2>4. /\ DOMAIN pending' = Chips
          /\ \A c \in Chips : pending'[c] = IF c = chip THEN new ELSE pending[c]
          /\ \A c \in Chips : next_to_check'[c] = IF c = chip THEN idx + 1 ELSE next_to_check[c]
          /\ next_to_check' \in [Chips -> Nat]
      BY <1>1, <1>2, <1>4, <2>1
    <2>5. Typed'
      BY <1>1, <1>4, <2>4 DEF IngestInv, Typed, disk
    <2>6. Loop'
      <3>1. InFlight' = InFlight + 1
        <4>1. master # slave /\ chip \in {master, slave} /\ master \in Chips /\ slave \in Chips
          BY <1>1 DEF Chips, TModeAssumption
        <4>2. /\ next_to_check[master] \in Int /\ next_to_check[slave] \in Int
              /\ next_to_reassemble[master] \in Int /\ next_to_reassemble[slave] \in Int
              /\ next_to_reassemble' = next_to_reassemble
          BY <1>1, <4>1 DEF IngestInv, Typed
        <4>3. /\ next_to_check'[master] = IF chip = master THEN next_to_check[master] + 1 ELSE next_to_check[master]
              /\ next_to_check'[slave] = IF chip = slave THEN next_to_check[slave] + 1 ELSE next_to_check[slave]
          BY <2>4, <4>1
        <4> QED
          BY <4>1, <4>2, <4>3 DEF InFlight
      <3> QED
        BY <1>1, <1>2, <1>4, <3>1 DEF IngestInv, Loop, disk
    <2>7. ASSUME NEW c \in Chips, c # chip PROVE ChipLane(c)' /\ DoneTrue(c)'
      <3>1. ChipLane(c)'
        BY <1>1, <2>4, <2>7, LaneStays DEF IngestInv, disk
      <3>2. DoneTrue(c)'
        BY <1>1, <2>4, <2>7 DEF IngestInv, DoneTrue, disk
      <3> QED
        BY <3>1, <3>2
    <2>8. ASSUME NEW c \in Chips, c = chip PROVE ChipLane(c)' /\ DoneTrue(c)'
      <3>1. pending'[chip] = new /\ next_to_check'[chip] = idx + 1 /\ next_to_reassemble'[chip] = a
        BY <1>1, <2>4
      <3>2. InOrder(c)'
        <4>1. (idx + 1) - 1 = idx /\ a =< idx + 1
          BY <1>2, <2>2
        <4> QED
          BY <1>1, <1>2, <2>3, <3>1, <4>1, <2>8 DEF IngestInv, ChipLane, InOrder, Settled, disk
      <3>3. Results(c)'
        <4>1. ASSUME NEW i \in a .. (idx + 1) - 1
              PROVE  new[i] = Running \/ new[i] = Processed(chip, i)
          <5>1. CASE i = idx
            BY <2>3, <5>1
          <5>2. CASE i # idx
            <6>1. i \in a .. idx - 1
              BY <1>2, <2>2, <5>2
            <6> QED
              BY <1>1, <2>3, <6>1, <2>8 DEF IngestInv, ChipLane, Results
          <5> QED
            BY <5>1, <5>2
        <4>2. \A i : Processed(chip, i)' = Processed(chip, i)
          BY <1>1 DEF Processed, Size, Rows, disk
        <4> QED
          BY <1>1, <3>1, <4>1, <4>2, <2>8 DEF Results
      <3>4. Offset(c)'
        BY <1>1, <2>8 DEF IngestInv, ChipLane, Offset, ReadTo, disk
      <3>5. Appended(c)'
        BY <1>1, <2>8 DEF IngestInv, ChipLane, Appended, Size, Rows, disk
      <3>6. DoneTrue(c)'
        BY <1>1, <1>2, <2>8 DEF DoneTrue
      <3> QED
        BY <3>2, <3>3, <3>4, <3>5, <3>6 DEF ChipLane
    <2> QED
      BY <2>5, <2>6, <2>7, <2>8 DEF IngestInv
  <1>5. \/ loop_pc' = "collect" /\ UNCHANGED <<pending, next_to_check>>
        \/ /\ pending' = [pending EXCEPT ![chip] =
                  [i \in DOMAIN @ \cup {idx} |-> IF i = idx THEN Running ELSE @[i]]]
           /\ next_to_check' = [next_to_check EXCEPT ![chip] = idx + 1]
           /\ loop_pc' = "size"
    BY Zenon DEF Dispatch
  <1> QED
    BY <1>3, <1>4, <1>5

LEMMA WorkKeeps ==
    ASSUME TModeAssumption, IngestInv, NEW w \in Chips, NEW j \in DOMAIN pending[w], Work(w, j)
    PROVE  IngestInv'
  <1>1. /\ pending' = [pending EXCEPT ![w][j] = Processed(w, j)]
        /\ UNCHANGED <<disk, loop_stop, stopping, reply_received, loop_pc, turn, size1,
                       next_to_check, next_to_reassemble, accumulated_offset, chip_done, loop_bufs>>
    BY DEF Work
  <1> DEFINE new == [pending[w] EXCEPT ![j] = Processed(w, j)]
  <1>2. /\ DOMAIN pending' = Chips /\ \A c \in Chips : pending'[c] = IF c = w THEN new ELSE pending[c]
        /\ DOMAIN new = DOMAIN pending[w]
        /\ \A i \in DOMAIN pending[w] : new[i] = IF i = j THEN Processed(w, j) ELSE pending[w][i]
    BY <1>1 DEF IngestInv, Typed
  <1> HIDE DEF new
  <1>3. Typed'
    BY <1>1, <1>2 DEF IngestInv, Typed, disk
  <1>4. Loop'
    BY <1>1 DEF IngestInv, Loop, InFlight, Settled, chip, disk
  <1>5. ASSUME NEW c \in Chips, c # w PROVE ChipLane(c)' /\ DoneTrue(c)'
    <2>1. ChipLane(c)'
      BY <1>1, <1>2, <1>5, LaneStays DEF IngestInv, disk
    <2>2. DoneTrue(c)'
      BY <1>1 DEF IngestInv, DoneTrue, disk
    <2> QED
      BY <2>1, <2>2
  <1>6. ChipLane(w)' /\ DoneTrue(w)'
    <2>1. pending'[w] = new
      BY <1>2
    <2>2. InOrder(w)'
      BY <1>1, <1>2, <2>1 DEF IngestInv, ChipLane, InOrder, Settled, disk
    <2>3. Results(w)'
      <3>1. \A i \in DOMAIN pending[w] : new[i] \in {Running, Processed(w, i)}
        BY <1>2 DEF IngestInv, ChipLane, InOrder, Results
      <3>2. \A i : Processed(w, i)' = Processed(w, i)
        BY <1>1 DEF Processed, Size, Rows, disk
      <3>3. DOMAIN pending[w] = next_to_reassemble[w] .. next_to_check[w] - 1
        BY DEF IngestInv, ChipLane, InOrder
      <3> QED
        BY <1>1, <2>1, <3>1, <3>2, <3>3 DEF Results
    <2>4. Offset(w)'
      BY <1>1 DEF IngestInv, ChipLane, Offset, ReadTo, disk
    <2>5. Appended(w)'
      BY <1>1 DEF IngestInv, ChipLane, Appended, Size, Rows, disk
    <2>6. DoneTrue(w)'
      BY <1>1 DEF IngestInv, DoneTrue, disk
    <2> QED
      BY <2>2, <2>3, <2>4, <2>5, <2>6 DEF ChipLane
  <1> QED
    BY <1>3, <1>4, <1>5, <1>6 DEF IngestInv

\* What the file about to be reassembled holds of the resets.
LEMMA OffsetMoves ==
    ASSUME TModeAssumption, NEW c \in Chips, NEW i \in Nat, rows[c] \in Nat, Start(i) < rows[c]
    PROVE  LET end == IF Start(i + 1) =< rows[c] THEN Start(i + 1) ELSE rows[c]
               found == Cardinality(Rows(c, i) \cap Resets[c])
           IN  found \in Nat /\ Epoch(c, end) = Epoch(c, Start(i)) + found
  <1> DEFINE end == IF Start(i + 1) =< rows[c] THEN Start(i + 1) ELSE rows[c]
  <1>1. Start(i) \in Nat /\ Start(i + 1) \in Nat /\ Start(i + 1) = Start(i) + FileRows
    BY Starts
  <1>2. end \in Nat /\ Start(i) =< end
    BY <1>1 DEF TModeAssumption
  <1>3. Rows(c, i) \cap Resets[c] = {s \in Resets[c] : Start(i) < s /\ s =< end}
    <2>1. Rows(c, i) = Part(i) \cap (1 .. rows[c])
      BY RowsAre
    <2>2. Resets[c] \subseteq Nat
      BY DEF TModeAssumption
    <2> QED
      BY <1>1, <2>1, <2>2 DEF Part
  <1> HIDE DEF end
  <1>4. /\ Epoch(c, end) = Epoch(c, Start(i)) + Cardinality({s \in Resets[c] : Start(i) < s /\
             s =< end})
        /\ Cardinality({s \in Resets[c] : Start(i) < s /\ s =< end}) \in Nat
    BY <1>1, <1>2, EpochAdds
  <1> QED
    BY <1>3, <1>4 DEF end

LEMMA ReassembleKeeps == ASSUME TModeAssumption, IngestInv, Reassemble PROVE IngestInv'
  <1> DEFINE i == next_to_reassemble[chip]
             b == next_to_check[chip]
             res == pending[chip][i]
  <1>1. /\ chip \in Chips /\ chip' = chip /\ loop_pc = "collect" /\ ~chip_done[chip]
        /\ UNCHANGED <<lspad, rows, loop_stop, stopping, reply_received, turn, size1,
                       next_to_check, chip_done>>
    BY ChipIs DEF IngestInv, Loop, Reassemble, chip
  <1>2. i \in Nat /\ b \in Nat /\ rows[chip] \in Nat
    BY <1>1 DEF IngestInv, Typed, TModeAssumption
  <1>3. i < b /\ i \in i .. b - 1 /\ res = Processed(chip, i) /\ DOMAIN pending[chip] = i .. b - 1
    <2>1. i \in DOMAIN pending[chip] /\ res # Running
      BY DEF Reassemble, Collectable
    <2>2. DOMAIN pending[chip] = i .. b - 1
      BY <1>1 DEF IngestInv, ChipLane, InOrder
    <2>3. i \in i .. b - 1
      BY <2>1, <2>2
    <2>4. res \in {Running, Processed(chip, i)}
      BY <1>1, <2>3 DEF IngestInv, ChipLane, Results
    <2> QED
      BY <1>2, <2>1, <2>2, <2>3, <2>4
  <1>4. Start(i) < rows[chip] /\ Start(i) \in Nat /\ i + 1 \in Nat /\ Start(i + 1) \in Nat
    <2>1. b - 1 \in Nat /\ i =< b - 1 /\ b > 0 /\ i + 1 \in Nat
      BY <1>2, <1>3
    <2>2. Start(b - 1) < rows[chip]
      BY <1>1, <2>1 DEF IngestInv, ChipLane, InOrder
    <2>3. Start(i) =< Start(b - 1) /\ Start(i) \in Nat /\ Start(b - 1) \in Nat /\
            Start(i + 1) \in Nat
      BY <1>2, <2>1, Starts
    <2> QED
      BY <1>2, <2>1, <2>2, <2>3
  <1>5. accumulated_offset[chip] = Epoch(chip, Start(i)) /\ Epoch(chip, Start(i)) \in Nat
    <2>1. ReadTo(chip) = Start(i)
      BY <1>2, <1>4 DEF ReadTo
    <2>2. Epoch(chip, Start(i)) \in Nat
      <3>1. Start(i) =< Start(i)
        BY <1>4
      <3> QED
        BY <1>1, <1>4, <3>1, EpochAdds
    <2> QED
      BY <1>1, <2>1, <2>2 DEF IngestInv, ChipLane, Offset
  <1>6. res.n = Size(chip, i) /\ res.resets = Cardinality(Rows(chip, i) \cap Resets[chip])
        /\ (res.seq0 = None \/ res.seq0 = Epoch(chip, Start(i)) % Wrap)
    BY <1>3 DEF Processed, Start
  <1>7. Continuous(chip, res)
    BY <1>5, <1>6 DEF Continuous
  <1> DEFINE e == [idx |-> i, n |-> res.n, shift |-> accumulated_offset[chip]]
  <1>8. /\ pending' = [pending EXCEPT ![chip] = [j \in DOMAIN @ \ {i} |-> @[j]]]
        /\ loop_bufs' = [loop_bufs EXCEPT ![chip] = Append(@, e)]
        /\ accumulated_offset' = [accumulated_offset EXCEPT ![chip] = @ + res.resets]
        /\ next_to_reassemble' = [next_to_reassemble EXCEPT ![chip] = i + 1]
        /\ removed' = [removed EXCEPT ![chip] = @ \cup {i}] \/ UNCHANGED removed
        /\ UNCHANGED loop_pc
    BY <1>7, Zenon DEF Reassemble, Shifted
  <1>9. e \in Chunks /\ res.resets \in Nat
    <2>1. Size(chip, i) \in Nat
      <3>1. Size(chip, i) \in 0 .. FileRows
        BY <1>2, SizeBounded
      <3> QED
        BY <3>1
    <2>2. Cardinality(Rows(chip, i) \cap Resets[chip]) \in Nat
      BY <1>1, <1>2, <1>4, OffsetMoves
    <2> QED
      BY <1>2, <1>5, <1>6, <2>1, <2>2 DEF Chunks
  <1>10. e.idx = i /\ e.n = Size(chip, i) /\ e.shift = Epoch(chip, Start(i))
    BY <1>5, <1>6
  <1> HIDE DEF e
  <1> DEFINE less == [j \in DOMAIN pending[chip] \ {i} |-> pending[chip][j]]
  <1>11. DOMAIN less = (i + 1) .. b - 1 /\ \A j \in (i + 1) .. b - 1 : less[j] = pending[chip][j]
    BY <1>2, <1>3
  <1>12. pending' = [pending EXCEPT ![chip] = less]
    BY <1>8
  <1> HIDE DEF less
  <1>13. /\ DOMAIN pending' = Chips /\ \A c \in Chips : pending'[c] = IF c = chip THEN less ELSE pending[c]
         /\ \A c \in Chips : next_to_reassemble'[c] = IF c = chip THEN i + 1 ELSE next_to_reassemble[c]
         /\ next_to_reassemble' \in [Chips -> Nat]
    BY <1>1, <1>4, <1>8, <1>12 DEF IngestInv, Typed
  <1>14. /\ accumulated_offset' \in [Chips -> Nat]
         /\ \A c \in Chips : accumulated_offset'[c] =
                IF c = chip THEN accumulated_offset[chip] + res.resets ELSE accumulated_offset[c]
    BY <1>1, <1>5, <1>8, <1>9 DEF IngestInv, Typed
  <1>15. /\ loop_bufs' \in [Chips -> Seq(Chunks)]
         /\ \A c \in Chips : loop_bufs'[c] = IF c = chip THEN Append(loop_bufs[chip],
              e) ELSE loop_bufs[c]
    BY <1>1, <1>8, <1>9 DEF IngestInv, Typed
  <1>16. /\ removed' \in [Chips -> SUBSET Nat]
         /\ \A c \in Chips : IF c = chip THEN removed'[c] \subseteq removed[c] \cup {i}
                              ELSE removed'[c] = removed[c]
    <2>1. removed \in [Chips -> SUBSET Nat]
      BY DEF IngestInv, Typed
    <2>2. CASE removed' = [removed EXCEPT ![chip] = @ \cup {i}]
      BY <1>1, <1>2, <2>1, <2>2
    <2>3. CASE UNCHANGED removed
      BY <1>1, <2>1, <2>3
    <2> QED
      BY <1>8, <2>2, <2>3
  <1>17. Typed'
    BY <1>1, <1>8, <1>13, <1>14, <1>15, <1>16 DEF IngestInv, Typed
  <1>18. Loop'
    <2>1. InFlight' =< MaxInflight
      <3>1. master # slave /\ chip \in {master, slave} /\ master \in Chips /\ slave \in Chips
        BY <1>1 DEF Chips, TModeAssumption
      <3>2. /\ next_to_check[master] \in Int /\ next_to_check[slave] \in Int
            /\ next_to_reassemble[master] \in Int /\ next_to_reassemble[slave] \in Int
        BY <3>1 DEF IngestInv, Typed
      <3>3. /\ next_to_reassemble'[master] =
                    IF chip = master THEN next_to_reassemble[master] + 1 ELSE next_to_reassemble[master]
            /\ next_to_reassemble'[slave] =
                    IF chip = slave THEN next_to_reassemble[slave] + 1 ELSE next_to_reassemble[slave]
        BY <1>13, <3>1
      <3>4. InFlight =< MaxInflight /\ MaxInflight \in Nat
        BY DEF IngestInv, Loop, TModeAssumption
      <3> QED
        BY <1>1, <3>1, <3>2, <3>3, <3>4 DEF InFlight
    <2> QED
      BY <1>1, <1>8, <2>1 DEF IngestInv, Loop
  <1>19. ASSUME NEW c \in Chips, c # chip PROVE ChipLane(c)' /\ DoneTrue(c)'
    <2>1. ChipLane(c)'
      BY <1>1, <1>13, <1>14, <1>15, <1>16, <1>19, LaneStays DEF IngestInv
    <2>2. DoneTrue(c)'
      BY <1>1, <1>13, <1>19 DEF IngestInv, DoneTrue
    <2> QED
      BY <2>1, <2>2
  <1>20. ASSUME NEW c \in Chips, c = chip PROVE ChipLane(c)' /\ DoneTrue(c)'
    <2>1. InOrder(c)'
      <3>1. i + 1 =< b /\ \A j \in 0 .. i - 1 : j \in 0 .. (i + 1) - 1
        BY <1>2, <1>3
      <3>2. i \in 0 .. (i + 1) - 1
        BY <1>2
      <3>3. removed'[chip] \subseteq 0 .. (i + 1) - 1
        BY <1>1, <1>16, <3>1, <3>2, <1>20 DEF IngestInv, ChipLane, InOrder
      <3> QED
        BY <1>1, <1>11, <1>13, <3>1, <3>3, <1>20 DEF IngestInv, ChipLane, InOrder, Settled
    <2>2. Results(c)'
      <3>1. \A j \in (i + 1) .. b - 1 : less[j] \in {Running, Processed(chip, j)}
        <4>1. \A j \in (i + 1) .. b - 1 : j \in i .. b - 1
          BY <1>2
        <4> QED
          BY <1>1, <1>11, <4>1, <1>20 DEF IngestInv, ChipLane, Results
      <3>2. \A j : Processed(chip, j)' = Processed(chip, j)
        BY <1>1 DEF Processed, Size, Rows
      <3> QED
        BY <1>1, <1>13, <3>1, <3>2, <1>20 DEF Results
    <2>3. Offset(c)'
      <3> DEFINE end == IF Start(i + 1) =< rows[chip] THEN Start(i + 1) ELSE rows[chip]
      <3>1. Epoch(chip, end) = Epoch(chip, Start(i)) + Cardinality(Rows(chip, i) \cap Resets[chip])
        BY <1>1, <1>2, <1>4, OffsetMoves
      <3>2. ReadTo(chip)' = end
        BY <1>1, <1>13, <1>20 DEF ReadTo
      <3> HIDE DEF end
      <3>3. accumulated_offset'[chip] = Epoch(chip, end)
        BY <1>1, <1>5, <1>6, <1>14, <3>1
      <3> QED
        BY <1>1, <3>2, <3>3, <1>20 DEF Offset
    <2>4. Appended(c)'
      <3> DEFINE s == loop_bufs[chip]
      <3>1. s \in Seq(Chunks) /\ Len(s) = i
        BY <1>1 DEF IngestInv, Typed, ChipLane, Appended
      <3>2. \A k \in 1 .. i : /\ s[k].idx = k - 1 /\ s[k].n = Size(chip, k - 1)
                               /\ s[k].shift = Epoch(chip, Start(k - 1))
        BY <1>1, <1>20 DEF IngestInv, ChipLane, Appended
      <3> HIDE DEF s
      <3>3. /\ Len(Append(s, e)) = i + 1
            /\ \A k \in 1 .. i + 1 : Append(s, e)[k] = IF k = i + 1 THEN e ELSE s[k]
        BY <1>9, <3>1, AppendAt
      <3> DEFINE longer == Append(s, e)
      <3>4. longer = loop_bufs'[chip]
        BY <1>1, <1>15 DEF s
      <3>5. Len(longer) = i + 1 /\ \A k \in 1 .. i + 1 : longer[k] = IF k = i + 1 THEN e ELSE s[k]
        BY <3>3
      <3> HIDE DEF longer
      <3>6. ASSUME NEW k \in 1 .. i + 1
            PROVE  /\ longer[k].idx = k - 1 /\ longer[k].n = Size(chip, k - 1)
                   /\ longer[k].shift = Epoch(chip, Start(k - 1))
        <4>1. CASE k = i + 1
          <5>1. k - 1 = i
            BY <1>2, <4>1
          <5> QED
            BY <1>10, <3>5, <4>1, <5>1
        <4>2. CASE k # i + 1
          <5>1. k \in 1 .. i
            BY <1>2, <4>2
          <5> QED
            BY <3>2, <3>5, <4>2, <5>1
        <4> QED
          BY <4>1, <4>2
      <3>7. \A k : Size(chip, k)' = Size(chip, k)
        BY <1>1 DEF Size, Rows
      <3> QED
        BY <1>1, <1>13, <3>4, <3>5, <3>6, <3>7, <1>20 DEF Appended
    <2>5. DoneTrue(c)'
      BY <1>1, <1>20 DEF DoneTrue
    <2> QED
      BY <2>1, <2>2, <2>3, <2>4, <2>5 DEF ChipLane
  <1> QED
    BY <1>17, <1>18, <1>19, <1>20 DEF IngestInv

LEMMA IngestSteps == ASSUME TModeAssumption PROVE IngestInv /\ [LoopNext]_loopvars => IngestInv'
  <1> SUFFICES ASSUME IngestInv, [LoopNext]_loopvars PROVE IngestInv'
    OBVIOUS
  <1>1. ASSUME NEW c \in Chips, WriteRow(c) PROVE IngestInv'
    BY <1>1, WriteKeeps
  <1>2. ASSUME NEW c \in Chips, NEW i \in DOMAIN pending[c], Work(c, i) PROVE IngestInv'
    BY <1>2, WorkKeeps
  <1>3. CASE LspadEnds
    BY <1>3, EndKeeps
  <1>4. CASE RequestStop
    BY <1>4, StopKeeps
  <1>5. CASE LoopStep
    BY <1>5, PollKeeps, MeasureKeeps, RotatedKeeps, DispatchKeeps, ReassembleKeeps, NextChipKeeps
       DEF LoopStep
  <1>6. CASE UNCHANGED loopvars
    <2>1. Typed' /\ Loop'
      BY <1>6 DEF IngestInv, Typed, Loop, InFlight, Settled, chip, loopvars, disk, lane
    <2>2. ASSUME NEW c \in Chips PROVE ChipLane(c)' /\ DoneTrue(c)'
      <3>1. ChipLane(c)'
        BY <1>6, LaneStays DEF IngestInv, loopvars, disk, lane
      <3>2. DoneTrue(c)'
        BY <1>6 DEF IngestInv, DoneTrue, loopvars, disk, lane
      <3> QED
        BY <3>1, <3>2
    <2> QED
      BY <2>1, <2>2 DEF IngestInv
  <1> QED
    BY <1>1, <1>2, <1>3, <1>4, <1>5, <1>6 DEF LoopNext, LoopOver
-----------------------------------------------------------------------------
LEMMA InvTyped == ASSUME TModeAssumption, IngestInv PROVE LoopTypeOK /\ NoFalseMismatch
  <1>1. total_pending =< MaxInflight
    BY InFlightIs DEF IngestInv, ChipLane, Loop
  <1>2. \A c \in Chips : /\ DOMAIN pending[c] = next_to_reassemble[c] .. next_to_check[c] - 1
                         /\ Len(loop_bufs[c]) = next_to_reassemble[c]
    BY DEF IngestInv, ChipLane, InOrder, Appended
  <1> QED
    BY <1>1, <1>2 DEF IngestInv, Typed, LoopTypeOK, NoFalseMismatch

LEMMA InvEpochs == ASSUME IngestInv PROVE ShiftsTrue
  BY DEF IngestInv, ChipLane, Appended, ShiftsTrue, Start

LEMMA InvDeleted == ASSUME TModeAssumption, IngestInv PROVE DeletedOnlyIfRead
  <1> SUFFICES ASSUME NEW c \in Chips, NEW i \in removed[c]
               PROVE  i < Len(loop_bufs[c]) /\ loop_bufs[c][i + 1].n = Size(c, i)
    BY DEF DeletedOnlyIfRead
  <1>1. next_to_reassemble[c] \in Nat /\ i \in 0 .. next_to_reassemble[c] - 1
    BY DEF IngestInv, Typed, ChipLane, InOrder
  <1>2. i + 1 \in 1 .. next_to_reassemble[c] /\ (i + 1) - 1 = i /\ i < next_to_reassemble[c]
    BY <1>1
  <1> QED
    BY <1>2 DEF IngestInv, ChipLane, Appended

LEMMA InvEnded == ASSUME TModeAssumption, IngestInv PROVE EndedComplete
  <1> SUFFICES ASSUME loop_pc = "ended", NEW c \in Chips, NEW r \in 1 .. rows[c]
               PROVE  \E k \in 1 .. Len(loop_bufs[c]) : r \in Rows(c, k - 1) /\
                      loop_bufs[c][k].n = Size(c,
                                                                                                         k - 1)
    BY DEF EndedComplete
  <1> DEFINE n == next_to_reassemble[c]
  <1>1. n \in Nat /\ rows[c] \in Nat /\ r \in Nat \ {0} /\ r =< rows[c]
    BY DEF IngestInv, Typed, TModeAssumption
  <1>2. rows[c] =< Start(n)
    BY DEF IngestInv, Loop, DoneTrue
  <1>3. Start(n) \in Nat
    BY <1>1, Starts
  <1>4. r =< Start(n)
    BY <1>1, <1>2, <1>3
  <1>5. PICK q \in 0 .. n - 1 : r \in Part(q)
    BY <1>1, <1>4, RowInFile
  <1>6. q \in Nat /\ q + 1 \in 1 .. n /\ (q + 1) - 1 = q
    BY <1>1
  <1>7. r \in Rows(c, q)
    BY <1>1, <1>5, <1>6, RowsAre
  <1>8. Len(loop_bufs[c]) = n /\ loop_bufs[c][q + 1].n = Size(c, (q + 1) - 1)
    BY <1>6 DEF IngestInv, ChipLane, Appended
  <1> QED
    BY <1>6, <1>7, <1>8
-----------------------------------------------------------------------------
\* The events of each file are appended in file order and shifted by the resets of
\* all the files before it, past the wrap of <seq>, whatever order the pool
\* finishes in; no complete stream is refused.
THEOREM OffsetsAreTrue ==
    ASSUME TModeAssumption PROVE LoopSpec => []EpochsTrue
  <1>1. LoopInit => IngestInv
    BY IngestStarts
  <1>2. IngestInv /\ [LoopNext]_loopvars => IngestInv'
    BY IngestSteps
  <1>3. IngestInv => EpochsTrue
    BY InvTyped, InvEpochs DEF EpochsTrue
  <1> QED
    BY <1>1, <1>2, <1>3, PTL DEF LoopSpec

\* A file is deleted only once all it will ever contain has been read, and the loop
\* does not end before everything lSPAD wrote has been.
THEOREM NothingLeftUnread ==
    ASSUME TModeAssumption PROVE LoopSpec => []FilesReadWhole
  <1>1. LoopInit => IngestInv
    BY IngestStarts
  <1>2. IngestInv /\ [LoopNext]_loopvars => IngestInv'
    BY IngestSteps
  <1>3. IngestInv => FilesReadWhole
    BY InvDeleted, InvEnded DEF FilesReadWhole
  <1> QED
    BY <1>1, <1>2, <1>3, PTL DEF LoopSpec

-----------------------------------------------------------------------------
(***************************************************************************)
(* A session with lSPAD.  lSPAD answers in order, so that the echo of the  *)
(* D command tells that nothing asked before is left; from there on what   *)
(* is asked, answered and begun is the session's own (CommandsLeft).        *)
(***************************************************************************)
LspadCommands == [cmd : {"STOP", "D", "Tv", "Tc", "T", "I"}, of : Nat]
LspadReplies == {"stopped", "echo", "valid", "invalid", "completed", "bin", "row", "half", "last",
            "rest"}
OwnAsk(c) == [cmd |-> c, of |-> session]

LspadTyped ==
    /\ lspad_cmds \in Seq(LspadCommands) /\ reply \in Seq(LspadReplies)
    /\ stream \in BOOLEAN /\ tdc \in BOOLEAN /\ begun_ok \in BOOLEAN /\ unclean \in BOOLEAN
    /\ counter \in Nat /\ dirs \in [Lspad!Runs -> 0 .. MaxSessions] /\ before \subseteq Lspad!Runs
    /\ session \in 0 .. MaxSessions /\ kind \in {"T", "I"} /\ run_dir \in Lspad!Runs \cup {-1}
    /\ step \in {"idle", "stop", "dir", "tdc", "cal", "find", "run", "rows"}
    /\ rows_out \in 0 .. ROWS /\ intensity_rows \in Seq({"row", "last"})
    /\ buf \in {"no", "half", "last"} /\ restarts \in 0 .. MaxRestarts /\ faults \in 0 .. MaxFaults

\* The commands of all sessions, in the order they were asked; those of the
\* session that is on are the ones of its step.
InTurn ==
    /\ \A i \in DOMAIN lspad_cmds : lspad_cmds[i].of <= session
    /\ \A i, j \in DOMAIN lspad_cmds : i < j => lspad_cmds[i].of <= lspad_cmds[j].of
    /\ rows_out # 0 => lspad_cmds # <<>> /\ lspad_cmds[1].cmd = "I"

\* Only STOP of this session is on its way, or also its last command, c.
StopAnd(c) ==
    \A i \in DOMAIN lspad_cmds : lspad_cmds[i].of = session =>
        lspad_cmds[i].cmd = "STOP" \/ (lspad_cmds[i].cmd = c /\ i = Len(lspad_cmds))

\* One answer to T,v among the bytes of a stream, and a true one.
TdcTold ==
    \E k \in DOMAIN reply :
        /\ (reply[k] = "valid" /\ tdc) \/ reply[k] = "invalid"
        /\ \A i \in DOMAIN reply : i # k => reply[i] = "bin"

OfItsKind ==
    /\ step \in {"dir", "tdc", "cal", "find", "run"} => kind = "T"
    /\ step = "rows" => kind = "I"

CommandsLeft ==
    /\ step = "stop" => StopAnd("STOP")
    /\ step = "dir" => StopAnd("D")
    /\ step = "tdc" => lspad_cmds \in {<<>>, <<OwnAsk("Tv")>>}
    /\ step = "cal" => lspad_cmds \in {<<>>, <<OwnAsk("Tc")>>}
    /\ step = "find" => lspad_cmds \in {<<>>, <<OwnAsk("T")>>, <<OwnAsk("Tc"), OwnAsk("T")>>}
    /\ step = "run" => lspad_cmds = <<>>
    /\ step = "rows" => StopAnd("I")

AnswersLeft ==
    /\ step = "dir" => \A i \in DOMAIN reply : reply[i] = "echo" => lspad_cmds = <<>>
    /\ step = "tdc" =>
         IF lspad_cmds = <<>> THEN TdcTold ELSE \A i \in DOMAIN reply : reply[i] = "bin"

\* Every T on its way will find a valid calibration.
WillBeCalibrated ==
    /\ begun_ok
    /\ \A i \in DOMAIN lspad_cmds : lspad_cmds[i].cmd = "T" =>
          tdc \/ \E j \in DOMAIN lspad_cmds : j < i /\ lspad_cmds[j].cmd = "Tc"
    /\ step = "cal" /\ lspad_cmds = <<>> => tdc

\* lSPAD's Run counter is below the sessions whose T is on its way, so it does
\* not pass the number of sessions; folders hold data of sessions that began.
RunNumbers ==
    /\ counter <= session /\ \A r \in Lspad!Runs : dirs[r] <= session
    /\ \A i \in DOMAIN lspad_cmds : lspad_cmds[i].cmd = "T" =>
          /\ counter < lspad_cmds[i].of
          /\ \A j \in DOMAIN lspad_cmds :
                lspad_cmds[j].cmd = "T" /\ i < j => lspad_cmds[i].of < lspad_cmds[j].of
    /\ step \in {"stop", "dir", "tdc", "cal"} =>
          counter < session /\ \A r \in Lspad!Runs : dirs[r] < session

\* The folder that is looked for is new, and where lSPAD did not start over
\* among old folders it has a new name.
OwnFolder ==
    /\ ~unclean => \A r \in Lspad!Runs : dirs[r] # 0 => r < counter
    /\ step = "find" =>
          IF lspad_cmds # <<>>
          THEN /\ \A r \in Lspad!Runs : dirs[r] < session /\ (dirs[r] # 0 => r \in before)
               /\ ~unclean => \A r \in before : r < counter
          ELSE /\ \A r \in Lspad!Runs : dirs[r] # 0 /\ r \notin before => dirs[r] = session
               /\ ~unclean => \A r \in before : dirs[r] # session
    /\ step = "run" => run_dir \in Lspad!Runs /\ dirs[run_dir] = session

\* No more rows are read and on their way than lSPAD has sent of this reply,
\* and none that is not the last is the last one.
RowsIn(w) == {i \in DOMAIN w : w[i] = "row"}
RowsSent == Len(intensity_rows) + Cardinality(RowsIn(reply))
OwnRows ==
    /\ step = "stop" => intensity_rows = <<>> /\ buf = "no"
    /\ step = "rows" =>
          /\ Len(intensity_rows) <= ROWS
          /\ \A i \in DOMAIN intensity_rows :
                intensity_rows[i] = IF i = ROWS THEN "last" ELSE "row"
          /\ Len(intensity_rows) < ROWS =>
                /\ RowsSent <= ROWS - 1
                /\ \A i \in DOMAIN lspad_cmds :
                      lspad_cmds[i] = OwnAsk("I") => RowsSent <= IF i = 1 THEN rows_out ELSE 0
    /\ Len(intensity_rows) <= ROWS
    /\ Lspad!WholeReply

LspadInv == /\ LspadTyped /\ InTurn /\ OfItsKind /\ CommandsLeft /\ AnswersLeft
            /\ WillBeCalibrated /\ RunNumbers /\ OwnFolder /\ OwnRows
-----------------------------------------------------------------------------
\* A command is answered, asked; an answer is read.
Takes ==
    /\ lspad_cmds # <<>> /\ lspad_cmds' \in Seq(LspadCommands) /\ lspad_cmds' = Tail(lspad_cmds)
    /\ 1 \in DOMAIN lspad_cmds /\ Len(lspad_cmds') = Len(lspad_cmds) - 1 /\ Len(lspad_cmds) \in Nat
    /\ \A i \in DOMAIN lspad_cmds' :
          i \in Nat \ {0} /\ i + 1 \in DOMAIN lspad_cmds /\ lspad_cmds'[i] = lspad_cmds[i + 1]
    /\ \A i \in DOMAIN lspad_cmds :
          /\ i \in Nat \ {0} /\ i <= Len(lspad_cmds)
          /\ i # 1 => i - 1 \in DOMAIN lspad_cmds' /\ lspad_cmds'[i - 1] = lspad_cmds[i]
Grown(v, q, x) ==
    /\ Len(v) = Len(q) + 1 /\ Len(q) \in Nat /\ Len(v) \in DOMAIN v /\ v[Len(v)] = x
    /\ \A i \in DOMAIN v : i = Len(v) \/ (i \in DOMAIN q /\ v[i] = q[i])
    /\ \A i \in DOMAIN q : i \in Nat \ {0} /\ i < Len(v) /\ i \in DOMAIN v /\ v[i] = q[i]
Asks(c) ==
    /\ lspad_cmds' \in Seq(LspadCommands)
    /\ Grown(lspad_cmds', lspad_cmds, [cmd |-> c, of |-> session'])

LEMMA TailLaw ==
    ASSUME NEW S, NEW q \in Seq(S), q # <<>>
    PROVE  /\ Tail(q) \in Seq(S) /\ 1 \in DOMAIN q /\ Head(q) = q[1] /\ Len(Tail(q)) = Len(q) - 1
           /\ DOMAIN Tail(q) = 1 .. Len(q) - 1 /\ DOMAIN q = 1 .. Len(q) /\ Len(q) \in Nat
           /\ \A i \in 1 .. Len(q) - 1 : i + 1 \in DOMAIN q /\ Tail(q)[i] = q[i + 1]
  OBVIOUS

LEMMA AppendLaw ==
    ASSUME NEW S, NEW q \in Seq(S), NEW x \in S
    PROVE  Append(q, x) \in Seq(S) /\ Grown(Append(q, x), q, x)
  <1>1. Append(q, x) \in Seq(S)
    OBVIOUS
  <1>2. /\ Len(Append(q, x)) = Len(q) + 1 /\ Len(q) \in Nat /\ DOMAIN q = 1 .. Len(q)
        /\ DOMAIN Append(q, x) = 1 .. Len(q) + 1
    OBVIOUS
  <1>3. Append(q, x)[Len(q) + 1] = x /\ \A i \in 1 .. Len(q) : Append(q, x)[i] = q[i]
    OBVIOUS
  <1> QED
    BY <1>1, <1>2, <1>3 DEF Grown

LEMMA LspadTakes ==
    ASSUME LspadTyped, lspad_cmds # <<>>, lspad_cmds' = Tail(lspad_cmds)
    PROVE  Takes /\ Head(lspad_cmds) = lspad_cmds[1]
  <1> DEFINE q == lspad_cmds
             v == Tail(lspad_cmds)
  <1>1. q \in Seq(LspadCommands)
    BY DEF LspadTyped
  <1>2. /\ v \in Seq(LspadCommands) /\ 1 \in DOMAIN q /\ Head(q) = q[1] /\ Len(v) = Len(q) - 1
        /\ DOMAIN v = 1 .. Len(q) - 1 /\ DOMAIN q = 1 .. Len(q) /\ Len(q) \in Nat
        /\ \A i \in 1 .. Len(q) - 1 : i + 1 \in DOMAIN q /\ v[i] = q[i + 1]
    BY <1>1, TailLaw
  <1>3. lspad_cmds' = v
    OBVIOUS
  <1> HIDE DEF v
  <1>4. \A i \in DOMAIN q :
          /\ i \in Nat \ {0} /\ i <= Len(q)
          /\ i # 1 => i - 1 \in DOMAIN v /\ v[i - 1] = q[i]
    <2> SUFFICES ASSUME NEW i \in DOMAIN q
                 PROVE  /\ i \in Nat \ {0} /\ i <= Len(q)
                        /\ i # 1 => i - 1 \in DOMAIN v /\ v[i - 1] = q[i]
      OBVIOUS
    <2>1. i \in Nat \ {0} /\ i <= Len(q) /\ (i - 1) + 1 = i /\ (i # 1 => i - 1 \in 1 .. Len(q) - 1)
      BY <1>2
    <2> QED
      BY <2>1, <1>2
  <1>5. \A i \in DOMAIN v : i \in Nat \ {0}
    BY <1>2
  <1> QED
    BY <1>2, <1>3, <1>4, <1>5 DEF Takes

LEMMA LspadAsks ==
    ASSUME LspadTyped, NEW c \in {"STOP", "D", "Tv", "Tc", "T", "I"}, session' \in Nat,
           lspad_cmds' = Append(lspad_cmds, [cmd |-> c, of |-> session'])
    PROVE  Asks(c)
  <1>1. lspad_cmds \in Seq(LspadCommands) /\ [cmd |-> c, of |-> session'] \in LspadCommands
    BY DEF LspadTyped, LspadCommands
  <1> QED
    BY <1>1, AppendLaw DEF Asks

\* The rows among what was sent, when an answer is sent and when one is read.
LEMMA RowsFinite ==
    ASSUME NEW S, NEW w \in Seq(S)
    PROVE  IsFiniteSet(RowsIn(w)) /\ Cardinality(RowsIn(w)) \in Nat
  <1>1. RowsIn(w) \in SUBSET (1 .. Len(w)) /\ Len(w) \in Nat
    BY DEF RowsIn
  <1>2. IsFiniteSet(1 .. Len(w))
    BY <1>1, FS_Interval
  <1>3. IsFiniteSet(RowsIn(w))
    BY <1>1, <1>2, FS_Subset
  <1> QED
    BY <1>3, FS_CardinalityType

LEMMA RowsOfNone == RowsIn(<<>>) = {} /\ Cardinality(RowsIn(<<>>)) = 0
  <1>1. RowsIn(<<>>) = {}
    BY DEF RowsIn
  <1> QED
    BY <1>1, FS_EmptySet

LEMMA RowsGrow ==
    ASSUME NEW S, NEW w \in Seq(S), NEW x \in S
    PROVE  Cardinality(RowsIn(Append(w, x))) =
               Cardinality(RowsIn(w)) + (IF x = "row" THEN 1 ELSE 0)
  <1> DEFINE v == Append(w, x)
  <1>1. Grown(v, w, x)
    BY AppendLaw
  <1> HIDE DEF v
  <1>2. Len(v) \notin RowsIn(w)
    BY <1>1 DEF Grown, RowsIn
  <1>3. RowsIn(v) = IF x = "row" THEN RowsIn(w) \cup {Len(v)} ELSE RowsIn(w)
    BY <1>1 DEF Grown, RowsIn
  <1>4. IsFiniteSet(RowsIn(w)) /\ Cardinality(RowsIn(w)) \in Nat
    BY RowsFinite
  <1>5. Cardinality(RowsIn(w) \cup {Len(v)}) = Cardinality(RowsIn(w)) + 1
    BY <1>2, <1>4, FS_AddElement
  <1>6. Cardinality(RowsIn(v)) = Cardinality(RowsIn(w)) + (IF x = "row" THEN 1 ELSE 0)
    BY <1>3, <1>4, <1>5
  <1> QED
    BY <1>6 DEF v

LEMMA RowsRead ==
    ASSUME NEW S, NEW w \in Seq(S), w # <<>>
    PROVE  Cardinality(RowsIn(Tail(w))) + (IF w[1] = "row" THEN 1 ELSE 0) <= Cardinality(RowsIn(w))
  <1> DEFINE v == Tail(w)
             f == [i \in RowsIn(v) |-> i + 1]
  <1>1. /\ v \in Seq(S) /\ 1 \in DOMAIN w /\ DOMAIN v = 1 .. Len(w) - 1
        /\ \A i \in 1 .. Len(w) - 1 : i + 1 \in DOMAIN w /\ v[i] = w[i + 1]
    BY TailLaw
  <1> HIDE DEF v
  <1>2. \A i \in RowsIn(v) : i \in Nat \ {0} /\ i + 1 \in RowsIn(w) \ {1}
    BY <1>1 DEF RowsIn
  <1>3. f \in Injection(RowsIn(v), RowsIn(w) \ {1})
    BY <1>2 DEF Injection, IsInjective
  <1>4. IsFiniteSet(RowsIn(w)) /\ Cardinality(RowsIn(w)) \in Nat
        /\ IsFiniteSet(RowsIn(v)) /\ Cardinality(RowsIn(v)) \in Nat
    BY <1>1, RowsFinite
  <1>5. /\ IsFiniteSet(RowsIn(w) \ {1})
        /\ Cardinality(RowsIn(w) \ {1}) =
               IF 1 \in RowsIn(w) THEN Cardinality(RowsIn(w)) - 1 ELSE Cardinality(RowsIn(w))
    BY <1>4, FS_RemoveElement
  <1>6. Cardinality(RowsIn(v)) <= Cardinality(RowsIn(w) \ {1})
    BY <1>3, <1>5, FS_Injection
  <1>7. w[1] = "row" <=> 1 \in RowsIn(w)
    BY <1>1 DEF RowsIn
  <1>8. Cardinality(RowsIn(v)) + (IF w[1] = "row" THEN 1 ELSE 0) <= Cardinality(RowsIn(w))
    BY <1>4, <1>5, <1>6, <1>7
  <1> QED
    BY <1>8 DEF v

\* What lSPAD sends is sent to the session that is on, or to nobody.
Sent(x) ==
    /\ reply' \in Seq(LspadReplies) /\ Grown(reply', reply, x)
    /\ Cardinality(RowsIn(reply')) =
          Cardinality(RowsIn(reply)) + (IF x = "row" THEN 1 ELSE 0)
Sends(x) ==
    \/ reply' = reply /\ ~(lspad_cmds[1].of = session /\ step # "idle")
    \/ /\ lspad_cmds[1].of = session /\ step # "idle"
       /\ Sent(x)

LEMMA LspadSends ==
    ASSUME LspadTyped, lspad_cmds # <<>>, NEW x \in LspadReplies, Lspad!Reply(x)
    PROVE  Sends(x)
  <1>1. reply \in Seq(LspadReplies) /\ lspad_cmds \in Seq(LspadCommands)
    BY DEF LspadTyped
  <1>2. Head(lspad_cmds) = lspad_cmds[1]
    BY <1>1
  <1>3. /\ Append(reply, x) \in Seq(LspadReplies) /\ Grown(Append(reply, x), reply, x)
        /\ Cardinality(RowsIn(Append(reply, x))) =
               Cardinality(RowsIn(reply)) + (IF x = "row" THEN 1 ELSE 0)
    BY <1>1, AppendLaw, RowsGrow
  <1> QED
    BY <1>2, <1>3 DEF Sends, Sent, Lspad!Reply

-----------------------------------------------------------------------------
\* A command is answered: what is left is the rest, in its order.
LEMMA OrderTaken ==
    ASSUME InTurn, Takes, UNCHANGED session, rows_out' = 0
    PROVE  InTurn'
  <1>1. ASSUME NEW i \in DOMAIN lspad_cmds', NEW j \in DOMAIN lspad_cmds', i < j
        PROVE  lspad_cmds'[i].of <= lspad_cmds'[j].of
    <2>1. /\ i + 1 \in DOMAIN lspad_cmds /\ j + 1 \in DOMAIN lspad_cmds /\ i + 1 < j + 1
          /\ lspad_cmds'[i] = lspad_cmds[i + 1] /\ lspad_cmds'[j] = lspad_cmds[j + 1]
      BY <1>1 DEF Takes
    <2> QED
      BY <2>1 DEF InTurn
  <1>2. \A i \in DOMAIN lspad_cmds' : lspad_cmds'[i].of <= session'
    BY DEF InTurn, Takes
  <1> QED
    BY <1>1, <1>2 DEF InTurn

LEMMA StopTaken ==
    ASSUME Takes, UNCHANGED session, NEW c, StopAnd(c)
    PROVE  StopAnd(c)'
  <1> SUFFICES ASSUME NEW i \in DOMAIN lspad_cmds', lspad_cmds'[i].of = session
               PROVE  \/ lspad_cmds'[i].cmd = "STOP"
                      \/ lspad_cmds'[i].cmd = c /\ i = Len(lspad_cmds')
    BY DEF StopAnd
  <1>1. i \in Nat /\ i + 1 \in DOMAIN lspad_cmds /\ lspad_cmds'[i] = lspad_cmds[i + 1]
    BY DEF Takes
  <1>2. \/ lspad_cmds[i + 1].cmd = "STOP"
        \/ lspad_cmds[i + 1].cmd = c /\ i + 1 = Len(lspad_cmds)
    BY <1>1 DEF StopAnd
  <1>3. i + 1 = Len(lspad_cmds) => i = Len(lspad_cmds')
    BY <1>1 DEF Takes
  <1> QED
    BY <1>1, <1>2, <1>3

LEMMA CommandsTaken ==
    ASSUME CommandsLeft, Takes, UNCHANGED <<session, step>>
    PROVE  CommandsLeft'
  <1>1. /\ step = "stop" => StopAnd("STOP")'
        /\ step = "dir" => StopAnd("D")'
        /\ step = "rows" => StopAnd("I")'
    BY StopTaken DEF CommandsLeft
  <1>2. OwnAsk("T")' = OwnAsk("T")
    BY DEF OwnAsk
  <1>3. \A a, b : Tail(<<a>>) = <<>> /\ Tail(<<a, b>>) = <<b>>
    OBVIOUS
  <1>4. lspad_cmds # <<>> /\ lspad_cmds' = Tail(lspad_cmds)
    BY DEF Takes
  <1>5. /\ step = "tdc" => lspad_cmds' = <<>>
        /\ step = "cal" => lspad_cmds' = <<>>
        /\ step = "find" => lspad_cmds' \in {<<>>, <<OwnAsk("T")>>}
        /\ step # "run"
    BY <1>3, <1>4 DEF CommandsLeft
  <1> QED
    BY <1>1, <1>2, <1>5 DEF CommandsLeft

Calibrating(i) == \E j \in DOMAIN lspad_cmds : j < i /\ lspad_cmds[j].cmd = "Tc"

LEMMA CalibratingTaken ==
    ASSUME Takes, NEW i \in DOMAIN lspad_cmds', Calibrating(i + 1), lspad_cmds[1].cmd # "Tc"
    PROVE  Calibrating(i)'
  <1>1. i \in Nat
    BY DEF Takes
  <1>2. PICK j \in DOMAIN lspad_cmds : j < i + 1 /\ lspad_cmds[j].cmd = "Tc"
    BY DEF Calibrating
  <1>3. j # 1 /\ j - 1 \in DOMAIN lspad_cmds' /\ lspad_cmds'[j - 1] = lspad_cmds[j] /\ j \in Nat
    BY <1>2 DEF Takes
  <1>4. j - 1 < i
    BY <1>1, <1>2, <1>3
  <1> QED
    BY <1>2, <1>3, <1>4 DEF Calibrating

LEMMA CalibratedTaken ==
    ASSUME WillBeCalibrated, Takes, tdc' \in BOOLEAN, tdc => tdc',
           lspad_cmds[1].cmd = "Tc" => tdc', begun_ok', UNCHANGED step,
           step = "cal" => lspad_cmds = <<OwnAsk("Tc")>>
    PROVE  WillBeCalibrated'
  <1>1. ASSUME NEW i \in DOMAIN lspad_cmds', lspad_cmds'[i].cmd = "T", ~tdc'
        PROVE  Calibrating(i)'
    <2>1. i + 1 \in DOMAIN lspad_cmds /\ lspad_cmds[i + 1].cmd = "T"
      BY <1>1 DEF Takes
    <2>2. Calibrating(i + 1)
      BY <1>1, <2>1 DEF WillBeCalibrated, Calibrating
    <2> QED
      BY <1>1, <2>2, CalibratingTaken
  <1>2. step = "cal" => tdc'
    <2>1. OwnAsk("Tc").cmd = "Tc" /\ \A a : <<a>>[1] = a
      BY DEF OwnAsk
    <2> QED
      BY <2>1
  <1> QED
    BY <1>1, <1>2 DEF WillBeCalibrated, Calibrating

LEMMA NumbersTaken ==
    ASSUME LspadTyped, InTurn, RunNumbers, Takes, UNCHANGED <<session, step, counter, dirs>>
    PROVE  RunNumbers'
  <1>1. ASSUME NEW i \in DOMAIN lspad_cmds', lspad_cmds'[i].cmd = "T"
        PROVE  /\ counter < lspad_cmds'[i].of
               /\ \A j \in DOMAIN lspad_cmds' :
                     lspad_cmds'[j].cmd = "T" /\ i < j => lspad_cmds'[i].of < lspad_cmds'[j].of
    <2>1. i \in Nat /\ i + 1 \in DOMAIN lspad_cmds /\ lspad_cmds'[i] = lspad_cmds[i + 1]
      BY DEF Takes
    <2>2. ASSUME NEW j \in DOMAIN lspad_cmds', lspad_cmds'[j].cmd = "T", i < j
          PROVE  lspad_cmds'[i].of < lspad_cmds'[j].of
      <3>1. j \in Nat /\ j + 1 \in DOMAIN lspad_cmds /\ lspad_cmds'[j] = lspad_cmds[j + 1]
        BY DEF Takes
      <3>2. i + 1 < j + 1
        BY <2>1, <2>2, <3>1
      <3> QED
        BY <1>1, <2>1, <2>2, <3>1, <3>2 DEF RunNumbers
    <2> QED
      BY <1>1, <2>1, <2>2 DEF RunNumbers
  <1> QED
    BY <1>1 DEF RunNumbers

LEMMA LspadNumbers ==
    ASSUME LspadTyped, Lspad!LspadSessionAssumption
    PROVE  /\ session \in Nat /\ counter \in Nat /\ \A r \in Lspad!Runs : dirs[r] \in Nat
           /\ \A i \in DOMAIN lspad_cmds : lspad_cmds[i].of \in Nat
           /\ lspad_cmds # <<>> => 1 \in DOMAIN lspad_cmds
  <1>0. MaxSessions \in Nat
    BY DEF Lspad!LspadSessionAssumption
  <1>1. session \in Nat /\ counter \in Nat
    BY <1>0 DEF LspadTyped
  <1>2. \A r \in Lspad!Runs : dirs[r] \in Nat
    BY <1>0 DEF LspadTyped
  <1>3. lspad_cmds \in Seq(LspadCommands)
    BY DEF LspadTyped
  <1>4. \A i \in DOMAIN lspad_cmds : lspad_cmds[i] \in LspadCommands
    BY <1>3
  <1>5. \A c \in LspadCommands : c.of \in Nat
    BY DEF LspadCommands
  <1>6. lspad_cmds # <<>> => 1 \in DOMAIN lspad_cmds
    BY <1>3
  <1> QED
    BY <1>1, <1>2, <1>4, <1>5, <1>6

\* A command is asked of lSPAD: it is the last, of the session that is on.
LEMMA OrderAsked ==
    ASSUME LspadTyped, Lspad!LspadSessionAssumption, InTurn, NEW c, Asks(c), session' \in Nat,
           session <= session', UNCHANGED rows_out
    PROVE  InTurn'
  <1> DEFINE n == Len(lspad_cmds')
  <1>0. session \in Nat /\ \A i \in DOMAIN lspad_cmds : lspad_cmds[i].of \in Nat
    BY LspadNumbers
  <1>1. \A i \in DOMAIN lspad_cmds' :
          i = n \/ (i \in DOMAIN lspad_cmds /\ lspad_cmds'[i] = lspad_cmds[i] /\ i < n)
    BY DEF Asks, Grown
  <1>2. lspad_cmds'[n] = [cmd |-> c, of |-> session'] /\ n \in DOMAIN lspad_cmds' /\ n \in Nat
    BY DEF Asks, Grown
  <1>3. lspad_cmds'[n].of = session'
    BY <1>2
  <1> HIDE DEF n
  <1>4. \A i \in DOMAIN lspad_cmds' : lspad_cmds'[i].of <= session'
    BY <1>0, <1>1, <1>3 DEF InTurn
  <1>5. ASSUME NEW i \in DOMAIN lspad_cmds', NEW j \in DOMAIN lspad_cmds', i < j
        PROVE  lspad_cmds'[i].of <= lspad_cmds'[j].of
    <2>1. CASE j = n
      BY <2>1, <1>3, <1>4
    <2>2. CASE j # n
      <3>1. i # n /\ j \in DOMAIN lspad_cmds /\ lspad_cmds'[j] = lspad_cmds[j]
        <4>1. j < n /\ i < j /\ i \in Nat /\ j \in Nat /\ n \in Nat
          BY <2>2, <1>1, <1>2, <1>5 DEF Asks
        <4> QED
          BY <4>1, <2>2, <1>1
      <3> QED
        BY <3>1, <1>1, <1>5 DEF InTurn
    <2> QED
      BY <2>1, <2>2
  <1>6. rows_out' # 0 => lspad_cmds' # <<>> /\ lspad_cmds'[1].cmd = "I"
    <2> SUFFICES ASSUME rows_out' # 0 PROVE lspad_cmds' # <<>> /\ lspad_cmds'[1].cmd = "I"
      OBVIOUS
    <2>1. lspad_cmds # <<>> /\ lspad_cmds[1].cmd = "I"
      BY DEF InTurn
    <2>2. 1 \in DOMAIN lspad_cmds
      BY <2>1, LspadNumbers
    <2>3. 1 \in DOMAIN lspad_cmds' /\ lspad_cmds'[1] = lspad_cmds[1]
      BY <2>2 DEF Asks, Grown
    <2> QED
      BY <2>1, <2>3
  <1> QED
    BY <1>4, <1>5, <1>6 DEF InTurn

LEMMA CalibratingAsked ==
    ASSUME NEW c, Asks(c), NEW i \in DOMAIN lspad_cmds', lspad_cmds'[i].cmd = "T",
           i \in DOMAIN lspad_cmds => Calibrating(i),
           c = "T" => \E j \in DOMAIN lspad_cmds : lspad_cmds[j].cmd = "Tc"
    PROVE  Calibrating(i)'
  <1>1. CASE i = Len(lspad_cmds')
    <2>1. c = "T"
      <3>1. lspad_cmds'[i] = [cmd |-> c, of |-> session']
        BY <1>1 DEF Asks, Grown
      <3> QED
        BY <3>1
    <2>2. PICK j \in DOMAIN lspad_cmds : lspad_cmds[j].cmd = "Tc"
      BY <2>1
    <2> QED
      BY <1>1, <2>2 DEF Asks, Grown, Calibrating
  <1>2. CASE i # Len(lspad_cmds')
    <2>1. i \in DOMAIN lspad_cmds
      BY <1>2 DEF Asks, Grown
    <2>2. PICK j \in DOMAIN lspad_cmds : j < i /\ lspad_cmds[j].cmd = "Tc"
      BY <2>1 DEF Calibrating
    <2> QED
      BY <2>2 DEF Asks, Grown, Calibrating
  <1> QED
    BY <1>1, <1>2

LEMMA SomethingAsked ==
    ASSUME NEW c, Asks(c)
    PROVE  /\ lspad_cmds' # <<>>
           /\ \A i \in DOMAIN lspad_cmds' : i \in DOMAIN lspad_cmds => lspad_cmds'[i] = lspad_cmds[i]
  <1>1. Len(lspad_cmds') \in DOMAIN lspad_cmds'
        /\ \A i \in DOMAIN lspad_cmds' : i \in DOMAIN lspad_cmds => lspad_cmds'[i] = lspad_cmds[i]
    BY DEF Asks, Grown
  <1>2. DOMAIN <<>> = {}
    OBVIOUS
  <1> QED
    BY <1>1, <1>2

LEMMA CalibratedAsked ==
    ASSUME WillBeCalibrated, NEW c, Asks(c), UNCHANGED <<tdc, begun_ok>>,
           c = "T" => tdc \/ \E j \in DOMAIN lspad_cmds : lspad_cmds[j].cmd = "Tc"
    PROVE  WillBeCalibrated'
  <1>1. ASSUME NEW i \in DOMAIN lspad_cmds', lspad_cmds'[i].cmd = "T", ~tdc'
        PROVE  Calibrating(i)'
    <2>1. i \in DOMAIN lspad_cmds => Calibrating(i)
      BY <1>1, SomethingAsked DEF WillBeCalibrated, Calibrating
    <2> QED
      BY <1>1, <2>1, CalibratingAsked
  <1> QED
    BY <1>1, SomethingAsked DEF WillBeCalibrated, Calibrating

LEMMA NumbersAsked ==
    ASSUME LspadTyped, Lspad!LspadSessionAssumption, RunNumbers, NEW c, Asks(c),
           session' \in Nat, UNCHANGED <<counter, dirs>>,
           session <= session',
           step' \in {"stop", "dir", "tdc", "cal"} =>
               session < session' \/ step \in {"stop", "dir", "tdc", "cal"},
           c = "T" => /\ counter < session'
                      /\ \A j \in DOMAIN lspad_cmds :
                            lspad_cmds[j].cmd = "T" => lspad_cmds[j].of < session'
    PROVE  RunNumbers'
  <1> DEFINE n == Len(lspad_cmds')
  <1>0. session \in Nat /\ counter \in Nat /\ \A r \in Lspad!Runs : dirs[r] \in Nat
    BY LspadNumbers
  <1>1. \A i \in DOMAIN lspad_cmds' :
          i = n \/ (i \in DOMAIN lspad_cmds /\ lspad_cmds'[i] = lspad_cmds[i] /\ i < n)
    BY DEF Asks, Grown
  <1>2. lspad_cmds'[n] = [cmd |-> c, of |-> session'] /\ n \in Nat /\
          DOMAIN lspad_cmds' \subseteq Nat
    BY DEF Asks, Grown
  <1>3. lspad_cmds'[n].of = session' /\ lspad_cmds'[n].cmd = c
    BY <1>2
  <1> HIDE DEF n
  <1>4. ASSUME NEW i \in DOMAIN lspad_cmds', lspad_cmds'[i].cmd = "T"
        PROVE  /\ counter < lspad_cmds'[i].of
               /\ \A j \in DOMAIN lspad_cmds' :
                     lspad_cmds'[j].cmd = "T" /\ i < j => lspad_cmds'[i].of < lspad_cmds'[j].of
    <2>1. CASE i = n
      <3>1. \A j \in DOMAIN lspad_cmds' : ~(n < j)
        BY <1>1, <1>2
      <3> QED
        BY <2>1, <3>1, <1>3, <1>4
    <2>2. CASE i # n
      <3>1. i \in DOMAIN lspad_cmds /\ lspad_cmds'[i] = lspad_cmds[i]
        BY <2>2, <1>1
      <3>2. counter < lspad_cmds'[i].of
        BY <3>1, <1>4 DEF RunNumbers
      <3>3. ASSUME NEW j \in DOMAIN lspad_cmds', lspad_cmds'[j].cmd = "T", i < j
            PROVE  lspad_cmds'[i].of < lspad_cmds'[j].of
        <4>1. CASE j = n
          BY <4>1, <1>3, <3>1, <3>3, <1>4
        <4>2. CASE j # n
          BY <4>2, <1>1, <1>4, <3>1, <3>3 DEF RunNumbers
        <4> QED
          BY <4>1, <4>2
      <3> QED
        BY <3>2, <3>3
    <2> QED
      BY <2>1, <2>2
  <1>5. counter <= session' /\ \A r \in Lspad!Runs : dirs[r] <= session'
    BY <1>0 DEF RunNumbers
  <1>6. step' \in {"stop", "dir", "tdc", "cal"} =>
          counter < session' /\ \A r \in Lspad!Runs : dirs[r] < session'
    BY <1>0 DEF RunNumbers
  <1> QED
    BY <1>4, <1>5, <1>6 DEF RunNumbers

LEMMA RowsTaken ==
    ASSUME LspadTyped, OwnRows, Takes, UNCHANGED <<session, step, intensity_rows, buf, sent>>,
           NEW x \in LspadReplies, x # "row", rows_out' \in Nat,
           Sends(x) \/ UNCHANGED reply
    PROVE  OwnRows'
  <1>1. RowsSent' = RowsSent /\ RowsSent \in Nat
    <2>1. intensity_rows \in Seq({"row", "last"}) /\ reply \in Seq(LspadReplies)
      BY DEF LspadTyped
    <2>2. Cardinality(RowsIn(reply)) \in Nat /\ Len(intensity_rows) \in Nat
      BY <2>1, RowsFinite
    <2>3. Cardinality(RowsIn(reply')) = Cardinality(RowsIn(reply))
      BY <2>2 DEF Sends, Sent
    <2> QED
      BY <2>2, <2>3 DEF RowsSent
  <1>2. ASSUME step = "rows", Len(intensity_rows) < ROWS,
               NEW i \in DOMAIN lspad_cmds', lspad_cmds'[i] = OwnAsk("I")'
        PROVE  RowsSent = 0
    <2>1. i + 1 \in DOMAIN lspad_cmds /\ lspad_cmds[i + 1] = OwnAsk("I") /\ i + 1 # 1
      BY <1>2 DEF Takes, OwnAsk
    <2>2. RowsSent <= 0
      BY <1>2, <2>1 DEF OwnRows
    <2> QED
      BY <1>1, <2>2
  <1> QED
    BY <1>1, <1>2 DEF OwnRows, Lspad!WholeReply

LEMMA SentLast ==
    ASSUME NEW x, Sends(x), NEW i \in DOMAIN reply'
    PROVE  \/ reply'[i] = x /\ lspad_cmds[1].of = session /\ step # "idle"
           \/ i \in DOMAIN reply /\ reply'[i] = reply[i]
  <1>1. CASE reply' = reply
    BY <1>1
  <1>2. CASE Sent(x) /\ lspad_cmds[1].of = session /\ step # "idle"
    BY <1>2 DEF Sent, Grown
  <1> QED
    BY <1>1, <1>2 DEF Sends, Sent

\* lSPAD sends a row: no session in a handshake listens.
LEMMA AnswersKept ==
    ASSUME CommandsLeft, AnswersLeft, lspad_cmds # <<>>, lspad_cmds[1].cmd = "I", UNCHANGED step,
           NEW x, x # "echo", Sends(x)
    PROVE  AnswersLeft'
  <1>1. step # "tdc"
    <2>1. \A a : <<a>>[1] = a
      OBVIOUS
    <2>2. OwnAsk("Tv").cmd = "Tv"
      BY DEF OwnAsk
    <2> QED
      BY <2>1, <2>2 DEF CommandsLeft
  <1>2. ASSUME step = "dir", NEW i \in DOMAIN reply', reply'[i] = "echo" PROVE FALSE
    BY <1>2, SentLast DEF AnswersLeft
  <1> QED
    BY <1>1, <1>2 DEF AnswersLeft

LEMMA PairAppended ==
    ASSUME NEW a, NEW b
    PROVE  Append(<<>>, b) = <<b>> /\ Append(<<a>>, b) = <<a, b>>
  <1> DEFINE s == Append(<<a>>, b)
             t == <<a, b>>
  <1>1. <<a>> \in Seq({a, b}) /\ t \in Seq({a, b}) /\ Len(t) = 2 /\ t[1] = a /\ t[2] = b
    OBVIOUS
  <1>2. s \in Seq({a, b}) /\ Len(s) = 2
    BY <1>1
  <1>3. s[1] = a /\ s[2] = b
    BY <1>1
  <1>4. Append(<<>>, b) = <<b>>
    OBVIOUS
  <1> HIDE DEF s, t
  <1>5. DOMAIN s = 1 .. 2 /\ DOMAIN t = 1 .. 2
    BY <1>1, <1>2
  <1>6. s = [i \in 1 .. 2 |-> s[i]] /\ t = [i \in 1 .. 2 |-> t[i]] /\ \A i \in 1 .. 2 : s[i] = t[i]
    BY <1>1, <1>2, <1>3, <1>5
  <1>7. s = t
    BY <1>6
  <1> QED
    BY <1>4, <1>7 DEF s, t

-----------------------------------------------------------------------------
\* What lSPAD does.
LEMMA LspadStopsKeeps ==
    ASSUME LspadInv, Lspad!LspadSessionAssumption, Lspad!LspadStops
    PROVE  LspadInv'
  <1>0. /\ LspadTyped /\ InTurn /\ OfItsKind /\ CommandsLeft /\ AnswersLeft
        /\ WillBeCalibrated /\ RunNumbers /\ OwnFolder /\ OwnRows
        /\ ROWS \in Nat \ {0} /\ {MaxSessions, MaxRestarts, MaxFaults} \subseteq Nat
    BY DEF LspadInv, Lspad!LspadSessionAssumption
  <1>a. /\ lspad_cmds[1].cmd = "STOP" /\ Takes /\ Sends("stopped") /\ stream' = FALSE
        /\ UNCHANGED <<tdc, counter, dirs, rows_out, session, kind, step, before, run_dir,
                       intensity_rows, buf, sent, begun_ok, unclean, restarts, faults>>
    BY <1>0, LspadTakes, LspadSends DEF LspadReplies, Lspad!LspadStops, Lspad!Asked, Lspad!Pop,
       Lspad!node, Lspad!ghosts
  <1>1. LspadTyped'
    BY <1>0, <1>a DEF LspadTyped, Takes, Sends, Sent
  <1>2. InTurn'
    BY <1>0, <1>a, OrderTaken DEF InTurn
  <1>3. OfItsKind'
    BY <1>0, <1>a DEF OfItsKind
  <1>4. CommandsLeft'
    BY <1>0, <1>a, CommandsTaken
  <1>5. AnswersLeft'
    <2>1. \A i \in DOMAIN reply' : reply'[i] = "stopped" \/
            (i \in DOMAIN reply /\ reply'[i] = reply[i])
      BY <1>a, SentLast
    <2>2. step # "tdc"
      BY <1>0, <1>a DEF CommandsLeft, OwnAsk, Takes
    <2> QED
      BY <2>1, <2>2, <1>0, <1>a DEF AnswersLeft, Takes
  <1>6. WillBeCalibrated'
    <2>1. step # "cal"
      BY <1>0, <1>a DEF CommandsLeft, OwnAsk, Takes
    <2> QED
      BY <2>1, <1>0, <1>a, CalibratedTaken DEF WillBeCalibrated, LspadTyped
  <1>7. RunNumbers'
    BY <1>0, <1>a, NumbersTaken
  <1>8. OwnFolder'
    <2>1. step # "find"
      BY <1>0, <1>a DEF CommandsLeft, OwnAsk, Takes
    <2> QED
      BY <2>1, <1>0, <1>a DEF OwnFolder
  <1>9. OwnRows'
    BY <1>0, <1>a, RowsTaken DEF LspadReplies, LspadTyped
  <1> QED
    BY <1>1, <1>2, <1>3, <1>4, <1>5, <1>6, <1>7, <1>8, <1>9 DEF LspadInv

LEMMA LspadAnswersKeeps ==
    ASSUME LspadInv, Lspad!LspadSessionAssumption, Lspad!LspadAnswers
    PROVE  LspadInv'
  <1>0. /\ LspadTyped /\ InTurn /\ OfItsKind /\ CommandsLeft /\ AnswersLeft
        /\ WillBeCalibrated /\ RunNumbers /\ OwnFolder /\ OwnRows
        /\ ROWS \in Nat \ {0} /\ {MaxSessions, MaxRestarts, MaxFaults} \subseteq Nat
    BY DEF LspadInv, Lspad!LspadSessionAssumption
  <1>a. PICK x \in {"echo", "completed", "valid", "invalid"} :
        /\ lspad_cmds[1].cmd = (IF x = "echo" THEN "D" ELSE IF x = "completed" THEN "Tc" ELSE "Tv")
        /\ (x = "valid" => tdc) /\ tdc' = (x = "completed" \/ tdc) /\ Takes /\ Sends(x)
        /\ UNCHANGED <<stream, counter, dirs, rows_out, session, kind, step, before, run_dir,
                       intensity_rows, buf, sent, begun_ok, unclean, restarts, faults>>
    <2>1. lspad_cmds # <<>> /\ Takes /\ Head(lspad_cmds) = lspad_cmds[1]
      BY <1>0, LspadTakes DEF Lspad!LspadAnswers, Lspad!Asked, Lspad!Pop
    <2>2. CASE Lspad!Asked("D") /\ Lspad!Reply("echo") /\ UNCHANGED tdc
      <3>1. Sends("echo") /\ "echo" \in {"echo", "completed", "valid", "invalid"}
        BY <1>0, <2>1, <2>2, LspadSends DEF LspadReplies
      <3> QED
        BY <1>0, <2>1, <2>2, <3>1 DEF Lspad!LspadAnswers, Lspad!Asked, Lspad!node, Lspad!ghosts,
           LspadTyped
    <2>3. CASE Lspad!Asked("Tv") /\ Lspad!Reply(IF tdc THEN "valid" ELSE "invalid") /\ UNCHANGED tdc
      <3>1. PICK x \in {"valid", "invalid"} : x = IF tdc THEN "valid" ELSE "invalid"
        OBVIOUS
      <3>2. Sends(x) /\ Lspad!Reply(x)
        BY <1>0, <2>1, <2>3, <3>1, LspadSends DEF LspadReplies
      <3> QED
        BY <1>0, <2>1, <2>3, <3>1, <3>2 DEF Lspad!LspadAnswers, Lspad!Asked, Lspad!node,
           Lspad!ghosts, LspadTyped
    <2>4. CASE Lspad!Asked("Tc") /\ Lspad!Reply("completed") /\ tdc' = TRUE
      <3>1. Sends("completed")
        BY <1>0, <2>1, <2>4, LspadSends DEF LspadReplies
      <3> QED
        BY <1>0, <2>1, <2>4, <3>1 DEF Lspad!LspadAnswers, Lspad!Asked, Lspad!node, Lspad!ghosts,
           LspadTyped
    <2> QED
      BY <2>2, <2>3, <2>4 DEF Lspad!LspadAnswers
  <1>1. LspadTyped'
    BY <1>0, <1>a DEF LspadTyped, Takes, Sends, Sent
  <1>2. InTurn'
    BY <1>0, <1>a, OrderTaken DEF InTurn
  <1>3. OfItsKind'
    BY <1>0, <1>a DEF OfItsKind
  <1>4. CommandsLeft'
    BY <1>0, <1>a, CommandsTaken
  <1>5. AnswersLeft'
    <2>2. ASSUME step = "dir", NEW i \in DOMAIN reply', reply'[i] = "echo" PROVE lspad_cmds' = <<>>
      <3>1. ~(i \in DOMAIN reply /\ reply[i] = "echo")
        BY <1>0, <1>a, <2>2 DEF AnswersLeft, Takes
      <3>2. x = "echo" /\ lspad_cmds[1].of = session
        BY <2>2, <3>1, <1>a, SentLast
      <3>3. lspad_cmds[1].cmd = "D" /\ lspad_cmds[1].of = session
        BY <3>2, <1>a
      <3>4. Len(lspad_cmds) = 1
        BY <3>3, <2>2, <1>0, <1>a DEF CommandsLeft, StopAnd, Takes
      <3> QED
        BY <3>4, <1>a DEF Takes
    <2>3. ASSUME step = "tdc" PROVE lspad_cmds' = <<>> /\ TdcTold'
      <3>1. lspad_cmds = <<OwnAsk("Tv")>> /\ \A i \in DOMAIN reply : reply[i] = "bin"
        BY <1>0, <1>a, <2>3 DEF CommandsLeft, AnswersLeft, Takes
      <3>2. lspad_cmds[1] = OwnAsk("Tv") /\ Len(lspad_cmds) = 1
        BY <3>1
      <3>3. lspad_cmds[1].cmd = "Tv" /\ lspad_cmds[1].of = session
        BY <3>2 DEF OwnAsk
      <3>4. x \in {"valid", "invalid"} /\ Grown(reply', reply, x)
        BY <3>3, <1>a, <2>3 DEF Sends, Sent
      <3>5. /\ Len(reply') \in DOMAIN reply' /\ reply'[Len(reply')] = x
            /\ \A i \in DOMAIN reply' : i # Len(reply') => reply'[i] = "bin"
        BY <3>1, <3>4 DEF Grown
      <3>6. (x = "valid" /\ tdc') \/ x = "invalid"
        BY <3>4, <1>a
      <3> QED
        BY <3>2, <3>5, <3>6, <1>a DEF Takes, TdcTold
    <2> QED
      BY <2>2, <2>3, <1>a DEF AnswersLeft
  <1>6. WillBeCalibrated'
    <2>1. step = "cal" => lspad_cmds = <<OwnAsk("Tc")>>
      BY <1>0, <1>a DEF CommandsLeft, OwnAsk, Takes
    <2>2. tdc' \in BOOLEAN /\ (tdc => tdc') /\ begun_ok' /\ (lspad_cmds[1].cmd = "Tc" => tdc')
      BY <1>0, <1>a DEF WillBeCalibrated, LspadTyped
    <2> QED
      BY <2>1, <2>2, <1>0, <1>a, CalibratedTaken
  <1>7. RunNumbers'
    BY <1>0, <1>a, NumbersTaken
  <1>8. OwnFolder'
    <2>1. ASSUME step = "find" PROVE lspad_cmds' # <<>>
      <3>1. \A a, b : <<a>>[1] = a /\ Tail(<<a, b>>) = <<b>> /\ <<b>> # <<>>
        OBVIOUS
      <3>2. OwnAsk("T").cmd = "T"
        BY DEF OwnAsk
      <3>3. lspad_cmds # <<OwnAsk("T")>> /\ lspad_cmds # <<>> /\ lspad_cmds' = Tail(lspad_cmds)
        BY <3>1, <3>2, <1>a DEF Takes
      <3> QED
        BY <3>1, <3>3, <2>1, <1>0 DEF CommandsLeft
    <2> QED
      BY <2>1, <1>0, <1>a DEF OwnFolder, Takes
  <1>9. OwnRows'
    BY <1>0, <1>a, RowsTaken DEF LspadReplies, LspadTyped
  <1> QED
    BY <1>1, <1>2, <1>3, <1>4, <1>5, <1>6, <1>7, <1>8, <1>9 DEF LspadInv

LEMMA LspadBeginsKeeps ==
    ASSUME LspadInv, Lspad!LspadSessionAssumption, Lspad!LspadBegins
    PROVE  LspadInv'
  <1>0. /\ LspadTyped /\ InTurn /\ OfItsKind /\ CommandsLeft /\ AnswersLeft
        /\ WillBeCalibrated /\ RunNumbers /\ OwnFolder /\ OwnRows
        /\ ROWS \in Nat \ {0} /\ {MaxSessions, MaxRestarts, MaxFaults} \subseteq Nat
    BY DEF LspadInv, Lspad!LspadSessionAssumption
  <1>a. /\ lspad_cmds[1].cmd = "T" /\ Takes /\ begun_ok' = (begun_ok /\ tdc)
        /\ dirs' = [dirs EXCEPT ![counter] = lspad_cmds[1].of] /\ counter' = counter + 1
        /\ UNCHANGED <<reply, stream, tdc, rows_out, session, kind, step, before, run_dir,
                       intensity_rows, buf, sent, unclean, restarts, faults>>
    BY <1>0, LspadTakes DEF LspadReplies, Lspad!LspadBegins, Lspad!Asked, Lspad!Pop, Lspad!node
  <1>b. /\ 1 \in DOMAIN lspad_cmds /\ lspad_cmds[1].cmd = "T" /\ tdc /\ begun_ok
        /\ counter < lspad_cmds[1].of /\ lspad_cmds[1].of <= session
        /\ counter \in Nat /\ lspad_cmds[1].of \in 0 .. MaxSessions /\ session \in 0 .. MaxSessions
        /\ counter \in Lspad!Runs /\ dirs \in [Lspad!Runs -> 0 .. MaxSessions] /\ rows_out \in Nat
    <2>1. /\ 1 \in DOMAIN lspad_cmds /\ \A j \in DOMAIN lspad_cmds : ~(j < 1)
          /\ dirs \in [Lspad!Runs -> 0 .. MaxSessions]
      BY <1>0, <1>a DEF Takes, LspadTyped
    <2>2. tdc /\ begun_ok
      BY <2>1, <1>0, <1>a DEF WillBeCalibrated
    <2>3. counter < lspad_cmds[1].of /\ lspad_cmds[1].of <= session
      BY <2>1, <1>0, <1>a DEF RunNumbers, InTurn
    <2>4. counter \in Nat /\ lspad_cmds[1].of \in Nat /\ session \in 0 .. MaxSessions /\
            rows_out \in Nat
      BY <2>1, <1>0, LspadNumbers DEF LspadTyped
    <2>5. lspad_cmds[1].of \in 0 .. MaxSessions /\ counter \in Lspad!Runs
      BY <2>3, <2>4, <1>0 DEF Lspad!Runs
    <2> QED
      BY <2>1, <2>2, <2>3, <2>4, <2>5, <1>a
  <1>1. LspadTyped'
    <2>1. /\ counter' \in Nat /\ dirs' \in [Lspad!Runs -> 0 .. MaxSessions]
          /\ begun_ok' \in BOOLEAN /\ lspad_cmds' \in Seq(LspadCommands)
      BY <1>b, <1>a DEF Takes
    <2> QED
      BY <2>1, <1>0, <1>a DEF LspadTyped
  <1>2. InTurn'
    BY <1>0, <1>a, OrderTaken DEF InTurn
  <1>3. OfItsKind'
    BY <1>0, <1>a DEF OfItsKind
  <1>4. CommandsLeft'
    BY <1>0, <1>a, CommandsTaken
  <1>5. AnswersLeft'
    <2>1. step # "tdc"
      BY <1>0, <1>a DEF CommandsLeft, OwnAsk, Takes
    <2> QED
      BY <2>1, <1>0, <1>a DEF AnswersLeft, Takes
  <1>6. WillBeCalibrated'
    <2>1. step # "cal"
      BY <1>0, <1>a DEF CommandsLeft, OwnAsk, Takes
    <2> QED
      BY <2>1, <1>0, <1>a, <1>b, CalibratedTaken DEF LspadTyped
  <1>7. RunNumbers'
    <2>1. counter' <= session /\ \A r \in Lspad!Runs : dirs'[r] <= session
      BY <1>0, <1>b, <1>a DEF RunNumbers
    <2>2. ASSUME NEW i \in DOMAIN lspad_cmds', lspad_cmds'[i].cmd = "T"
          PROVE  /\ counter' < lspad_cmds'[i].of
                 /\ \A j \in DOMAIN lspad_cmds' :
                       lspad_cmds'[j].cmd = "T" /\ i < j => lspad_cmds'[i].of < lspad_cmds'[j].of
      <3>1. /\ i \in Nat \ {0} /\ i + 1 \in DOMAIN lspad_cmds /\ lspad_cmds'[i] = lspad_cmds[i + 1]
            /\ 1 < i + 1
        BY <1>a DEF Takes
      <3>2. lspad_cmds[1].of < lspad_cmds'[i].of
        BY <1>0, <1>a, <1>b, <2>2, <3>1 DEF RunNumbers
      <3>3. lspad_cmds'[i].of \in Nat /\ counter' < lspad_cmds'[i].of
        BY <3>1, <3>2, <1>0, <1>a, <1>b, LspadNumbers
      <3>4. ASSUME NEW j \in DOMAIN lspad_cmds', lspad_cmds'[j].cmd = "T", i < j
            PROVE  lspad_cmds'[i].of < lspad_cmds'[j].of
        <4>1. /\ j \in Nat /\ j + 1 \in DOMAIN lspad_cmds /\ lspad_cmds'[j] = lspad_cmds[j + 1]
          BY <1>a DEF Takes
        <4>2. i + 1 < j + 1
          BY <3>1, <3>4, <4>1
        <4> QED
          BY <1>0, <2>2, <3>1, <3>4, <4>1, <4>2 DEF RunNumbers
      <3> QED
        BY <3>3, <3>4
    <2>3. ASSUME step \in {"stop", "dir", "tdc", "cal"}
          PROVE  counter' < session /\ \A r \in Lspad!Runs : dirs'[r] < session
      <3>1. lspad_cmds[1].of # session
        <4>1. CASE step \in {"stop", "dir"}
          BY <4>1, <1>0, <1>a, <1>b DEF CommandsLeft, StopAnd
        <4>2. CASE step \in {"tdc", "cal"}
          <5>1. \A a : <<a>>[1] = a
            OBVIOUS
          <5>2. OwnAsk("Tv").cmd = "Tv" /\ OwnAsk("Tc").cmd = "Tc"
            BY DEF OwnAsk
          <5> QED
            BY <4>2, <5>1, <5>2, <1>0, <1>a DEF CommandsLeft, Takes
        <4> QED
          BY <4>1, <4>2, <2>3
      <3>2. lspad_cmds[1].of < session
        BY <3>1, <1>b
      <3> QED
        BY <2>3, <3>2, <1>0, <1>b, <1>a DEF RunNumbers
    <2> QED
      BY <2>1, <2>2, <2>3, <1>a DEF RunNumbers
  <1>8. OwnFolder'
    <2>1. ASSUME ~unclean, NEW r \in Lspad!Runs, dirs'[r] # 0 PROVE r < counter'
      <3>1. r = counter \/ (dirs[r] # 0 /\ r < counter)
        BY <2>1, <1>0, <1>a, <1>b DEF OwnFolder
      <3>2. r \in Int
        BY <1>0 DEF Lspad!Runs
      <3> QED
        BY <3>1, <3>2, <1>a, <1>b
    <2>2. ASSUME step = "find"
          PROVE  /\ lspad_cmds' = <<>>
                 /\ \A r \in Lspad!Runs : dirs'[r] # 0 /\ r \notin before => dirs'[r] = session
                 /\ ~unclean => \A r \in before : dirs'[r] # session
      <3>1. \A a, b : <<a>>[1] = a /\ <<a, b>>[1] = a /\ Tail(<<a>>) = <<>>
        OBVIOUS
      <3>2. OwnAsk("T").of = session /\ OwnAsk("Tc").cmd = "Tc"
        BY DEF OwnAsk
      <3>3. lspad_cmds \in {<<OwnAsk("T")>>, <<OwnAsk("Tc"), OwnAsk("T")>>} /\
              lspad_cmds' = Tail(lspad_cmds)
        BY <2>2, <1>0, <1>a DEF CommandsLeft, Takes
      <3>4. lspad_cmds' = <<>> /\ lspad_cmds[1].of = session /\ lspad_cmds # <<>>
        BY <3>1, <3>2, <3>3, <1>a
      <3>5. \A r \in Lspad!Runs : dirs[r] < session /\ (dirs[r] # 0 => r \in before)
        BY <3>4, <2>2, <1>0 DEF OwnFolder
      <3>6. ~unclean => \A r \in before : r < counter
        BY <3>4, <2>2, <1>0 DEF OwnFolder
      <3>7. \A r \in Lspad!Runs : dirs'[r] = IF r = counter THEN session ELSE dirs[r]
        BY <3>4, <1>a, <1>b
      <3>8. before \subseteq Lspad!Runs /\ session \in Nat
        BY <1>0, LspadNumbers DEF LspadTyped
      <3>9. ASSUME ~unclean, NEW r \in before PROVE dirs'[r] # session
        <4>1. r # counter /\ r \in Lspad!Runs /\ dirs[r] # session
          BY <3>5, <3>6, <3>8, <3>9, <1>b
        <4> QED
          BY <4>1, <3>7
      <3> QED
        BY <3>4, <3>5, <3>7, <3>9
    <2>3. step # "run"
      BY <1>0, <1>a DEF CommandsLeft, Takes
    <2> QED
      BY <2>1, <2>2, <2>3, <1>0, <1>a DEF OwnFolder
  <1>9. OwnRows'
    BY <1>0, <1>a, <1>b, RowsTaken DEF LspadReplies
  <1> QED
    BY <1>1, <1>2, <1>3, <1>4, <1>5, <1>6, <1>7, <1>8, <1>9 DEF LspadInv

LEMMA LspadRowKeeps ==
    ASSUME LspadInv, Lspad!LspadSessionAssumption, Lspad!LspadRow
    PROVE  LspadInv'
  <1>0. /\ LspadTyped /\ InTurn /\ OfItsKind /\ CommandsLeft /\ AnswersLeft
        /\ WillBeCalibrated /\ RunNumbers /\ OwnFolder /\ OwnRows
        /\ ROWS \in Nat \ {0} /\ {MaxSessions, MaxRestarts, MaxFaults} \subseteq Nat
    BY DEF LspadInv, Lspad!LspadSessionAssumption
  <1>a. /\ lspad_cmds # <<>> /\ lspad_cmds[1].cmd = "I" /\ Sends("row")
        /\ rows_out < ROWS - 1 /\ rows_out' = rows_out + 1
        /\ UNCHANGED <<lspad_cmds, stream, tdc, counter, dirs, session, kind, step, before,
                       run_dir, intensity_rows, buf, sent, begun_ok, unclean, restarts, faults>>
    <2>1. lspad_cmds # <<>> => Head(lspad_cmds) = lspad_cmds[1]
      BY <1>0 DEF LspadTyped
    <2> QED
      BY <2>1, <1>0, LspadSends DEF LspadReplies, Lspad!LspadRow, Lspad!Asked, Lspad!node,
         Lspad!ghosts
  <1>1. LspadTyped'
    BY <1>0, <1>a DEF LspadTyped, Sends, Sent
  <1>2. InTurn'
    BY <1>0, <1>a DEF InTurn
  <1>3. OfItsKind'
    BY <1>0, <1>a DEF OfItsKind
  <1>4. CommandsLeft'
    BY <1>0, <1>a DEF CommandsLeft, StopAnd, OwnAsk
  <1>5. AnswersLeft'
    BY <1>0, <1>a, AnswersKept
  <1>6. WillBeCalibrated'
    BY <1>0, <1>a DEF WillBeCalibrated
  <1>7. RunNumbers'
    BY <1>0, <1>a DEF RunNumbers
  <1>8. OwnFolder'
    BY <1>0, <1>a DEF OwnFolder
  <1>9. OwnRows'
    <2>1. /\ RowsSent \in Nat /\ rows_out \in Nat /\ 1 \in DOMAIN lspad_cmds
      <3>1. intensity_rows \in Seq({"row", "last"}) /\ reply \in Seq(LspadReplies) /\
              rows_out \in Nat
        BY <1>0 DEF LspadTyped
      <3>2. Cardinality(RowsIn(reply)) \in Nat /\ Len(intensity_rows) \in Nat
        BY <3>1, RowsFinite
      <3>3. 1 \in DOMAIN lspad_cmds
        BY <1>0, <1>a, LspadNumbers
      <3> QED
        BY <3>1, <3>2, <3>3 DEF RowsSent
    <2>2. CASE reply' = reply /\ ~(lspad_cmds[1].of = session /\ step # "idle")
      <3>1. RowsSent' = RowsSent
        BY <2>2, <1>a DEF RowsSent
      <3>2. step = "rows" => lspad_cmds[1] # OwnAsk("I")
        BY <2>2 DEF OwnAsk
      <3> QED
        BY <3>1, <3>2, <2>1, <1>0, <1>a DEF OwnRows, Lspad!WholeReply, OwnAsk
    <2>3. CASE lspad_cmds[1].of = session /\ RowsSent' = RowsSent + 1
      <3>1. lspad_cmds[1] = OwnAsk("I")
        <4>1. \A c \in LspadCommands : c = [cmd |-> c.cmd, of |-> c.of]
          BY DEF LspadCommands
        <4>2. lspad_cmds[1] \in LspadCommands
          BY <2>1, <1>0 DEF LspadTyped
        <4> QED
          BY <4>1, <4>2, <2>3, <1>a DEF OwnAsk
      <3>2. ASSUME step = "rows", Len(intensity_rows) < ROWS
            PROVE  /\ RowsSent' <= ROWS - 1
                   /\ \A i \in DOMAIN lspad_cmds :
                         lspad_cmds[i] = OwnAsk("I") => RowsSent' <= IF i = 1 THEN rows_out' ELSE 0
        <4>1. RowsSent <= rows_out
          BY <3>1, <3>2, <2>1, <1>0 DEF OwnRows
        <4>2. ASSUME NEW i \in DOMAIN lspad_cmds, lspad_cmds[i] = OwnAsk("I") PROVE i = 1
          <5>1. StopAnd("I") /\ i \in Nat /\ 1 <= i /\ i <= Len(lspad_cmds)
            BY <3>2, <4>2, <1>0 DEF CommandsLeft, LspadTyped
          <5>2. 1 = Len(lspad_cmds)
            BY <5>1, <2>1, <2>3, <1>a DEF StopAnd
          <5> QED
            BY <5>1, <5>2
        <4> QED
          BY <4>1, <4>2, <2>1, <2>3, <1>0, <1>a
      <3> QED
        BY <3>2, <1>0, <1>a DEF OwnRows, Lspad!WholeReply, OwnAsk
    <2>4. Sent("row") => RowsSent' = RowsSent + 1
      <3>1. intensity_rows \in Seq({"row", "last"}) /\ reply \in Seq(LspadReplies)
        BY <1>0 DEF LspadTyped
      <3>2. Cardinality(RowsIn(reply)) \in Nat /\ Len(intensity_rows) \in Nat
        BY <3>1, RowsFinite
      <3> QED
        BY <3>2, <1>a DEF RowsSent, Sent
    <2> QED
      BY <2>2, <2>3, <2>4, <1>a DEF Sends
  <1> QED
    BY <1>1, <1>2, <1>3, <1>4, <1>5, <1>6, <1>7, <1>8, <1>9 DEF LspadInv

LEMMA LspadHalfRowKeeps ==
    ASSUME LspadInv, Lspad!LspadSessionAssumption, Lspad!LspadLastRow, UNCHANGED lspad_cmds,
           Lspad!Reply("half"), rows_out' = ROWS
    PROVE  LspadInv'
  <1>0. /\ LspadTyped /\ InTurn /\ OfItsKind /\ CommandsLeft /\ AnswersLeft
        /\ WillBeCalibrated /\ RunNumbers /\ OwnFolder /\ OwnRows
        /\ ROWS \in Nat \ {0} /\ {MaxSessions, MaxRestarts, MaxFaults} \subseteq Nat
    BY DEF LspadInv, Lspad!LspadSessionAssumption
  <1>a. /\ lspad_cmds # <<>> /\ lspad_cmds[1].cmd = "I" /\ Sends("half")
        /\ rows_out = ROWS - 1 /\ rows_out' = ROWS
        /\ UNCHANGED <<lspad_cmds, stream, tdc, counter, dirs, session, kind, step, before,
                       run_dir, intensity_rows, buf, sent, begun_ok, unclean, restarts, faults>>
    <2>1. lspad_cmds # <<>> => Head(lspad_cmds) = lspad_cmds[1]
      BY <1>0 DEF LspadTyped
    <2> QED
      BY <2>1, <1>0, LspadSends DEF LspadReplies, Lspad!LspadLastRow, Lspad!Asked, Lspad!node,
         Lspad!ghosts
  <1>1. LspadTyped'
    BY <1>0, <1>a DEF LspadTyped, Sends, Sent
  <1>2. InTurn'
    BY <1>0, <1>a DEF InTurn
  <1>3. OfItsKind'
    BY <1>0, <1>a DEF OfItsKind
  <1>4. CommandsLeft'
    BY <1>0, <1>a DEF CommandsLeft, StopAnd, OwnAsk
  <1>5. AnswersLeft'
    BY <1>0, <1>a, AnswersKept
  <1>6. WillBeCalibrated'
    BY <1>0, <1>a DEF WillBeCalibrated
  <1>7. RunNumbers'
    BY <1>0, <1>a DEF RunNumbers
  <1>8. OwnFolder'
    BY <1>0, <1>a DEF OwnFolder
  <1>9. OwnRows'
    <2>1. RowsSent \in Nat /\ RowsSent' = RowsSent
      <3>1. intensity_rows \in Seq({"row", "last"}) /\ reply \in Seq(LspadReplies)
        BY <1>0 DEF LspadTyped
      <3>2. Cardinality(RowsIn(reply)) \in Nat /\ Len(intensity_rows) \in Nat
        BY <3>1, RowsFinite
      <3> QED
        BY <3>2, <1>a DEF RowsSent, Sends, Sent
    <2> QED
      BY <2>1, <1>0, <1>a DEF OwnRows, Lspad!WholeReply, OwnAsk
  <1> QED
    BY <1>1, <1>2, <1>3, <1>4, <1>5, <1>6, <1>7, <1>8, <1>9 DEF LspadInv

LEMMA LspadRowEndsKeeps ==
    ASSUME LspadInv, Lspad!LspadSessionAssumption,
           Lspad!LspadRestOfRow \/
               (Lspad!LspadLastRow /\ Lspad!Reply("last") /\ rows_out' = 0 /\ Lspad!Pop)
    PROVE  LspadInv'
  <1>0. /\ LspadTyped /\ InTurn /\ OfItsKind /\ CommandsLeft /\ AnswersLeft
        /\ WillBeCalibrated /\ RunNumbers /\ OwnFolder /\ OwnRows
        /\ ROWS \in Nat \ {0} /\ {MaxSessions, MaxRestarts, MaxFaults} \subseteq Nat
    BY DEF LspadInv, Lspad!LspadSessionAssumption
  <1>a. PICK x \in {"last", "rest"} :
        /\ lspad_cmds # <<>> /\ lspad_cmds[1].cmd = "I" /\ Takes /\ rows_out' = 0 /\ Sends(x)
        /\ UNCHANGED <<stream, tdc, counter, dirs, session, kind, step, before, run_dir,
                       intensity_rows, buf, sent, begun_ok, unclean, restarts, faults>>
    <2>1. lspad_cmds # <<>> /\ Takes /\ Head(lspad_cmds) = lspad_cmds[1]
      BY <1>0, LspadTakes DEF Lspad!LspadRestOfRow, Lspad!LspadLastRow, Lspad!Asked, Lspad!Pop
    <2>2. PICK x \in {"last", "rest"} : Lspad!Reply(x)
      BY DEF Lspad!LspadRestOfRow
    <2>3. Sends(x)
      BY <2>1, <2>2, <1>0, LspadSends DEF LspadReplies
    <2> QED
      BY <2>1, <2>2, <2>3 DEF Lspad!LspadRestOfRow, Lspad!LspadLastRow, Lspad!Asked, Lspad!node,
         Lspad!ghosts
  <1>1. LspadTyped'
    BY <1>0, <1>a DEF LspadTyped, Takes, Sends, Sent
  <1>2. InTurn'
    BY <1>0, <1>a, OrderTaken
  <1>3. OfItsKind'
    BY <1>0, <1>a DEF OfItsKind
  <1>4. CommandsLeft'
    BY <1>0, <1>a, CommandsTaken
  <1>5. AnswersLeft'
    BY <1>0, <1>a, AnswersKept
  <1>6. WillBeCalibrated'
    <2>1. step # "cal"
      BY <1>0, <1>a DEF CommandsLeft, OwnAsk, Takes
    <2> QED
      BY <2>1, <1>0, <1>a, CalibratedTaken DEF WillBeCalibrated, LspadTyped
  <1>7. RunNumbers'
    BY <1>0, <1>a, NumbersTaken
  <1>8. OwnFolder'
    <2>1. step # "find"
      BY <1>0, <1>a DEF CommandsLeft, OwnAsk, Takes
    <2> QED
      BY <2>1, <1>0, <1>a DEF OwnFolder
  <1>9. OwnRows'
    BY <1>0, <1>a, RowsTaken DEF LspadReplies
  <1> QED
    BY <1>1, <1>2, <1>3, <1>4, <1>5, <1>6, <1>7, <1>8, <1>9 DEF LspadInv

LEMMA LspadStreamsKeeps ==
    ASSUME LspadInv, Lspad!LspadSessionAssumption, Lspad!LspadStreams
    PROVE  LspadInv'
  <1>0. /\ LspadTyped /\ InTurn /\ OfItsKind /\ CommandsLeft /\ AnswersLeft
        /\ WillBeCalibrated /\ RunNumbers /\ OwnFolder /\ OwnRows
        /\ ROWS \in Nat \ {0} /\ {MaxSessions, MaxRestarts, MaxFaults} \subseteq Nat
    BY DEF LspadInv, Lspad!LspadSessionAssumption
  <1>a. /\ Sent("bin")
        /\ UNCHANGED <<lspad_cmds, stream, tdc, counter, dirs, rows_out, session, kind, step,
                       before, run_dir, intensity_rows, buf, sent, begun_ok, unclean, restarts,
                           faults>>
    <2>1. reply \in Seq(LspadReplies) /\ reply' = Append(reply, "bin") /\ "bin" \in LspadReplies
      BY <1>0 DEF Lspad!LspadStreams, LspadTyped, LspadReplies
    <2>2. Sent("bin")
      BY <2>1, AppendLaw, RowsGrow DEF Sent
    <2> QED
      BY <2>2 DEF Lspad!LspadStreams, Lspad!lspad, Lspad!node, Lspad!ghosts
  <1>1. LspadTyped'
    BY <1>0, <1>a DEF LspadTyped, Sent
  <1>2. InTurn'
    BY <1>0, <1>a DEF InTurn
  <1>3. OfItsKind'
    BY <1>0, <1>a DEF OfItsKind
  <1>4. CommandsLeft'
    BY <1>0, <1>a DEF CommandsLeft, StopAnd, OwnAsk
  <1>5. AnswersLeft'
    <2>1. \A i \in DOMAIN reply' : reply'[i] = "bin" \/ (i \in DOMAIN reply /\ reply'[i] = reply[i])
      BY <1>a DEF Sent, Grown
    <2>2. ASSUME TdcTold PROVE TdcTold'
      <3>1. PICK k \in DOMAIN reply :
              /\ (reply[k] = "valid" /\ tdc) \/ reply[k] = "invalid"
              /\ \A i \in DOMAIN reply : i # k => reply[i] = "bin"
        BY <2>2 DEF TdcTold
      <3>2. k \in DOMAIN reply' /\ reply'[k] = reply[k]
        BY <1>a DEF Sent, Grown
      <3> QED
        BY <3>1, <3>2, <2>1, <1>a DEF TdcTold
    <2> QED
      BY <2>1, <2>2, <1>0, <1>a DEF AnswersLeft
  <1>6. WillBeCalibrated'
    BY <1>0, <1>a DEF WillBeCalibrated
  <1>7. RunNumbers'
    BY <1>0, <1>a DEF RunNumbers
  <1>8. OwnFolder'
    BY <1>0, <1>a DEF OwnFolder
  <1>9. OwnRows'
    <2>1. RowsSent \in Nat /\ RowsSent' = RowsSent
      <3>1. intensity_rows \in Seq({"row", "last"}) /\ reply \in Seq(LspadReplies)
        BY <1>0 DEF LspadTyped
      <3>2. Cardinality(RowsIn(reply)) \in Nat /\ Len(intensity_rows) \in Nat
        BY <3>1, RowsFinite
      <3> QED
        BY <3>2, <1>a DEF RowsSent, Sent
    <2> QED
      BY <2>1, <1>0, <1>a DEF OwnRows, Lspad!WholeReply, OwnAsk
  <1> QED
    BY <1>1, <1>2, <1>3, <1>4, <1>5, <1>6, <1>7, <1>8, <1>9 DEF LspadInv

-----------------------------------------------------------------------------
\* What the node does, and the restarts.
LEMMA BeginKeeps ==
    ASSUME LspadInv, Lspad!LspadSessionAssumption, NEW k \in {"T", "I"}, Lspad!Begin(k)
    PROVE  LspadInv'
  <1>0. /\ LspadTyped /\ InTurn /\ OfItsKind /\ CommandsLeft /\ AnswersLeft
        /\ WillBeCalibrated /\ RunNumbers /\ OwnFolder /\ OwnRows
        /\ ROWS \in Nat \ {0} /\ {MaxSessions, MaxRestarts, MaxFaults} \subseteq Nat
    BY DEF LspadInv, Lspad!LspadSessionAssumption
  <1>a. /\ step = "idle" /\ session < MaxSessions /\ session' = session + 1 /\ kind' = k /\
             step' = "stop"
        /\ Asks("STOP") /\ reply' = <<>> /\ intensity_rows' = <<>> /\ buf' = "no" /\ run_dir' = -1
        /\ sent' = <<>> /\ before' \subseteq Lspad!Runs
        /\ UNCHANGED <<stream, tdc, counter, dirs, rows_out, begun_ok, unclean, restarts,
                       faults>>
    <2>1. session' \in Nat
      BY <1>0, LspadNumbers DEF Lspad!Begin
    <2>2. Asks("STOP")
      BY <2>1, <1>0, LspadAsks DEF Lspad!Begin, Lspad!Ask
    <2> QED
      BY <2>2 DEF Lspad!Begin, Lspad!Goto, Lspad!Listing, Lspad!ghosts
  <1>1. LspadTyped'
    <2>1. reply' \in Seq(LspadReplies) /\ lspad_cmds' \in Seq(LspadCommands)
      BY <1>a DEF Asks
    <2> QED
      BY <2>1, <1>0, <1>a DEF LspadTyped
  <1>2. InTurn'
    <2>1. session \in Nat /\ session' \in Nat /\ session <= session'
      BY <1>0, <1>a, LspadNumbers
    <2> QED
      BY <2>1, <1>0, <1>a, OrderAsked
  <1>3. OfItsKind'
    BY <1>0, <1>a DEF OfItsKind
  <1>4. CommandsLeft'
    <2>1. ASSUME NEW i \in DOMAIN lspad_cmds',
                 lspad_cmds'[i].of = session' PROVE lspad_cmds'[i].cmd = "STOP"
      <3>1. lspad_cmds'[Len(lspad_cmds')] = [cmd |-> "STOP", of |-> session']
        BY <1>a DEF Asks, Grown
      <3>2. i # Len(lspad_cmds') => i \in DOMAIN lspad_cmds /\ lspad_cmds'[i] = lspad_cmds[i]
        BY <1>a DEF Asks, Grown
      <3>3. i \in DOMAIN lspad_cmds => lspad_cmds[i].of <= session /\ session \in Nat
        BY <1>0, LspadNumbers DEF InTurn
      <3>4. i = Len(lspad_cmds')
        BY <3>2, <3>3, <2>1, <1>a
      <3> QED
        BY <3>1, <3>4
    <2> QED
      BY <2>1, <1>a DEF CommandsLeft, StopAnd
  <1>5. AnswersLeft'
    BY <1>0, <1>a DEF AnswersLeft, TdcTold
  <1>6. WillBeCalibrated'
    BY <1>0, <1>a, CalibratedAsked
  <1>7. RunNumbers'
    <2>1. session \in Nat /\ session' \in Nat /\ session < session' /\ session <= session'
      BY <1>0, <1>a, LspadNumbers
    <2> QED
      BY <2>1, <1>0, <1>a, NumbersAsked
  <1>8. OwnFolder'
    BY <1>0, <1>a DEF OwnFolder
  <1>9. OwnRows'
    BY <1>0, <1>a DEF OwnRows, Lspad!WholeReply
  <1> QED
    BY <1>1, <1>2, <1>3, <1>4, <1>5, <1>6, <1>7, <1>8, <1>9 DEF LspadInv

LEMMA AfterStopKeeps ==
    ASSUME LspadInv, Lspad!LspadSessionAssumption, Lspad!AfterStop
    PROVE  LspadInv'
  <1>0. /\ LspadTyped /\ InTurn /\ OfItsKind /\ CommandsLeft /\ AnswersLeft
        /\ WillBeCalibrated /\ RunNumbers /\ OwnFolder /\ OwnRows
        /\ ROWS \in Nat \ {0} /\ {MaxSessions, MaxRestarts, MaxFaults} \subseteq Nat
    BY DEF LspadInv, Lspad!LspadSessionAssumption
  <1>a. /\ step = "stop" /\ reply' = <<>>
        /\ (kind = "T" /\ step' = "dir" /\ Asks("D")) \/ (kind = "I" /\ step' = "rows" /\ Asks("I"))
        /\ UNCHANGED <<stream, tdc, counter, dirs, rows_out, session, kind, before, run_dir,
                       intensity_rows, buf, sent, begun_ok, unclean, restarts, faults>>
    <2>1. session' = session /\ session' \in Nat /\ kind \in {"T", "I"}
      BY <1>0, LspadNumbers DEF Lspad!AfterStop, Lspad!Drained, LspadTyped
    <2>2. CASE kind = "T"
      <3>1. Asks("D")
        BY <2>1, <2>2, <1>0, LspadAsks DEF Lspad!AfterStop, Lspad!Drained, Lspad!Ask
      <3> QED
        BY <2>2, <3>1 DEF Lspad!AfterStop, Lspad!Drained, Lspad!Goto, Lspad!ghosts
    <2>3. CASE kind = "I"
      <3>1. Asks("I")
        BY <2>1, <2>3, <1>0, LspadAsks DEF Lspad!AfterStop, Lspad!Drained, Lspad!Ask
      <3> QED
        BY <2>3, <3>1 DEF Lspad!AfterStop, Lspad!Drained, Lspad!Goto, Lspad!ghosts
    <2> QED
      BY <2>1, <2>2, <2>3
  <1>1. LspadTyped'
    <2>1. reply' \in Seq(LspadReplies) /\ lspad_cmds' \in Seq(LspadCommands)
      BY <1>a DEF Asks
    <2> QED
      BY <2>1, <1>0, <1>a DEF LspadTyped
  <1>2. InTurn'
    <2>1. session \in Nat /\ session' \in Nat /\ session <= session'
      BY <1>0, <1>a, LspadNumbers
    <2> QED
      BY <2>1, <1>0, <1>a, OrderAsked
  <1>3. OfItsKind'
    BY <1>0, <1>a DEF OfItsKind
  <1>4. CommandsLeft'
    <2>1. ASSUME NEW c, Asks(c) PROVE StopAnd(c)'
      <3> SUFFICES ASSUME NEW i \in DOMAIN lspad_cmds', lspad_cmds'[i].of = session
                   PROVE  \/ lspad_cmds'[i].cmd = "STOP"
                          \/ lspad_cmds'[i].cmd = c /\ i = Len(lspad_cmds')
        BY <1>a DEF StopAnd
      <3>1. lspad_cmds'[Len(lspad_cmds')] = [cmd |-> c, of |-> session']
        BY <2>1 DEF Asks, Grown
      <3>2. i # Len(lspad_cmds') => i \in DOMAIN lspad_cmds /\ lspad_cmds'[i] = lspad_cmds[i]
        BY <2>1 DEF Asks, Grown
      <3>3. i # Len(lspad_cmds') => lspad_cmds'[i].cmd = "STOP"
        BY <3>2, <1>0, <1>a DEF CommandsLeft, StopAnd
      <3> QED
        BY <3>1, <3>3
    <2> QED
      BY <2>1, <1>a DEF CommandsLeft
  <1>5. AnswersLeft'
    BY <1>0, <1>a DEF AnswersLeft, TdcTold
  <1>6. WillBeCalibrated'
    BY <1>0, <1>a, CalibratedAsked
  <1>7. RunNumbers'
    <2>1. session \in Nat /\ session' \in Nat /\ session <= session'
      BY <1>0, <1>a, LspadNumbers
    <2> QED
      BY <2>1, <1>0, <1>a, NumbersAsked
  <1>8. OwnFolder'
    BY <1>0, <1>a DEF OwnFolder
  <1>9. OwnRows'
    <2>1. RowsSent' = 0
      <3>1. Len(<<>>) = 0
        OBVIOUS
      <3> QED
        BY <3>1, <1>0, <1>a, RowsOfNone DEF RowsSent, OwnRows
    <2>2. \A i \in DOMAIN lspad_cmds' : RowsSent' <= IF i = 1 THEN rows_out' ELSE 0
      BY <2>1, <1>0, <1>a DEF LspadTyped
    <2>3. intensity_rows = <<>> /\ buf = "no" /\ Len(intensity_rows) = 0
      BY <1>0, <1>a DEF OwnRows
    <2> QED
      BY <2>1, <2>2, <2>3, <1>0, <1>a DEF OwnRows, Lspad!WholeReply
  <1> QED
    BY <1>1, <1>2, <1>3, <1>4, <1>5, <1>6, <1>7, <1>8, <1>9 DEF LspadInv

LEMMA AfterDirKeeps ==
    ASSUME LspadInv, Lspad!LspadSessionAssumption, Lspad!AfterDir
    PROVE  LspadInv'
  <1>0. /\ LspadTyped /\ InTurn /\ OfItsKind /\ CommandsLeft /\ AnswersLeft
        /\ WillBeCalibrated /\ RunNumbers /\ OwnFolder /\ OwnRows
        /\ ROWS \in Nat \ {0} /\ {MaxSessions, MaxRestarts, MaxFaults} \subseteq Nat
    BY DEF LspadInv, Lspad!LspadSessionAssumption
  <1>a. /\ step = "dir" /\ kind = "T" /\ reply = <<"echo">> /\ reply' = <<>> /\ step' = "tdc" /\
             Asks("Tv")
        /\ lspad_cmds' = <<OwnAsk("Tv")>>
        /\ UNCHANGED <<stream, tdc, counter, dirs, rows_out, session, kind, before, run_dir,
                       intensity_rows, buf, sent, begun_ok, unclean, restarts, faults>>
    <2>1. session' = session /\ session' \in Nat
      BY <1>0, LspadNumbers DEF Lspad!AfterDir, Lspad!Drained
    <2>2. Asks("Tv")
      BY <2>1, <1>0, LspadAsks DEF Lspad!AfterDir, Lspad!Drained, Lspad!Ask
    <2>3. lspad_cmds = <<>>
      <3>1. reply = <<"echo">> /\ step = "dir"
        BY DEF Lspad!AfterDir, Lspad!EchoOnly, Lspad!At
      <3>2. 1 \in DOMAIN reply /\ reply[1] = "echo"
        BY <3>1
      <3> QED
        BY <3>1, <3>2, <1>0 DEF AnswersLeft
    <2>4. lspad_cmds' = <<OwnAsk("Tv")>>
      BY <2>1, <2>3 DEF Lspad!AfterDir, Lspad!Drained, Lspad!Ask, OwnAsk
    <2> QED
      BY <2>2, <2>4 DEF Lspad!AfterDir, Lspad!Drained, Lspad!EchoOnly, Lspad!At, Lspad!Goto,
         Lspad!ghosts
  <1>1. LspadTyped'
    <2>1. reply' \in Seq(LspadReplies) /\ lspad_cmds' \in Seq(LspadCommands)
      BY <1>a DEF Asks
    <2> QED
      BY <2>1, <1>0, <1>a DEF LspadTyped
  <1>2. InTurn'
    <2>1. session \in Nat /\ session' \in Nat /\ session <= session'
      BY <1>0, <1>a, LspadNumbers
    <2> QED
      BY <2>1, <1>0, <1>a, OrderAsked
  <1>3. OfItsKind'
    BY <1>0, <1>a DEF OfItsKind
  <1>4. CommandsLeft'
    BY <1>a DEF CommandsLeft, OwnAsk
  <1>5. AnswersLeft'
    BY <1>a DEF AnswersLeft
  <1>6. WillBeCalibrated'
    BY <1>0, <1>a, CalibratedAsked
  <1>7. RunNumbers'
    <2>1. session \in Nat /\ session' \in Nat /\ session <= session'
      BY <1>0, <1>a, LspadNumbers
    <2> QED
      BY <2>1, <1>0, <1>a, NumbersAsked
  <1>8. OwnFolder'
    BY <1>0, <1>a DEF OwnFolder
  <1>9. OwnRows'
    BY <1>0, <1>a DEF OwnRows, Lspad!WholeReply
  <1> QED
    BY <1>1, <1>2, <1>3, <1>4, <1>5, <1>6, <1>7, <1>8, <1>9 DEF LspadInv

LEMMA AfterTdcKeeps ==
    ASSUME LspadInv, Lspad!LspadSessionAssumption, Lspad!AfterTdc
    PROVE  LspadInv'
  <1>0. /\ LspadTyped /\ InTurn /\ OfItsKind /\ CommandsLeft /\ AnswersLeft
        /\ WillBeCalibrated /\ RunNumbers /\ OwnFolder /\ OwnRows
        /\ ROWS \in Nat \ {0} /\ {MaxSessions, MaxRestarts, MaxFaults} \subseteq Nat
    BY DEF LspadInv, Lspad!LspadSessionAssumption
  <1>a. /\ step = "tdc" /\ kind = "T" /\ reply' = <<>> /\ lspad_cmds = <<>>
        /\ \/ step' = "cal" /\ before' = before /\ Asks("Tc") /\ lspad_cmds' = <<OwnAsk("Tc")>>
           \/ /\ step' = "find" /\ before' = Lspad!Listing /\ tdc /\ Asks("T")
              /\ lspad_cmds' = <<OwnAsk("T")>>
        /\ UNCHANGED <<stream, tdc, counter, dirs, rows_out, session, kind, run_dir,
                       intensity_rows, buf, sent, begun_ok, unclean, restarts, faults>>
    <2>1. session' = session /\ session' \in Nat
      BY <1>0, LspadNumbers DEF Lspad!AfterTdc
    <2>2. step = "tdc" /\ reply # <<>> /\ \A i \in DOMAIN reply : reply[i] # "bin"
      BY DEF Lspad!AfterTdc, Lspad!At, Lspad!IsText
    <2>3. DOMAIN reply = 1 .. Len(reply) /\ Len(reply) \in Nat \ {0} /\ 1 \in DOMAIN reply
      BY <2>2, <1>0 DEF LspadTyped
    <2>4. lspad_cmds = <<>> /\ TdcTold
      BY <2>2, <2>3, <1>0 DEF AnswersLeft
    <2>5. PICK n \in DOMAIN reply : /\ (reply[n] = "valid" /\ tdc) \/ reply[n] = "invalid"
                                    /\ \A i \in DOMAIN reply : i # n => reply[i] = "bin"
      BY <2>4 DEF TdcTold
    <2>6. \A i \in DOMAIN reply : i = n
      BY <2>2, <2>5
    <2>7. Len(reply) = 1 /\ n = 1
      BY <2>3, <2>6
    <2>8. reply = <<reply[n]>>
      BY <2>3, <2>7, <1>0 DEF LspadTyped
    <2>9. tdc \/ reply = <<"invalid">>
      BY <2>5, <2>8
    <2>10. CASE reply = <<"invalid">>
      <3>1. Asks("Tc")
        BY <2>1, <2>10, <1>0, LspadAsks DEF Lspad!AfterTdc, Lspad!Ask
      <3>2. lspad_cmds' = <<OwnAsk("Tc")>>
        BY <2>1, <2>4, <2>10 DEF Lspad!AfterTdc, Lspad!Ask, OwnAsk
      <3> QED
        BY <2>4, <2>10, <3>1, <3>2 DEF Lspad!AfterTdc, Lspad!At, Lspad!Goto, Lspad!ghosts
    <2>11. CASE reply # <<"invalid">>
      <3>1. Asks("T")
        BY <2>1, <2>11, <1>0, LspadAsks DEF Lspad!AfterTdc, Lspad!Ask
      <3>2. lspad_cmds' = <<OwnAsk("T")>>
        BY <2>1, <2>4, <2>11 DEF Lspad!AfterTdc, Lspad!Ask, OwnAsk
      <3> QED
        BY <2>4, <2>9, <2>11, <3>1, <3>2 DEF Lspad!AfterTdc, Lspad!At, Lspad!Goto, Lspad!Snapshot,
           Lspad!ghosts
    <2> QED
      BY <2>10, <2>11
  <1>1. LspadTyped'
    <2>1. reply' \in Seq(LspadReplies) /\ lspad_cmds' \in Seq(LspadCommands)
      BY <1>a DEF Asks
    <2>2. before' \subseteq Lspad!Runs
      BY <1>0, <1>a DEF LspadTyped, Lspad!Listing
    <2> QED
      BY <2>1, <2>2, <1>0, <1>a DEF LspadTyped
  <1>2. InTurn'
    <2>1. session \in Nat /\ session' \in Nat /\ session <= session'
      BY <1>0, <1>a, LspadNumbers
    <2> QED
      BY <2>1, <1>0, <1>a, OrderAsked
  <1>3. OfItsKind'
    BY <1>0, <1>a DEF OfItsKind
  <1>4. CommandsLeft'
    BY <1>a DEF CommandsLeft, OwnAsk
  <1>5. AnswersLeft'
    BY <1>a DEF AnswersLeft
  <1>6. WillBeCalibrated'
    <2>1. CASE tdc /\ Asks("T")
      BY <2>1, <1>0, <1>a, CalibratedAsked
    <2>2. CASE Asks("Tc")
      BY <2>2, <1>0, <1>a, CalibratedAsked
    <2> QED
      BY <2>1, <2>2, <1>a
  <1>7. RunNumbers'
    <2>1. session \in Nat /\ session' \in Nat /\ session <= session'
      BY <1>0, <1>a, LspadNumbers
    <2>2. counter < session' /\
            \A j \in DOMAIN lspad_cmds : lspad_cmds[j].cmd = "T" => lspad_cmds[j].of < session'
      BY <1>0, <1>a DEF RunNumbers
    <2> QED
      BY <2>1, <2>2, <1>0, <1>a, NumbersAsked
  <1>8. OwnFolder'
    <2>1. \A r \in Lspad!Runs : dirs[r] < session
      BY <1>0, <1>a DEF RunNumbers
    <2>2. step' = "find" => lspad_cmds' # <<>> /\ before' = {r \in Lspad!Runs : dirs[r] # 0}
      BY <1>a DEF Lspad!Listing
    <2> QED
      BY <2>1, <2>2, <1>0, <1>a DEF OwnFolder
  <1>9. OwnRows'
    BY <1>0, <1>a DEF OwnRows, Lspad!WholeReply
  <1> QED
    BY <1>1, <1>2, <1>3, <1>4, <1>5, <1>6, <1>7, <1>8, <1>9 DEF LspadInv

LEMMA AfterCalibrationKeeps ==
    ASSUME LspadInv, Lspad!LspadSessionAssumption, Lspad!AfterCalibration
    PROVE  LspadInv'
  <1>0. /\ LspadTyped /\ InTurn /\ OfItsKind /\ CommandsLeft /\ AnswersLeft
        /\ WillBeCalibrated /\ RunNumbers /\ OwnFolder /\ OwnRows
        /\ ROWS \in Nat \ {0} /\ {MaxSessions, MaxRestarts, MaxFaults} \subseteq Nat
    BY DEF LspadInv, Lspad!LspadSessionAssumption
  <1>a. /\ step = "cal" /\ kind = "T" /\ reply' = <<>> /\ step' = "find" /\
             before' = Lspad!Listing /\ Asks("T")
        /\ \/ lspad_cmds = <<>> /\ lspad_cmds' = <<OwnAsk("T")>>
           \/ lspad_cmds = <<OwnAsk("Tc")>> /\ lspad_cmds' = <<OwnAsk("Tc"), OwnAsk("T")>>
        /\ UNCHANGED <<stream, tdc, counter, dirs, rows_out, session, kind, run_dir,
                       intensity_rows, buf, sent, begun_ok, unclean, restarts, faults>>
    <2>1. session' = session /\ session' \in Nat /\ step = "cal"
      BY <1>0, LspadNumbers DEF Lspad!AfterCalibration, Lspad!Drained, Lspad!At
    <2>2. Asks("T")
      BY <2>1, <1>0, LspadAsks DEF Lspad!AfterCalibration, Lspad!Drained, Lspad!Ask
    <2>3. lspad_cmds' = Append(lspad_cmds, OwnAsk("T"))
      BY <2>1 DEF Lspad!AfterCalibration, Lspad!Drained, Lspad!Ask, OwnAsk
    <2> DEFINE a == OwnAsk("Tc")
               b == OwnAsk("T")
    <2> HIDE DEF a, b
    <2>4. Append(<<>>, b) = <<b>> /\ Append(<<a>>, b) = <<a, b>>
      BY PairAppended
    <2>5. \/ lspad_cmds = <<>> /\ lspad_cmds' = <<OwnAsk("T")>>
          \/ lspad_cmds = <<OwnAsk("Tc")>> /\ lspad_cmds' = <<OwnAsk("Tc"), OwnAsk("T")>>
      BY <2>1, <2>3, <2>4, <1>0 DEF CommandsLeft, a, b
    <2> QED
      BY <2>2, <2>5 DEF Lspad!AfterCalibration, Lspad!Drained, Lspad!At, Lspad!Goto, Lspad!Snapshot,
         Lspad!ghosts
  <1>1. LspadTyped'
    <2>1. reply' \in Seq(LspadReplies) /\ lspad_cmds' \in Seq(LspadCommands)
      BY <1>a DEF Asks
    <2>2. before' \subseteq Lspad!Runs
      BY <1>0, <1>a DEF LspadTyped, Lspad!Listing
    <2> QED
      BY <2>1, <2>2, <1>0, <1>a DEF LspadTyped
  <1>2. InTurn'
    <2>1. session \in Nat /\ session' \in Nat /\ session <= session'
      BY <1>0, <1>a, LspadNumbers
    <2> QED
      BY <2>1, <1>0, <1>a, OrderAsked
  <1>3. OfItsKind'
    BY <1>0, <1>a DEF OfItsKind
  <1>4. CommandsLeft'
    BY <1>a DEF CommandsLeft, OwnAsk
  <1>5. AnswersLeft'
    BY <1>a DEF AnswersLeft
  <1>6. WillBeCalibrated'
    <2>1. \A a : 1 \in DOMAIN <<a>> /\ <<a>>[1] = a
      OBVIOUS
    <2>2. OwnAsk("Tc").cmd = "Tc"
      BY DEF OwnAsk
    <2>3. lspad_cmds = <<OwnAsk("Tc")>> => \E j \in DOMAIN lspad_cmds : lspad_cmds[j].cmd = "Tc"
      BY <2>1, <2>2
    <2>4. lspad_cmds = <<>> => tdc
      BY <1>0, <1>a DEF WillBeCalibrated
    <2> QED
      BY <2>3, <2>4, <1>0, <1>a, CalibratedAsked
  <1>7. RunNumbers'
    <2>1. session \in Nat /\ session' \in Nat /\ session <= session'
      BY <1>0, <1>a, LspadNumbers
    <2>2. \A a : DOMAIN <<a>> = {1} /\ <<a>>[1] = a
      OBVIOUS
    <2>3. OwnAsk("Tc").cmd = "Tc" /\ DOMAIN <<>> = {}
      BY DEF OwnAsk
    <2>4. counter < session' /\
            \A j \in DOMAIN lspad_cmds : lspad_cmds[j].cmd = "T" => lspad_cmds[j].of < session'
      BY <2>2, <2>3, <1>0, <1>a DEF RunNumbers
    <2> QED
      BY <2>1, <2>4, <1>0, <1>a, NumbersAsked
  <1>8. OwnFolder'
    <2>1. \A r \in Lspad!Runs : dirs[r] < session
      BY <1>0, <1>a DEF RunNumbers
    <2>2. lspad_cmds' # <<>> /\ before' = {r \in Lspad!Runs : dirs[r] # 0}
      BY <1>a DEF Lspad!Listing
    <2> QED
      BY <2>1, <2>2, <1>0, <1>a DEF OwnFolder
  <1>9. OwnRows'
    BY <1>0, <1>a DEF OwnRows, Lspad!WholeReply
  <1> QED
    BY <1>1, <1>2, <1>3, <1>4, <1>5, <1>6, <1>7, <1>8, <1>9 DEF LspadInv

LEMMA FindKeeps ==
    ASSUME LspadInv, Lspad!LspadSessionAssumption, Lspad!Find
    PROVE  LspadInv'
  <1>0. /\ LspadTyped /\ InTurn /\ OfItsKind /\ CommandsLeft /\ AnswersLeft
        /\ WillBeCalibrated /\ RunNumbers /\ OwnFolder /\ OwnRows
        /\ ROWS \in Nat \ {0} /\ {MaxSessions, MaxRestarts, MaxFaults} \subseteq Nat
    BY DEF LspadInv, Lspad!LspadSessionAssumption
  <1>a. /\ step = "find" /\ kind = "T" /\ step' = "run" /\ lspad_cmds = <<>>
        /\ run_dir' \in Lspad!Runs /\ dirs[run_dir'] # 0 /\ run_dir' \notin before
        /\ UNCHANGED <<lspad_cmds, reply, stream, tdc, counter, dirs, rows_out, session, kind,
                       before, intensity_rows, buf, sent, begun_ok, unclean, restarts, faults>>
    <2> DEFINE N == Lspad!Listing \ before
    <2>1. step = "find" /\ N # {} /\ run_dir' = Lspad!Min(N)
      BY DEF Lspad!Find, Lspad!NewDir, Lspad!At
    <2>2. N \in SUBSET Nat /\ \A r \in N : r \in Lspad!Runs /\ dirs[r] # 0 /\ r \notin before
      BY <1>0 DEF Lspad!Listing, Lspad!Runs
    <2> HIDE DEF N
    <2>3. run_dir' \in N
      <3>1. \E r \in N : \A q \in N : r <= q
        BY <2>1, <2>2, Least
      <3> QED
        BY <3>1, <2>1 DEF Lspad!Min
    <2>4. lspad_cmds = <<>>
      BY <2>1, <2>2, <1>0 DEF OwnFolder
    <2> QED
      BY <2>2, <2>3, <2>4 DEF Lspad!Find, Lspad!lspad, Lspad!ghosts, Lspad!Goto, Lspad!At
  <1>1. LspadTyped'
    BY <1>0, <1>a DEF LspadTyped
  <1>2. InTurn'
    BY <1>0, <1>a DEF InTurn
  <1>3. OfItsKind'
    BY <1>0, <1>a DEF OfItsKind
  <1>4. CommandsLeft'
    BY <1>0, <1>a DEF CommandsLeft, StopAnd, OwnAsk
  <1>5. AnswersLeft'
    BY <1>0, <1>a DEF AnswersLeft, TdcTold
  <1>6. WillBeCalibrated'
    BY <1>0, <1>a DEF WillBeCalibrated
  <1>7. RunNumbers'
    BY <1>0, <1>a DEF RunNumbers
  <1>8. OwnFolder'
    <2>1. dirs[run_dir'] = session
      BY <1>0, <1>a DEF OwnFolder
    <2> QED
      BY <2>1, <1>0, <1>a DEF OwnFolder
  <1>9. OwnRows'
    BY <1>0, <1>a DEF OwnRows, RowsSent, Lspad!WholeReply, OwnAsk
  <1> QED
    BY <1>1, <1>2, <1>3, <1>4, <1>5, <1>6, <1>7, <1>8, <1>9 DEF LspadInv

LEMMA RunEndsKeeps ==
    ASSUME LspadInv, Lspad!LspadSessionAssumption, Lspad!RunEnds
    PROVE  LspadInv'
  <1>0. /\ LspadTyped /\ InTurn /\ OfItsKind /\ CommandsLeft /\ AnswersLeft
        /\ WillBeCalibrated /\ RunNumbers /\ OwnFolder /\ OwnRows
        /\ ROWS \in Nat \ {0} /\ {MaxSessions, MaxRestarts, MaxFaults} \subseteq Nat
    BY DEF LspadInv, Lspad!LspadSessionAssumption
  <1>a. /\ step = "run" /\ step' = "idle" /\ faults' \in 0 .. MaxFaults
        /\ dirs' = dirs \/ dirs' = [dirs EXCEPT ![run_dir] = 0]
        /\ UNCHANGED <<lspad_cmds, reply, stream, tdc, counter, rows_out, session, kind,
                       before, run_dir, intensity_rows, buf, sent, begun_ok, unclean, restarts>>
    BY <1>0 DEF LspadTyped, Lspad!RunEnds, Lspad!Fault, Lspad!lspad, Lspad!ghosts, Lspad!Goto,
       Lspad!At
  <1>1. LspadTyped'
    <2>1. 0 \in 0 .. MaxSessions
      BY <1>0
    <2>2. dirs' \in [Lspad!Runs -> 0 .. MaxSessions]
      BY <2>1, <1>0, <1>a DEF LspadTyped
    <2> QED
      BY <2>2, <1>0, <1>a DEF LspadTyped
  <1>2. InTurn'
    BY <1>0, <1>a DEF InTurn
  <1>3. OfItsKind'
    BY <1>0, <1>a DEF OfItsKind
  <1>4. CommandsLeft'
    BY <1>0, <1>a DEF CommandsLeft, StopAnd, OwnAsk
  <1>5. AnswersLeft'
    BY <1>0, <1>a DEF AnswersLeft, TdcTold
  <1>6. WillBeCalibrated'
    BY <1>0, <1>a DEF WillBeCalibrated
  <1>7. RunNumbers'
    <2>1. \A r \in Lspad!Runs : dirs'[r] \in {0, dirs[r]} /\ session \in Nat
      BY <1>0, <1>a, LspadNumbers DEF LspadTyped
    <2> QED
      BY <2>1, <1>0, <1>a DEF RunNumbers
  <1>8. OwnFolder'
    <2>1. \A r \in Lspad!Runs : dirs'[r] \in {0, dirs[r]}
      BY <1>0, <1>a DEF LspadTyped
    <2> QED
      BY <2>1, <1>0, <1>a DEF OwnFolder
  <1>9. OwnRows'
    BY <1>0, <1>a DEF OwnRows, RowsSent, Lspad!WholeReply, OwnAsk
  <1> QED
    BY <1>1, <1>2, <1>3, <1>4, <1>5, <1>6, <1>7, <1>8, <1>9 DEF LspadInv

LEMMA SessionFailsKeeps ==
    ASSUME LspadInv, Lspad!LspadSessionAssumption, Lspad!SessionFails
    PROVE  LspadInv'
  <1>0. /\ LspadTyped /\ InTurn /\ OfItsKind /\ CommandsLeft /\ AnswersLeft
        /\ WillBeCalibrated /\ RunNumbers /\ OwnFolder /\ OwnRows
        /\ ROWS \in Nat \ {0} /\ {MaxSessions, MaxRestarts, MaxFaults} \subseteq Nat
    BY DEF LspadInv, Lspad!LspadSessionAssumption
  <1>a. /\ step' = "idle" /\ faults' \in 0 .. MaxFaults
        /\ UNCHANGED <<lspad_cmds, reply, stream, tdc, counter, dirs, rows_out, session, kind,
                       before, run_dir, intensity_rows, buf, sent, begun_ok, unclean, restarts>>
    BY <1>0 DEF LspadTyped, Lspad!SessionFails, Lspad!Fault, Lspad!lspad, Lspad!ghosts,
       Lspad!Goto, Lspad!At
  <1>1. LspadTyped'
    BY <1>0, <1>a DEF LspadTyped
  <1>2. InTurn'
    BY <1>0, <1>a DEF InTurn
  <1>3. OfItsKind'
    BY <1>0, <1>a DEF OfItsKind
  <1>4. CommandsLeft'
    BY <1>0, <1>a DEF CommandsLeft, StopAnd, OwnAsk
  <1>5. AnswersLeft'
    BY <1>0, <1>a DEF AnswersLeft, TdcTold
  <1>6. WillBeCalibrated'
    BY <1>0, <1>a DEF WillBeCalibrated
  <1>7. RunNumbers'
    BY <1>0, <1>a DEF RunNumbers
  <1>8. OwnFolder'
    BY <1>0, <1>a DEF OwnFolder
  <1>9. OwnRows'
    BY <1>0, <1>a DEF OwnRows, RowsSent, Lspad!WholeReply, OwnAsk
  <1> QED
    BY <1>1, <1>2, <1>3, <1>4, <1>5, <1>6, <1>7, <1>8, <1>9 DEF LspadInv

LEMMA LspadRestartsKeeps ==
    ASSUME LspadInv, Lspad!LspadSessionAssumption, Lspad!LspadRestarts
    PROVE  LspadInv'
  <1>0. /\ LspadTyped /\ InTurn /\ OfItsKind /\ CommandsLeft /\ AnswersLeft
        /\ WillBeCalibrated /\ RunNumbers /\ OwnFolder /\ OwnRows
        /\ ROWS \in Nat \ {0} /\ {MaxSessions, MaxRestarts, MaxFaults} \subseteq Nat
    BY DEF LspadInv, Lspad!LspadSessionAssumption
  <1>a. /\ step' = "idle" /\ lspad_cmds' = <<>> /\ reply' = <<>> /\ stream' = FALSE /\
             tdc' \in BOOLEAN
        /\ counter' = 0 /\ rows_out' = 0 /\ restarts' \in 0 .. MaxRestarts /\ unclean' \in BOOLEAN
        /\ ~unclean' => \A r \in Lspad!Runs : dirs[r] = 0
        /\ UNCHANGED <<dirs, session, kind, before, run_dir, intensity_rows, buf, sent,
                       begun_ok, faults>>
    <2>1. restarts' \in 0 .. MaxRestarts
      BY <1>0 DEF LspadTyped, Lspad!LspadRestarts
    <2>2. unclean' \in BOOLEAN /\ (~unclean' => \A r \in Lspad!Runs : dirs[r] = 0)
      BY <1>0 DEF LspadTyped, Lspad!LspadRestarts, Lspad!Listing
    <2> QED
      BY <2>1, <2>2 DEF Lspad!LspadRestarts, Lspad!Goto
  <1>1. LspadTyped'
    <2>1. lspad_cmds' \in Seq(LspadCommands) /\ reply' \in Seq(LspadReplies)
      BY <1>a
    <2>2. 0 \in 0 .. ROWS
      BY <1>0
    <2>3. rows_out' \in 0 .. ROWS
      BY <2>2, <1>a
    <2>4. counter' \in Nat /\ stream' \in BOOLEAN /\ tdc' \in BOOLEAN
      BY <1>a
    <2> QED
      BY <2>1, <2>3, <2>4, <1>0, <1>a DEF LspadTyped
  <1>2. InTurn'
    BY <1>0, <1>a DEF InTurn
  <1>3. OfItsKind'
    BY <1>0, <1>a DEF OfItsKind
  <1>4. CommandsLeft'
    BY <1>0, <1>a DEF CommandsLeft, StopAnd, OwnAsk
  <1>5. AnswersLeft'
    BY <1>0, <1>a DEF AnswersLeft, TdcTold
  <1>6. WillBeCalibrated'
    BY <1>0, <1>a DEF WillBeCalibrated
  <1>7. RunNumbers'
    <2>1. session \in Nat
      BY <1>0, LspadNumbers
    <2> QED
      BY <2>1, <1>0, <1>a DEF RunNumbers
  <1>8. OwnFolder'
    BY <1>0, <1>a DEF OwnFolder
  <1>9. OwnRows'
    BY <1>0, <1>a DEF OwnRows, RowsSent, Lspad!WholeReply, OwnAsk
  <1> QED
    BY <1>1, <1>2, <1>3, <1>4, <1>5, <1>6, <1>7, <1>8, <1>9 DEF LspadInv

LEMMA NodeRestartsKeeps ==
    ASSUME LspadInv, Lspad!LspadSessionAssumption, Lspad!NodeRestarts
    PROVE  LspadInv'
  <1>0. /\ LspadTyped /\ InTurn /\ OfItsKind /\ CommandsLeft /\ AnswersLeft
        /\ WillBeCalibrated /\ RunNumbers /\ OwnFolder /\ OwnRows
        /\ ROWS \in Nat \ {0} /\ {MaxSessions, MaxRestarts, MaxFaults} \subseteq Nat
    BY DEF LspadInv, Lspad!LspadSessionAssumption
  <1>a. /\ step' = "idle" /\ reply' = <<>> /\ faults' \in 0 .. MaxFaults /\ unclean' \in BOOLEAN
        /\ dirs' \in [Lspad!Runs -> 0 .. MaxSessions] /\ \A r \in Lspad!Runs : dirs'[r] \in {0,
             dirs[r]}
        /\ ~unclean' => \A r \in Lspad!Runs : dirs'[r] = 0
        /\ UNCHANGED <<lspad_cmds, stream, tdc, counter, rows_out, session, kind, before,
                       run_dir, intensity_rows, buf, sent, begun_ok, restarts>>
    <2>1. PICK stuck \in SUBSET Lspad!Listing :
            /\ IF stuck = {} THEN UNCHANGED faults ELSE Lspad!Fault
            /\ dirs' = Lspad!Cleared(stuck) /\ unclean' = (stuck # {})
      BY DEF Lspad!NodeRestarts
    <2>2. faults' \in 0 .. MaxFaults
      BY <2>1, <1>0 DEF LspadTyped, Lspad!Fault
    <2>3. dirs' = [r \in Lspad!Runs |-> IF r \in stuck THEN dirs[r] ELSE 0]
      BY <2>1 DEF Lspad!Cleared
    <2>4. 0 \in 0 .. MaxSessions /\ \A r \in Lspad!Runs : dirs[r] \in 0 .. MaxSessions
      BY <1>0 DEF LspadTyped
    <2>5. dirs' \in [Lspad!Runs -> 0 .. MaxSessions] /\ \A r \in Lspad!Runs : dirs'[r] \in {0,
            dirs[r]}
      BY <2>3, <2>4
    <2>6. ~unclean' => \A r \in Lspad!Runs : dirs'[r] = 0
      BY <2>1, <2>3
    <2>7. unclean' \in BOOLEAN
      BY <2>1
    <2> QED
      BY <2>2, <2>5, <2>6, <2>7 DEF Lspad!NodeRestarts, Lspad!lspad
  <1>1. LspadTyped'
    BY <1>0, <1>a DEF LspadTyped
  <1>2. InTurn'
    BY <1>0, <1>a DEF InTurn
  <1>3. OfItsKind'
    BY <1>0, <1>a DEF OfItsKind
  <1>4. CommandsLeft'
    BY <1>0, <1>a DEF CommandsLeft, StopAnd, OwnAsk
  <1>5. AnswersLeft'
    BY <1>0, <1>a DEF AnswersLeft, TdcTold
  <1>6. WillBeCalibrated'
    BY <1>0, <1>a DEF WillBeCalibrated
  <1>7. RunNumbers'
    <2>1. session \in Nat /\ \A r \in Lspad!Runs : dirs'[r] <= session
      BY <1>0, <1>a, LspadNumbers DEF RunNumbers
    <2> QED
      BY <2>1, <1>0, <1>a DEF RunNumbers
  <1>8. OwnFolder'
    BY <1>0, <1>a DEF OwnFolder
  <1>9. OwnRows'
    BY <1>0, <1>a DEF OwnRows, RowsSent, Lspad!WholeReply, OwnAsk
  <1> QED
    BY <1>1, <1>2, <1>3, <1>4, <1>5, <1>6, <1>7, <1>8, <1>9 DEF LspadInv

LEMMA ReadRowKeeps ==
    ASSUME LspadInv, Lspad!LspadSessionAssumption, Lspad!ReadRow
    PROVE  LspadInv'
  <1>0. /\ LspadTyped /\ InTurn /\ OfItsKind /\ CommandsLeft /\ AnswersLeft
        /\ WillBeCalibrated /\ RunNumbers /\ OwnFolder /\ OwnRows
        /\ ROWS \in Nat \ {0} /\ {MaxSessions, MaxRestarts, MaxFaults} \subseteq Nat
    BY DEF LspadInv, Lspad!LspadSessionAssumption
  <1>a. /\ step = "rows" /\ Len(intensity_rows) < ROWS /\ reply # <<>>
        /\ reply' = Tail(reply) /\ reply' \in Seq(LspadReplies) /\ buf' \in {"no", "half", "last"}
        /\ intensity_rows' = IF reply[1] = "row" THEN Append(intensity_rows,
             "row") ELSE intensity_rows
        /\ UNCHANGED <<lspad_cmds, stream, tdc, counter, dirs, rows_out, session, kind, step,
                       before, run_dir, sent, begun_ok, unclean, restarts, faults>>
    <2>1. reply \in Seq(LspadReplies) /\ buf \in {"no", "half", "last"}
      BY <1>0 DEF LspadTyped
    <2>2. reply # <<>> => Tail(reply) \in Seq(LspadReplies) /\ Head(reply) = reply[1]
      BY <2>1, TailLaw
    <2>3. Lspad!ReadRow
      OBVIOUS
    <2>4. /\ step = "rows" /\ Len(intensity_rows) < ROWS /\ reply # <<>> /\ reply' = Tail(reply)
          /\ buf' = Lspad!Joined(Head(reply))
          /\ intensity_rows' = IF Head(reply) \notin {"half", "last",
               "rest"} /\ Lspad!IsRow(Head(reply))
                               THEN Append(intensity_rows, Head(reply)) ELSE intensity_rows
      BY <2>3 DEF Lspad!ReadRow, Lspad!At, Lspad!MoreRows
    <2>5. buf' \in {"no", "half", "last"}
      BY <2>1, <2>4 DEF Lspad!Joined
    <2>6. intensity_rows' = IF reply[1] = "row" THEN Append(intensity_rows,
            "row") ELSE intensity_rows
      BY <2>2, <2>4 DEF Lspad!IsRow
    <2> QED
      BY <2>2, <2>3, <2>4, <2>5, <2>6 DEF Lspad!ReadRow, Lspad!lspad, Lspad!ghosts
  <1>1. LspadTyped'
    <2>1. intensity_rows' \in Seq({"row", "last"})
      BY <1>0, <1>a DEF LspadTyped
    <2> QED
      BY <2>1, <1>0, <1>a DEF LspadTyped
  <1>2. InTurn'
    BY <1>0, <1>a DEF InTurn
  <1>3. OfItsKind'
    BY <1>0, <1>a DEF OfItsKind
  <1>4. CommandsLeft'
    BY <1>0, <1>a DEF CommandsLeft, StopAnd, OwnAsk
  <1>5. AnswersLeft'
    BY <1>0, <1>a DEF AnswersLeft, TdcTold
  <1>6. WillBeCalibrated'
    BY <1>0, <1>a DEF WillBeCalibrated
  <1>7. RunNumbers'
    BY <1>0, <1>a DEF RunNumbers
  <1>8. OwnFolder'
    BY <1>0, <1>a DEF OwnFolder
  <1>9. OwnRows'
    <2>1. /\ intensity_rows \in Seq({"row", "last"}) /\ reply \in Seq(LspadReplies)
          /\ rows_out \in Nat /\ ROWS \in Nat
      BY <1>0 DEF LspadTyped
    <2> DEFINE one == IF reply[1] = "row" THEN 1 ELSE 0
               n == Len(intensity_rows)
               c == Cardinality(RowsIn(reply))
    <2>2. n \in Nat /\ c \in Nat /\ Cardinality(RowsIn(reply')) \in Nat
          /\ Cardinality(RowsIn(reply')) + one <= c
      <3>1. n \in Nat
        BY <2>1
      <3>2. c \in Nat /\ Cardinality(RowsIn(reply')) \in Nat
        BY <2>1, <1>a, RowsFinite
      <3>3. Cardinality(RowsIn(Tail(reply))) + one <= c
        BY <2>1, <1>a, RowsRead
      <3>4. reply' = Tail(reply)
        BY <1>a
      <3> HIDE DEF one, n, c
      <3> QED
        BY <3>1, <3>2, <3>3, <3>4
    <2>3. Len(intensity_rows') = n + one
          /\ \A i \in DOMAIN intensity_rows' :
                (i = n + 1 /\ one = 1 /\ intensity_rows'[i] = "row")
                \/ (i \in DOMAIN intensity_rows /\ intensity_rows'[i] = intensity_rows[i])
      <3>1. CASE reply[1] = "row"
        <4>1. Grown(Append(intensity_rows, "row"), intensity_rows, "row")
          BY <2>1, AppendLaw
        <4> QED
          BY <4>1, <3>1, <1>a DEF Grown
      <3>2. CASE reply[1] # "row"
        BY <3>2, <2>2, <1>a
      <3> QED
        BY <3>1, <3>2
    <2>4. RowsSent' <= RowsSent /\ RowsSent' \in Nat /\ RowsSent \in Nat
      <3>1. RowsSent = n + c /\ RowsSent' = n + one + Cardinality(RowsIn(reply')) /\ one \in Nat
        BY <2>3 DEF RowsSent
      <3> HIDE DEF one, n, c
      <3> QED
        BY <3>1, <2>2
    <2>5. n + one <= ROWS - 1
      <3> DEFINE d == Cardinality(RowsIn(reply'))
      <3>1. RowsSent' = n + one + d /\ one \in Nat /\ d \in Nat
        BY <2>2, <2>3 DEF RowsSent
      <3>2. RowsSent <= ROWS - 1
        BY <1>0, <1>a DEF OwnRows
      <3>3. n \in Nat /\ ROWS \in Nat
        BY <2>1, <2>2
      <3> HIDE DEF one, n, d
      <3> QED
        BY <3>1, <3>2, <3>3, <2>4
    <2>6. Len(intensity_rows') <= ROWS
          /\ \A i \in DOMAIN intensity_rows' :
                intensity_rows'[i] = IF i = ROWS THEN "last" ELSE "row"
      <3>1. \A i \in DOMAIN intensity_rows : intensity_rows[i] = IF i = ROWS THEN "last" ELSE "row"
        BY <1>0, <1>a DEF OwnRows
      <3>2. one \in Nat /\ (one = 1 => n + 1 # ROWS)
        BY <2>2, <2>5, <2>1
      <3>3. Len(intensity_rows') <= ROWS
        <4> HIDE DEF one, n
        <4> QED
          BY <2>1, <2>2, <2>3, <2>5, <3>2
      <3> HIDE DEF one, n
      <3> QED
        BY <3>1, <3>2, <3>3, <2>3
    <2>7. RowsSent <= ROWS - 1 /\ \A i \in DOMAIN lspad_cmds :
            lspad_cmds[i] = OwnAsk("I") => RowsSent <= IF i = 1 THEN rows_out ELSE 0
      BY <1>0, <1>a DEF OwnRows
    <2>8. RowsSent' <= ROWS - 1 /\ \A i \in DOMAIN lspad_cmds' :
            lspad_cmds'[i] = OwnAsk("I")' => RowsSent' <= IF i = 1 THEN rows_out' ELSE 0
      <3>1. OwnAsk("I")' = OwnAsk("I") /\ UNCHANGED <<lspad_cmds, rows_out>>
        BY <1>a DEF OwnAsk
      <3>2. RowsSent' <= ROWS - 1
        BY <2>1, <2>4, <2>7
      <3>3. \A b \in Nat : RowsSent <= b => RowsSent' <= b
        BY <2>4
      <3> QED
        BY <3>1, <3>2, <3>3, <2>1, <2>7
    <2> QED
      BY <2>6, <2>8, <1>0, <1>a DEF OwnRows, Lspad!WholeReply
  <1> QED
    BY <1>1, <1>2, <1>3, <1>4, <1>5, <1>6, <1>7, <1>8, <1>9 DEF LspadInv

LEMMA TailQuietKeeps ==
    ASSUME LspadInv, Lspad!LspadSessionAssumption, Lspad!TailQuiet
    PROVE  LspadInv'
  <1>0. /\ LspadTyped /\ InTurn /\ OfItsKind /\ CommandsLeft /\ AnswersLeft
        /\ WillBeCalibrated /\ RunNumbers /\ OwnFolder /\ OwnRows
        /\ ROWS \in Nat \ {0} /\ {MaxSessions, MaxRestarts, MaxFaults} \subseteq Nat
    BY DEF LspadInv, Lspad!LspadSessionAssumption
  <1>a. /\ step = "rows" /\ Len(intensity_rows) = ROWS - 1
        /\ intensity_rows' = Append(intensity_rows, "last") /\ buf' = "no"
        /\ UNCHANGED <<lspad_cmds, reply, stream, tdc, counter, dirs, rows_out, session, kind,
                       step, before, run_dir, sent, begun_ok, unclean, restarts, faults>>
    <2>1. buf = "last"
      BY DEF Lspad!TailQuiet
    <2> QED
      BY <2>1 DEF Lspad!TailQuiet, Lspad!lspad, Lspad!ghosts, Lspad!At
  <1>1. LspadTyped'
    <2>1. intensity_rows' \in Seq({"row", "last"})
      BY <1>0, <1>a DEF LspadTyped
    <2> QED
      BY <2>1, <1>0, <1>a DEF LspadTyped
  <1>2. InTurn'
    BY <1>0, <1>a DEF InTurn
  <1>3. OfItsKind'
    BY <1>0, <1>a DEF OfItsKind
  <1>4. CommandsLeft'
    BY <1>0, <1>a DEF CommandsLeft, StopAnd, OwnAsk
  <1>5. AnswersLeft'
    BY <1>0, <1>a DEF AnswersLeft, TdcTold
  <1>6. WillBeCalibrated'
    BY <1>0, <1>a DEF WillBeCalibrated
  <1>7. RunNumbers'
    BY <1>0, <1>a DEF RunNumbers
  <1>8. OwnFolder'
    BY <1>0, <1>a DEF OwnFolder
  <1>9. OwnRows'
    <2>1. intensity_rows \in Seq({"row", "last"})
      BY <1>0 DEF LspadTyped
    <2>2. Grown(intensity_rows', intensity_rows, "last")
      BY <2>1, <1>a, AppendLaw
    <2>3. Len(intensity_rows') = ROWS
      BY <2>2, <1>0, <1>a DEF Grown
    <2>4. \A i \in DOMAIN intensity_rows : intensity_rows[i] = IF i = ROWS THEN "last" ELSE "row"
      BY <1>0, <1>a DEF OwnRows
    <2>5. \A i \in DOMAIN intensity_rows' :
            intensity_rows'[i] = IF i = ROWS THEN "last" ELSE "row"
      BY <2>2, <2>3, <2>4 DEF Grown
    <2>6. Len(intensity_rows') <= ROWS /\ ~(Len(intensity_rows') < ROWS)
      BY <2>3, <1>0
    <2> QED
      BY <2>5, <2>6, <1>0, <1>a DEF OwnRows, Lspad!WholeReply
  <1> QED
    BY <1>1, <1>2, <1>3, <1>4, <1>5, <1>6, <1>7, <1>8, <1>9 DEF LspadInv

LEMMA RowsEndKeeps ==
    ASSUME LspadInv, Lspad!LspadSessionAssumption, Lspad!RowsEnd
    PROVE  LspadInv'
  <1>0. /\ LspadTyped /\ InTurn /\ OfItsKind /\ CommandsLeft /\ AnswersLeft
        /\ WillBeCalibrated /\ RunNumbers /\ OwnFolder /\ OwnRows
        /\ ROWS \in Nat \ {0} /\ {MaxSessions, MaxRestarts, MaxFaults} \subseteq Nat
    BY DEF LspadInv, Lspad!LspadSessionAssumption
  <1>a. /\ step = "rows" /\ step' = "idle" /\ ~(Len(intensity_rows) < ROWS) /\
             sent' = intensity_rows
        /\ UNCHANGED <<lspad_cmds, reply, stream, tdc, counter, dirs, rows_out, session, kind,
                       before, run_dir, intensity_rows, buf, begun_ok, unclean, restarts, faults>>
    BY DEF Lspad!RowsEnd, Lspad!MoreRows, Lspad!lspad, Lspad!ghosts, Lspad!Goto, Lspad!At
  <1>1. LspadTyped'
    BY <1>0, <1>a DEF LspadTyped
  <1>2. InTurn'
    BY <1>0, <1>a DEF InTurn
  <1>3. OfItsKind'
    BY <1>0, <1>a DEF OfItsKind
  <1>4. CommandsLeft'
    BY <1>0, <1>a DEF CommandsLeft, StopAnd, OwnAsk
  <1>5. AnswersLeft'
    BY <1>0, <1>a DEF AnswersLeft, TdcTold
  <1>6. WillBeCalibrated'
    BY <1>0, <1>a DEF WillBeCalibrated
  <1>7. RunNumbers'
    BY <1>0, <1>a DEF RunNumbers
  <1>8. OwnFolder'
    BY <1>0, <1>a DEF OwnFolder
  <1>9. OwnRows'
    <2>1. intensity_rows \in Seq({"row", "last"}) /\ Len(intensity_rows) \in Nat
      BY <1>0 DEF LspadTyped
    <2>2. Len(intensity_rows) = ROWS
      BY <2>1, <1>0, <1>a DEF OwnRows
    <2>3. DOMAIN intensity_rows = 1 .. ROWS /\ intensity_rows = [i \in DOMAIN intensity_rows |-> intensity_rows[i]]
      BY <2>1, <2>2
    <2>4. \A i \in DOMAIN intensity_rows : intensity_rows[i] = IF i = ROWS THEN "last" ELSE "row"
      BY <1>0, <1>a DEF OwnRows
    <2>5. intensity_rows = [i \in 1 .. ROWS |-> IF i = ROWS THEN "last" ELSE "row"]
      BY <2>3, <2>4
    <2> QED
      BY <2>5, <1>0, <1>a DEF OwnRows, Lspad!WholeReply
  <1> QED
    BY <1>1, <1>2, <1>3, <1>4, <1>5, <1>6, <1>7, <1>8, <1>9 DEF LspadInv

-----------------------------------------------------------------------------
LEMMA LspadStarts ==
    ASSUME Lspad!LspadSessionAssumption, Lspad!Init
    PROVE  LspadInv
  <1>0. ROWS \in Nat \ {0} /\ {MaxSessions, MaxRestarts, MaxFaults} \subseteq Nat
    BY DEF Lspad!LspadSessionAssumption
  <1>a. /\ lspad_cmds = <<>> /\ reply = <<>> /\ stream \in BOOLEAN /\ tdc \in BOOLEAN
        /\ counter = 0 /\ dirs = [r \in Lspad!Runs |-> 0] /\ rows_out = 0
        /\ session = 0 /\ kind = "T" /\ step = "idle" /\ before = {} /\ run_dir = -1
        /\ intensity_rows = <<>> /\ buf = "no" /\ sent = <<>>
        /\ begun_ok = TRUE /\ unclean = FALSE /\ restarts = 0 /\ faults = 0
    BY DEF Lspad!Init
  <1>1. LspadTyped
    <2>1. /\ lspad_cmds \in Seq(LspadCommands) /\ reply \in Seq(LspadReplies)
          /\ intensity_rows \in Seq({"row", "last"})
      BY <1>a
    <2>2. 0 \in 0 .. MaxSessions /\ 0 \in 0 .. MaxRestarts /\ 0 \in 0 .. MaxFaults
      BY <1>0
    <2>3. 0 \in 0 .. ROWS
      BY <1>0
    <2>4. dirs \in [Lspad!Runs -> 0 .. MaxSessions]
      BY <1>a, <2>2
    <2> QED
      BY <2>1, <2>2, <2>3, <2>4, <1>a DEF LspadTyped
  <1>2. InTurn /\ OfItsKind /\ CommandsLeft /\ AnswersLeft /\ WillBeCalibrated
    BY <1>a DEF InTurn, OfItsKind, CommandsLeft, AnswersLeft, WillBeCalibrated
  <1>3. RunNumbers /\ OwnFolder
    BY <1>a DEF RunNumbers, OwnFolder
  <1>4. OwnRows
    BY <1>0, <1>a DEF OwnRows, Lspad!WholeReply
  <1> QED
    BY <1>1, <1>2, <1>3, <1>4 DEF LspadInv

LEMMA LspadKeeps ==
    ASSUME LspadInv, Lspad!LspadSessionAssumption, Lspad!Next
    PROVE  LspadInv'
  <1>1. CASE Lspad!Lspad
    <2>1. CASE Lspad!LspadLastRow
      <3>1. \/ UNCHANGED lspad_cmds /\ Lspad!Reply("half") /\ rows_out' = ROWS
            \/ Lspad!Reply("last") /\ rows_out' = 0 /\ Lspad!Pop
        BY <2>1 DEF Lspad!LspadLastRow
      <3> QED
        BY <2>1, <3>1, LspadHalfRowKeeps, LspadRowEndsKeeps
    <2> QED
      BY <1>1, <2>1, LspadStopsKeeps, LspadAnswersKeeps, LspadBeginsKeeps, LspadRowKeeps,
         LspadRowEndsKeeps DEF Lspad!Lspad
  <1>2. CASE Lspad!Node
    BY <1>2, AfterStopKeeps, AfterDirKeeps, AfterTdcKeeps, AfterCalibrationKeeps, FindKeeps,
       RunEndsKeeps, ReadRowKeeps, TailQuietKeeps, RowsEndKeeps, SessionFailsKeeps DEF Lspad!Node
  <1>3. CASE \E k \in {"T", "I"} : Lspad!Begin(k)
    BY <1>3, BeginKeeps
  <1> QED
    BY <1>1, <1>2, <1>3, LspadStreamsKeeps, LspadRestartsKeeps, NodeRestartsKeeps DEF Lspad!Next

\* Nothing is lost while another machine of the node steps, or none.
LEMMA LspadWaits ==
    ASSUME LspadInv, UNCHANGED lspadvars
    PROVE  LspadInv'
  <1>a. UNCHANGED <<lspad_cmds, reply, stream, tdc, counter, dirs, rows_out, session, kind, step,
                    before, run_dir, intensity_rows, buf, sent, begun_ok, unclean, restarts,
                        faults>>
    BY DEF lspadvars
  <1>1. LspadTyped' /\ InTurn' /\ OfItsKind' /\ RunNumbers' /\ OwnFolder' /\ WillBeCalibrated'
    BY <1>a DEF LspadInv, LspadTyped, InTurn, OfItsKind, RunNumbers, OwnFolder, WillBeCalibrated
  <1>2. CommandsLeft' /\ AnswersLeft'
    BY <1>a DEF LspadInv, CommandsLeft, AnswersLeft, StopAnd, OwnAsk, TdcTold
  <1>3. OwnRows'
    BY <1>a DEF LspadInv, OwnRows, RowsSent, OwnAsk, Lspad!WholeReply
  <1> QED
    BY <1>1, <1>2, <1>3 DEF LspadInv

LEMMA LspadSound ==
    ASSUME LspadInv, Lspad!LspadSessionAssumption
    PROVE  MeasurementIsOwn
  <1>0. /\ LspadTyped /\ CommandsLeft /\ WillBeCalibrated /\ RunNumbers /\ OwnFolder /\ OwnRows
        /\ ROWS \in Nat /\ MaxSessions \in Nat
    BY DEF LspadInv, Lspad!LspadSessionAssumption
  <1>1. counter \in Lspad!Runs
    <2>1. counter \in Nat /\ session \in 0 .. MaxSessions /\ counter <= session
      BY <1>0 DEF LspadTyped, RunNumbers
    <2> QED
      BY <2>1, <1>0 DEF Lspad!Runs
  <1>2. Len(intensity_rows) \in 0 .. ROWS
    <2>1. intensity_rows \in Seq({"row", "last"}) /\ Len(intensity_rows) <= ROWS
      BY <1>0 DEF LspadTyped, OwnRows
    <2> QED
      BY <2>1, <1>0
  <1>3. Lspad!TypeOK
    BY <1>0, <1>1, <1>2 DEF LspadTyped, Lspad!TypeOK
  <1>4. Lspad!OwnRunDir
    BY <1>0 DEF OwnFolder, Lspad!OwnRunDir, Lspad!At
  <1>5. Lspad!BegunCalibrated /\ Lspad!WholeReply
    BY <1>0 DEF WillBeCalibrated, OwnRows, Lspad!BegunCalibrated
  <1>6. Lspad!NotWedged
    <2> SUFFICES ASSUME step = "find", ~unclean, NEW r \in before PROVE dirs[r] # session
      BY DEF Lspad!NotWedged, Lspad!At
    <2>1. r \in Lspad!Runs
      BY <1>0 DEF LspadTyped
    <2>2. CASE lspad_cmds = <<>>
      BY <2>2, <1>0 DEF OwnFolder
    <2>3. CASE lspad_cmds # <<>>
      <3>1. dirs[r] < session /\ session \in Nat /\ dirs[r] \in Nat
        BY <2>1, <2>3, <1>0, LspadNumbers DEF OwnFolder
      <3> QED
        BY <3>1
    <2> QED
      BY <2>2, <2>3
  <1> QED
    BY <1>3, <1>4, <1>5, <1>6 DEF MeasurementIsOwn

\* find_tmode_run_dir, clear_stale_tmode_run_dirs, open_lspad_tmode_stream and
\* run_intensity: whatever earlier sessions asked for, left behind or did not
\* wait for, a session reads the folder lSPAD writes for it, begins with a valid
\* calibration only, sends the whole measurement and no other answer, and never
\* waits for a folder whose name an earlier run left behind.
THEOREM MeasurementOwn == SumSpec => []MeasurementIsOwn
  <1>0. Lspad!LspadSessionAssumption
    BY NodeAssumption DEF NodeAssumption
  <1>1. SumInit => LspadInv
    BY <1>0, LspadStarts DEF SumInit
  <1>2. LspadInv /\ [SumNext]_sumvars => LspadInv'
    <2> SUFFICES ASSUME LspadInv, [SumNext]_sumvars PROVE LspadInv'
      OBVIOUS
    <2>1. Lspad!Next \/ UNCHANGED lspadvars
      BY DEF SumNext, sumvars, InSend, InFiles, InRows, InLspad, InControl, Steps
    <2> QED
      BY <1>0, <2>1, LspadKeeps, LspadWaits
  <1>3. LspadInv => MeasurementIsOwn
    BY <1>0, LspadSound
  <1> QED
    BY <1>1, <1>2, <1>3, PTL DEF SumSpec
-----------------------------------------------------------------------------
\* The node's command server and its panel are a run control of one node whose
\* data connections are accepted within their run.
Panel == INSTANCE RunControl_proofs WITH
    Nodes <- {1}, Flaky <- {1}, PromptAccept <- TRUE, link <- ctrl_link

\* _handle_controller against NodePanel, on a node as RunControl_proofs has it
\* for every set of nodes: whatever else the node's machines do, it never runs
\* two acquisitions, a panel that shows no session has none, and each data
\* connection is read by the loop of its kind.
THEOREM PanelIsSound == SumSpec => []RunControlSound
  <1>1. IsFiniteSet({1}) /\ MaxRuns \in Nat /\ MaxLinks \in Nat
    <2>1. MaxRuns \in Nat /\ MaxLinks \in Nat
      BY NodeAssumption DEF NodeAssumption, Control!RunControlAssumption
    <2> QED
      BY <2>1, FS_Singleton
  <1>2. Panel!RunControlAssumption
    BY <1>1 DEF Panel!RunControlAssumption, Panel!IsFiniteSet, IsFiniteSet
  <1>3. Panel!Spec => []Panel!RunControlSound
    BY <1>2, Panel!ControlIsSound
  <1>4. /\ SumInit => Panel!Init
        /\ [SumNext]_sumvars => [Panel!Next]_Panel!vars
        /\ Panel!RunControlSound => RunControlSound
    <2> USE DEF Control!panels, Control!node, Control!vars, Control!Kinds, Control!NoConn,
       Control!Ready, Control!Terminal, Control!Committed, Control!RefreshLock,
       Control!Settled, Control!Alive, Control!Closed, Control!ModeSet, Control!Stopped,
       Control!Gone, Control!SendAll, Control!Send, Control!Prefixes, Control!Disconnected,
       Control!Begin, Control!EndRunForgets, Control!Replace, Control!Commands,
       Control!Connections, Control!Acquisitions, Control!Cardinality, Control!IsFiniteSet,
       Panel!panels, Panel!node, Panel!vars, Panel!Kinds, Panel!NoConn, Panel!Ready,
       Panel!Terminal, Panel!Committed, Panel!RefreshLock, Panel!Settled, Panel!Alive,
       Panel!Closed, Panel!ModeSet, Panel!Stopped, Panel!Gone, Panel!SendAll, Panel!Send,
       Panel!Prefixes, Panel!Disconnected, Panel!Begin, Panel!EndRunForgets, Panel!Replace,
       Panel!Commands, Panel!Connections, Panel!Acquisitions, Panel!Cardinality,
       Panel!IsFiniteSet
    <2>1. SumInit => Panel!Init
      BY DEF SumInit, Control!Init, Panel!Init
    <2>2. UNCHANGED controlvars => UNCHANGED Panel!vars
      BY DEF controlvars
    <2>3. Control!UserStep => Panel!UserStep
      BY DEF Control!UserStep, Control!StartAll, Control!StartIntensity, Control!EndRun,
         Control!ToggleWrite, Control!HealthCheck, Panel!UserStep, Panel!StartAll,
         Panel!StartIntensity, Panel!EndRun, Panel!ToggleWrite, Panel!HealthCheck
    <2>4. Control!PanelStep(1) => Panel!PanelStep(1)
      BY DEF Control!PanelStep, Control!Connect, Control!Disconnect, Control!ReaderEnds,
         Control!PanelReads, Control!AcceptData, Control!SessionLoopEnds, Panel!PanelStep,
         Panel!Connect, Panel!Disconnect, Panel!ReaderEnds, Panel!PanelReads,
         Panel!AcceptData, Panel!SessionLoopEnds
    <2>5. Control!NodeStep(1) => Panel!NodeStep(1)
      BY DEF Control!NodeStep, Control!NodeReads, Control!HandlerEnds, Control!ConnectBack,
         Control!Finish, Control!ThreadEnds, Panel!NodeStep, Panel!NodeReads,
         Panel!HandlerEnds, Panel!ConnectBack, Panel!Finish, Panel!ThreadEnds
    <2>6. Control!LinkLost(1) => Panel!LinkLost(1)
      BY DEF Control!LinkLost, Panel!LinkLost
    <2>7. Control!Next => Panel!Next
      BY <2>3, <2>4, <2>5, <2>6 DEF Control!Next, Panel!Next
    <2>8. [SumNext]_sumvars => [Panel!Next]_Panel!vars
      <3> HIDE DEF Panel!vars
      <3> QED
        BY <2>2, <2>7 DEF SumNext, sumvars, InSend, InFiles, InRows, InLspad, InControl, Steps
    <2>9. Panel!RunControlSound => RunControlSound
      BY DEF RunControlSound, Panel!RunControlSound, Control!TypeOK, Control!OneAcquisition,
         Control!IdleIsTrue,
         Control!EachConnectionItsLoop, Panel!TypeOK, Panel!OneAcquisition,
         Panel!IdleIsTrue, Panel!EachConnectionItsLoop
    <2> QED
      BY <2>1, <2>8, <2>9
  <1> QED
    BY <1>3, <1>4, PTL DEF SumSpec, Panel!Spec
=============================================================================
