------------------------------- MODULE SendQueue -------------------------------
(***************************************************************************)
(* The way out of a node: run() of node_backend.py appends parsed events   *)
(* to one buffer per key, flush() turns the buffers into one blob for the  *)
(* bounded queue `sq`, and the sender thread writes the blobs to the       *)
(* receiver's socket.  Teardown flushes, joins the queue, stops the sender *)
(* and sends KEY_END.  Events are numbered 1, 2, ... within a key.         *)
(***************************************************************************)
EXTENDS Integers, SequencesExt

CONSTANTS Pixels, Markers,    \* the keys of bufs: pixel locations, dwell/line/frame
          QueueMax,           \* QUEUE_MAXSIZE
          MaxEvents           \* bound: events parsed per key

Keys == Pixels \cup Markers
ASSUME SendQueueAssumption ==
    /\ Pixels \cap Markers = {}
    /\ QueueMax \in Nat \ {0} /\ MaxEvents \in Nat

VARIABLES pc,           \* where run() is
          blocked,      \* the blob of a sq.put() that waits for a slot
          resume,       \* where run() goes on after its flush
          stop_event,
          parsed,       \* history: [key -> events appended to bufs so far]
          bufs,         \* [key -> events not flushed]
          sq,           \* the queue: blobs, the last one may be the None of teardown
          unfinished,   \* sq.unfinished_tasks
          sender,       \* "get", "send", "died" or "exited"
          sending,      \* the blob the sender holds
          link,         \* the socket to the receiver: "up" or "down"
          wire,         \* [key -> events written to the socket]
          key_end       \* KEY_END was written to the socket

main == <<pc, blocked, resume, stop_event, parsed, bufs>>
vars == <<pc, blocked, resume, stop_event, parsed, bufs, sq, unfinished, sender,
          sending, link, wire, key_end>>

Empty == [k \in Keys |-> <<>>]
EndBlob == Empty              \* sq.put(None): flush() never queues an empty blob
-----------------------------------------------------------------------------
\* Mutants of definitions below.
FlushedKeepsBufs(keys) == bufs' = bufs
JoinSkipped == TRUE

\* sq.put(blob), for a put_nowait that fails as well: run() waits in "put".
Put(blob) ==
    IF Len(sq) < QueueMax
    THEN /\ sq' = Append(sq, blob) /\ unfinished' = unfinished + 1
         /\ pc' = resume' /\ UNCHANGED blocked
    ELSE /\ blocked' = blob /\ pc' = "put" /\ UNCHANGED <<sq, unfinished>>

\* The flushed buffers are reset.
Flushed(keys) == bufs' = [k \in Keys |-> IF k \in keys THEN <<>> ELSE bufs[k]]

\* flush(keys), after which run() is at `next`: one blob, or none at all.
Flush(keys, next) ==
    LET blob == [k \in Keys |-> IF k \in keys THEN bufs[k] ELSE <<>>]
    IN  /\ resume' = next
        /\ Flushed(keys)
        /\ IF blob = Empty
           THEN pc' = next /\ UNCHANGED <<blocked, sq, unfinished>>
           ELSE Put(blob)

\* The sender's finally clause.
TaskDone == unfinished' = unfinished - 1

\* sq.get()
Taken == sending' = Head(sq) /\ sq' = Tail(sq)

\* sq.join() returns.
Joined == unfinished = 0
-----------------------------------------------------------------------------
Init ==
    /\ pc = "loop" /\ resume = "loop" /\ blocked = Empty
    /\ stop_event = FALSE
    /\ parsed = [k \in Keys |-> 0] /\ bufs = Empty
    /\ sq = <<>> /\ unfinished = 0
    /\ sender = "get" /\ sending = Empty
    /\ link = "up" /\ wire = Empty /\ key_end = FALSE

\* The loop appends the next event of a key; a marker leaves with the next flush.
Parse(k) ==
    /\ pc \in {"loop", "marked"} /\ parsed[k] < MaxEvents
    /\ parsed' = [parsed EXCEPT ![k] = @ + 1]
    /\ bufs' = [bufs EXCEPT ![k] = Append(@, parsed[k] + 1)]
    /\ pc' = IF k \in Markers THEN "marked" ELSE pc
    /\ UNCHANGED <<blocked, resume, stop_event, sq, unfinished, sender, sending,
                   link, wire, key_end>>

\* flush(MARKER_BUF_KEYS) after a round that met a dwell marker.
FlushMarkers ==
    /\ pc = "marked"
    /\ Flush(Markers, "loop")
    /\ UNCHANGED <<stop_event, parsed, sender, sending, link, wire, key_end>>

\* flush() on the size or the time bound.
FlushAll ==
    /\ pc = "loop"
    /\ Flush(Keys, "loop")
    /\ UNCHANGED <<stop_event, parsed, sender, sending, link, wire, key_end>>

\* A sq.put() that was waiting gets its slot.
PutGetsSlot ==
    /\ pc = "put" /\ Len(sq) < QueueMax
    /\ sq' = Append(sq, blocked) /\ unfinished' = unfinished + 1
    /\ blocked' = Empty /\ pc' = resume
    /\ UNCHANGED <<resume, stop_event, parsed, bufs, sender, sending, link, wire, key_end>>

Stop ==
    /\ ~stop_event /\ stop_event' = TRUE
    /\ UNCHANGED <<pc, blocked, resume, parsed, bufs, sq, unfinished, sender, sending,
                   link, wire, key_end>>

\* The loop is left, by stop_event or by an exception: finally: flush().
LeaveLoop ==
    /\ pc \in {"loop", "marked"}
    /\ Flush(Keys, "join")
    /\ UNCHANGED <<stop_event, parsed, sender, sending, link, wire, key_end>>

\* sq.join() returns; sq.put(None).
JoinQueue ==
    /\ pc = "join" /\ Joined
    /\ resume' = "join_thread" /\ Put(EndBlob)
    /\ UNCHANGED <<stop_event, parsed, bufs, sender, sending, link, wire, key_end>>

\* sender_thread.join(timeout=10) returns, the sender gone or not, and
\* KEY_END is written; on a dead socket it raises and the session ends anyway.
SendKeyEnd ==
    /\ pc = "join_thread"
    /\ pc' = "done" /\ key_end' = (link = "up")
    /\ UNCHANGED <<blocked, resume, stop_event, parsed, bufs, sq, unfinished, sender,
                   sending, link, wire>>

\* The sender: blob = sq.get()
Get ==
    /\ sender = "get" /\ sq # <<>>
    /\ Taken
    /\ sender' = "send"
    /\ UNCHANGED <<pc, blocked, resume, stop_event, parsed, bufs, unfinished, link,
                   wire, key_end>>

\* sock.sendall(blob), or the break on None, then task_done().
Send ==
    /\ sender = "send" /\ (link = "up" \/ sending = EndBlob)
    /\ TaskDone
    /\ wire' = [k \in Keys |-> wire[k] \o sending[k]]
    /\ sender' = IF sending = EndBlob THEN "exited" ELSE "get"
    /\ sending' = Empty
    /\ UNCHANGED <<main, sq, link, key_end>>

\* sendall raises: the thread logs, marks the blob done and returns.
SendFails ==
    /\ sender = "send" /\ link = "down" /\ sending # EndBlob
    /\ TaskDone
    /\ sender' = "died" /\ sending' = Empty
    /\ UNCHANGED <<main, sq, link, wire, key_end>>

\* The receiver's machine or the network goes away.
LinkDown ==
    /\ link = "up" /\ link' = "down"
    /\ UNCHANGED <<main, sq, unfinished, sender, sending, wire, key_end>>

Ended == pc = "done" /\ UNCHANGED vars

Teardown == PutGetsSlot \/ FlushMarkers \/ JoinQueue \/ SendKeyEnd
SenderStep == Get \/ Send \/ SendFails

Next ==
    \/ \E k \in Keys : Parse(k)
    \/ FlushAll \/ LeaveLoop \/ Stop \/ LinkDown \/ Ended
    \/ Teardown \/ SenderStep

Spec == Init /\ [][Next]_vars
StopSeen == stop_event /\ LeaveLoop
FairSpec == Spec /\ WF_vars(Teardown) /\ WF_vars(StopSeen) /\ WF_vars(SenderStep)
-----------------------------------------------------------------------------
TypeOK ==
    /\ pc \in {"loop", "marked", "put", "join", "join_thread", "done"}
    /\ resume \in {"loop", "join", "join_thread"}
    /\ stop_event \in BOOLEAN /\ key_end \in BOOLEAN
    /\ parsed \in [Keys -> 0 .. MaxEvents]
    /\ blocked \in [Keys -> Seq(1 .. MaxEvents)] /\ bufs \in [Keys -> Seq(1 .. MaxEvents)]
    /\ sq \in Seq([Keys -> Seq(1 .. MaxEvents)]) /\ Len(sq) =< QueueMax
    /\ unfinished \in 0 .. QueueMax + 1
    /\ sender \in {"get", "send", "died", "exited"}
    /\ sending \in [Keys -> Seq(1 .. MaxEvents)]
    /\ link \in {"up", "down"} /\ wire \in [Keys -> Seq(1 .. MaxEvents)]

Pending(k) ==
    sending[k] \o FlattenSeq([i \in 1 .. Len(sq) |-> sq[i][k]]) \o blocked[k] \o bufs[k]

\* run() and sender_fn (node_backend.py:810-935, 1188-1257): whatever the two
\* flush paths and the full queue do, while the sender lives every event parsed is
\* on the wire or on its way there, once, and in the order of its key.
StreamInOrder ==
    sender # "died" => \A k \in Keys : wire[k] \o Pending(k) = [i \in 1 .. parsed[k] |-> i]
StreamSound == TypeOK /\ StreamInOrder

\* A session the receiver sees ended (KEY_END) lost nothing, the queue full and
\* the sender slow or not (node_backend.py:1215-1257).
KeyEndAfterEverything ==
    key_end => \A k \in Keys : wire[k] = [i \in 1 .. parsed[k] |-> i]

\* A stop ends the session as long as the receiver is there, also when the
\* queue is full and run() waits for the sender.
Stopped == stop_event
SessionOver == pc = "done" \/ link = "down"
StopEnds == Stopped ~> SessionOver

\* "Always mark done, even on failure -- an uncalled task_done() made the
\* sq.join() in teardown hang forever": a session whose loop was left ends.
TeardownNeverHangs == pc = "join" ~> pc = "done"
=============================================================================
