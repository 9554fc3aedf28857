--------------------------- MODULE ReceiverSession ---------------------------
(***************************************************************************)
(* The receiving end of a data connection: the accept thread of master.py, *)
(* run_session_loop and run_intensity_session of master_backend.py, and    *)
(* MarkerSelector of marker_source.py.  Every chunk is written to the file *)
(* of its key and put into the queues of the live consumers; of the marker *)
(* inputs (dwell, line, frame) one is handed to them as "dwell", while the *)
(* offline tools pick theirs from what the files hold in the end.  The     *)
(* connection may break at any byte, and a write or an open may fail.      *)
(***************************************************************************)
EXTENDS Integers, Sequences, Functions, FiniteSets

CONSTANTS Kinds,       \* MARKER_KINDS, by priority
          MaxConns,    \* bound: data connections
          MaxChunks,   \* bound: chunks in all
          MaxFaults    \* bound: broken connections, failed writes and opens

ReceiverAssumption ==
    /\ Kinds \in Seq(STRING) /\ Kinds # <<>> /\ IsInjective(Kinds)
    /\ {MaxConns, MaxChunks, MaxFaults} \subseteq Nat

Pixel == <<"px", "px">>
Markers == {"master", "slave"} \X Range(Kinds)
Keys == {Pixel} \cup Markers
Taps == {Pixel, <<"master", Kinds[1]>>, <<"slave", Kinds[1]>>}   \* keys with a hook queue

VARIABLES conn,        \* the data connection: its number, 0 before the first
          mode,        \* what was asked for: "timestamp" or "intensity"
          link,        \* "none", "open", "closed" by the node, "broken"
          wire,        \* the frames on their way
          sent,        \* the chunks of this session the node has sent
          node,        \* of the node: "off", "data" after KEY_SETUP, "ended" after KEY_END
          step,        \* of the accept thread
          write,       \* write_hooked of this connection
          seen, kind,  \* MarkerSelector
          fired,       \* dwell_seen
          queue,       \* [tap -> what its consumers were given]
          file,        \* [key -> the connection it was opened by, what it holds]
          table,       \* the intensity file: the connection it is of
          finished,    \* the last KEY_END of this connection is read
          chunks, faults,
          torn_open    \* ghost: opening the files failed half way

session == <<seen, kind, fired, finished>>
disk == <<file, table, torn_open>>
vars == <<conn, mode, link, wire, sent, node, step, write, session, queue, disk, chunks, faults>>

Fault == faults < MaxFaults /\ faults' = faults + 1
Frame(w) == [what |-> w]
Empty(c) == [of |-> c, data |-> <<>>]
Rank(k) == CHOOSE i \in DOMAIN Kinds : Kinds[i] = k
-----------------------------------------------------------------------------
\* A mutant of a definition below.
QueuesKept == queue

\* observe: the kind of the highest priority that has delivered data
Best(S) == CHOOSE k \in S : \A l \in S : Rank(k) <= Rank(l)

\* CANONICAL_KEY for the active kind, the key itself for the others
HookKey(key, k) == IF key # Pixel /\ key[2] = k THEN <<key[1], Kinds[1]>> ELSE key

\* Tee, never divert; with write_hooked off no key is written, and the files
\* are not opened.
Written(key) == write

\* The accept loop goes on, however a session loop ends.
Ends(why) == "accept"

\* The dwell queues are emptied at the accept; so is the graph's, at the start.
Dropped == [t \in Taps |-> <<>>]
-----------------------------------------------------------------------------
Init ==
    /\ conn = 0 /\ mode = "timestamp" /\ link = "none" /\ wire = <<>> /\ sent = <<>>
    /\ node = "off" /\ step = "accept" /\ write = TRUE
    /\ seen = {} /\ kind = "none" /\ fired = FALSE /\ finished = FALSE
    /\ queue = [t \in Taps |-> <<>>] /\ file = [k \in Keys |-> Empty(0)] /\ table = 0
    /\ torn_open = FALSE /\ chunks = 0 /\ faults = 0

\* The node (SendQueue has the inside): one session per connection.
Connect(m) ==
    /\ link = "none" /\ conn < MaxConns /\ conn' = conn + 1 /\ mode' = m
    /\ link' = "open" /\ wire' = <<Frame("SETUP")>> /\ sent' = <<>> /\ node' = "data"
    /\ finished' = FALSE
    /\ UNCHANGED <<step, write, seen, kind, fired, queue, disk, chunks, faults>>

Send(key) ==
    /\ link = "open" /\ node = "data" /\ mode = "timestamp" /\ chunks < MaxChunks
    /\ chunks' = chunks + 1
    /\ LET c == [what |-> "CHUNK", key |-> key, of |-> conn, id |-> chunks']
       IN  wire' = Append(wire, c) /\ sent' = Append(sent, c)
    /\ UNCHANGED <<conn, mode, link, node, step, write, session, queue, disk, faults>>

SendEnd ==
    /\ link = "open" /\ node = "data" /\ node' = "ended"
    /\ wire' = wire \o (IF mode = "intensity" THEN <<Frame("TABLE")>> ELSE <<>>)
                     \o <<Frame("END")>>
    /\ UNCHANGED <<conn, mode, link, sent, step, write, session, queue, disk, chunks, faults>>

Close ==
    /\ link = "open" /\ node = "ended" /\ link' = "closed"
    /\ UNCHANGED <<conn, mode, wire, sent, node, step, write, session, queue, disk, chunks, faults>>

\* The link breaks: what was on its way arrives up to some byte.
Break ==
    /\ link = "open" /\ Fault /\ link' = "broken"
    /\ \E n \in 0 .. Len(wire) : wire' = SubSeq(wire, 1, n)
    /\ UNCHANGED <<conn, mode, sent, node, step, write, session, queue, disk, chunks>>

\* _accept_data_thread: the queues, the hooks, the write choice.
Accept(w) ==
    /\ step = "accept" /\ link # "none" /\ step' = "setup" /\ write' = w
    /\ queue' = Dropped
    /\ UNCHANGED <<conn, mode, link, wire, sent, node, session, disk, chunks, faults>>

At(w) == wire # <<>> /\ Head(wire).what = w
Reads(w) == At(w) /\ wire' = Tail(wire)
Rest == UNCHANGED <<conn, mode, link, sent, node, write, chunks>>

\* KEY_SETUP: every file of a run is created, or none; a new selector.
Setup ==
    /\ step = "setup" /\ Reads("SETUP") /\ step' = mode
    /\ seen' = {} /\ kind' = "none" /\ fired' = FALSE
    /\ file' = IF write /\ mode = "timestamp" THEN [k \in Keys |-> Empty(conn)] ELSE file
    /\ UNCHANGED <<finished, queue, table, torn_open, faults>> /\ Rest

\* A chunk: the selector, the first slave marker, the file, the queues.
Chunk ==
    /\ step = "timestamp" /\ Reads("CHUNK")
    /\ LET c == Head(wire)
           hook == HookKey(c.key, kind')
       IN  /\ seen' = IF c.key = Pixel THEN seen ELSE seen \cup {c.key[2]}
           /\ kind' = IF seen' = {} THEN "none" ELSE Best(seen')
           /\ fired' = (fired \/ hook = <<"slave", Kinds[1]>>)
           /\ file' = IF Written(c.key) THEN [file EXCEPT ![c.key].data = Append(@, c)] ELSE file
           /\ queue' = IF hook \in Taps THEN [queue EXCEPT ![hook] = Append(@, c)] ELSE queue
    /\ UNCHANGED <<step, finished, table, torn_open, faults>> /\ Rest

End ==
    /\ step \in {"timestamp", "intensity"} /\ Reads("END") /\ finished' = TRUE
    /\ step' = IF step = "timestamp" THEN "setup" ELSE "over"
    /\ UNCHANGED <<seen, kind, fired, queue, disk, faults>> /\ Rest

\* run_intensity_session: one file, written when its one chunk is whole.
Table ==
    /\ step = "intensity" /\ Reads("TABLE") /\ table' = conn
    /\ UNCHANGED <<step, session, queue, file, torn_open, faults>> /\ Rest

\* The end of the loop, with its finally clauses: the files are closed, then
\* the connection, which breaks it for the node.
Over(why) == /\ step' = Ends(why) /\ link' = "none" /\ wire' = <<>> /\ node' = "off"
             /\ UNCHANGED <<conn, mode, sent, write, session, queue, table, chunks>>

Lost ==
    /\ step \in {"setup", "timestamp", "intensity"} /\ wire = <<>>
    /\ link \in {"closed", "broken"} /\ Over("lost")
    /\ UNCHANGED <<file, torn_open, faults>>

IntensityOver ==
    /\ step = "over" /\ Over("lost") /\ UNCHANGED <<file, torn_open, faults>>

\* A write fails: the disk is full.
WriteFails ==
    /\ step = "timestamp" /\ At("CHUNK") /\ Written(Head(wire).key) /\ Fault /\ Over("crashed")
    /\ UNCHANGED <<file, torn_open>>

\* An open fails: the files before it are empty, those after it are as before.
OpenFails ==
    /\ step = "setup" /\ At("SETUP") /\ mode = "timestamp" /\ write
    /\ Fault /\ Over("crashed") /\ torn_open' = TRUE
    /\ \E S \in SUBSET Keys : file' = [k \in Keys |-> IF k \in S THEN Empty(conn) ELSE file[k]]

NodeStep == (\E m \in {"timestamp", "intensity"} : Connect(m))
            \/ (\E key \in Keys : Send(key)) \/ SendEnd \/ Close
Loop == Setup \/ Chunk \/ End \/ Table \/ Lost \/ IntensityOver
Accepts == \E w \in BOOLEAN : Accept(w)

Next == NodeStep \/ Break \/ Accepts \/ Loop \/ WriteFails \/ OpenFails

Fairness == WF_vars(Accepts) /\ WF_vars(Loop)
Spec == Init /\ [][Next]_vars /\ Fairness
-----------------------------------------------------------------------------
Contents == Seq([what : {"CHUNK"}, key : Keys, of : 1 .. conn, id : 1 .. chunks])

TypeOK ==
    /\ conn \in 0 .. MaxConns /\ mode \in {"timestamp", "intensity"}
    /\ link \in {"none", "open", "closed", "broken"} /\ node \in {"off", "data", "ended"}
    /\ step \in {"accept", "setup", "timestamp", "intensity", "over"}
    /\ seen \subseteq Range(Kinds) /\ kind \in Range(Kinds) \cup {"none"}
    /\ {write, fired, finished, torn_open} \subseteq BOOLEAN /\ table \in 0 .. conn
    /\ \A t \in Taps : queue[t] \in Contents
    /\ \A k \in Keys : file[k].of \in 0 .. conn /\ file[k].data \in Contents
    /\ sent \in Contents /\ chunks \in 0 .. MaxChunks /\ faults \in 0 .. MaxFaults

\* run_session_loop: "a data directory either holds a whole run or was never
\* touched": its files are of one run, whichever connections wrote and which
\* did not, broken ones included.
OneRunInDirectory ==
    ~torn_open => \A j, k \in Keys :
        /\ file[j].of = file[k].of
        /\ \A i \in DOMAIN file[k].data : file[k].data[i].of = file[k].of

\* s is what was sent of a key, in the order it was sent in.
OfKey(s, key) == /\ Range(s) = {c \in Range(sent) : c.key = key}
                 /\ \A i, j \in DOMAIN s : i < j => s[i].id < s[j].id

\* A session whose end was read is whole: on disk, key by key and in order,
\* and in the queue of a pixel the correlator watches.
EndedComplete ==
    finished /\ mode = "timestamp" =>
        /\ write => \A k \in Keys : OfKey(file[k].data, k)
        /\ OfKey(queue[Pixel], Pixel)

\* pick_kind: the first kind with a file that is not empty, of either chip.
Offline == LET S == {k \in Range(Kinds) : \E chip \in {"master", "slave"} :
                                              file[<<chip, k>>].data # <<>>}
           IN  IF S = {} THEN "none" ELSE CHOOSE k \in S : \A l \in S : Rank(k) <= Rank(l)

\* MarkerSelector and pick_kind: the marker input the live calibration ends
\* up with is the one the offline analysis of the same run reads.
LiveIsOffline == finished /\ mode = "timestamp" /\ write => kind = Offline

\* marker_source.py:50: a kind that lost the priority contest is never mixed
\* into the active stream again; and a stream holds markers of one chip.
NeverMixedBack ==
    \A t \in Taps \ {Pixel} : \A i, j \in DOMAIN queue[t] :
        /\ queue[t][i].key[1] = t[1]
        /\ i < j => Rank(queue[t][i].key[2]) >= Rank(queue[t][j].key[2])

\* The consumers of a run are given nothing of an earlier connection, and
\* the first-dwell signal of a session means that there is a slave marker.
OwnMarkers ==
    step = "timestamp" \/ (finished /\ mode = "timestamp") =>
        /\ \A t \in Taps : \A i \in DOMAIN queue[t] : queue[t][i].of = conn
        /\ fired <=> queue[<<"slave", Kinds[1]>>] # <<>>

\* _accept_data_thread: "Never let the accept loop die": whatever ends a
\* session, the next connection is read.
Gone == link \in {"closed", "broken"}
Accepting == step = "accept"
AcceptsAgain == Gone ~> Accepting
=============================================================================
