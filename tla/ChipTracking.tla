---------------------------- MODULE ChipTracking ----------------------------
(***************************************************************************)
(* The chip-offset trackers of the correlator window (correlate_multi.py): *)
(* which nodes are tracked is fixed when the window is enabled, the dwell  *)
(* markers come through queues of the window's own, a session start makes  *)
(* fresh trackers of what the queues hold of this session, a poll feeds    *)
(* them, and a tracker that matches nothing is told to the receiver once.  *)
(*                                                                         *)
(* A marker is <<session, number>>.  Its time stamp starts again in each   *)
(* session, and the first one of a session comes before the first one of   *)
(* the session before it.  A tracker is what it has been fed.              *)
(* (MarkerLevels has the tracker itself, CorrelatorWindow the batches.)    *)
(***************************************************************************)
EXTENDS Integers, Sequences, FiniteSets

CONSTANTS Nodes,
          Referenced,      \* the node-chips with a marker input: [node, chip]
          MaxSessions, MaxMarkers

TrackingAssumption ==
    /\ Referenced \subseteq Nodes \X {"master", "slave"}
    /\ MaxSessions \in Nat /\ MaxMarkers \in Nat

VARIABLES session, sent,     \* the receiver's session; the markers a node-chip has sent
          active, accumulating,
          corr,              \* nodes with a corrected pixel; {}: correction off
          queue,             \* _dwell_q
          tracker,
          due,               \* CHIP_NO_MATCH_S have passed since the start
          idle,              \* stream_idle of its graph: nothing arrives
          latched, told,     \* the prompt: latched; ledger: how often in this run
          run                \* ledger: the session the trackers were made for

Chips == Nodes \X {"master", "slave"}
ofWindow == <<active, accumulating, corr>>
vars == <<session, sent, ofWindow, queue, tracker, due, idle, latched, told, run>>

Stamp(a) == (MaxSessions + 1) * a[2] - a[1]
NoMarkers == [x \in Chips |-> <<>>]
Fresh == [x \in Chips |-> {}]
-----------------------------------------------------------------------------
\* Mutants of definitions below.
WholeQueue(q) == q
-----------------------------------------------------------------------------
\* _session_tail: from the last step back in time on.
SessionTail(q) ==
    LET back == {i \in 1 .. Len(q) - 1 : Stamp(q[i + 1]) < Stamp(q[i])}
    IN  IF back = {} THEN q
        ELSE SubSeq(q, 1 + CHOOSE i \in back : \A k \in back : k =< i, Len(q))

\* A master marker and the slave marker of the same moment.
Matched(n) ==
    \E a \in tracker[<<n, "master">>], b \in tracker[<<n, "slave">>] : a = b

\* hooks_node1, hooks_node2.
Hooked(n) == active /\ n \in corr
-----------------------------------------------------------------------------
Init ==
    /\ session = 0 /\ sent = [x \in Chips |-> 0]
    /\ active = FALSE /\ accumulating = FALSE /\ corr = {}
    /\ queue = NoMarkers /\ tracker = Fresh
    /\ due = FALSE /\ idle = FALSE /\ latched = FALSE /\ told = 0
    /\ run = 0

NewSession ==
    /\ session < MaxSessions
    /\ session' = session + 1
    /\ sent' = [x \in Chips |-> 0]
    /\ UNCHANGED <<ofWindow, queue, tracker, due, idle, latched, told, run>>

\* A marker reaches the receiver, and the window's queue if it is hooked.
Marker(x) ==
    /\ session > 0 /\ x \in Referenced /\ sent[x] < MaxMarkers
    /\ sent' = [sent EXCEPT ![x] = @ + 1]
    /\ queue' = IF Hooked(x[1]) THEN [queue EXCEPT ![x] = Append(@, <<session, sent[x] + 1>>)]
                ELSE queue
    /\ UNCHANGED <<session, ofWindow, tracker, due, idle, latched, told, run>>

\* _enable: a new graph; the correction is armed, or not.
Enable ==
    /\ active' = TRUE /\ accumulating' = FALSE /\ idle' = FALSE
    /\ corr' \in SUBSET Nodes
    /\ UNCHANGED <<session, sent, queue, tracker, due, latched, told, run>>

Disable ==
    /\ active' = FALSE /\ accumulating' = FALSE
    /\ UNCHANGED <<session, sent, corr, queue, tracker, due, idle, latched, told, run>>

Reset ==
    /\ accumulating' = FALSE
    /\ UNCHANGED <<session, sent, active, corr, queue, tracker, due, idle, latched, told, run>>

Elements(q) == {q[i] : i \in DOMAIN q}

\* The receiver has calibrated on markers of this session.  Assumed: the window
\* was enabled as it is before the session began, so that each marker input of
\* a corrected node has put the session's first marker in its queue.
Calibrated ==
    /\ session > 0
    /\ \A x \in Referenced : Hooked(x[1]) => <<session, 1>> \in Elements(queue[x])

\* `if not self._active ...: return`
MayStart == active

\* start_with_offset with _start_trackers.
StartWithOffset ==
    /\ MayStart /\ Calibrated /\ run # session
    /\ accumulating' = TRUE /\ run' = session
    /\ due' = FALSE /\ idle' = FALSE /\ latched' = FALSE /\ told' = 0
    /\ queue' = NoMarkers
    /\ tracker' = [x \in Chips |-> IF x[1] \in corr THEN Elements(SessionTail(queue[x])) ELSE {}]
    /\ UNCHANGED <<session, sent, active, corr>>

\* `if self._on_chip_stall is None (master.py:960 gives one) or
\* self._chip_stall_latched ... or self._graph.stream_idle: return`
AlreadyTold == latched
Due == due /\ ~idle

\* _tick: _feed_trackers, then _check_chip_stall; release() looks anew whether
\* anything arrives.
Tick ==
    /\ accumulating /\ corr # {}
    /\ tracker' = [x \in Chips |-> IF x[1] \in corr THEN tracker[x] \cup Elements(queue[x])
                                   ELSE tracker[x]]
    /\ queue' = [x \in Chips |-> IF x[1] \in corr THEN <<>> ELSE queue[x]]
    /\ IF Due /\ ~AlreadyTold /\ \E n \in corr : ~(Matched(n)')
       THEN latched' = TRUE /\ told' = told + 1
       ELSE UNCHANGED <<latched, told>>
    /\ idle' \in BOOLEAN
    /\ UNCHANGED <<session, sent, ofWindow, due, run>>

TimePasses ==
    /\ run > 0 /\ ~due
    /\ due' = TRUE
    /\ UNCHANGED <<session, sent, ofWindow, queue, tracker, idle, latched, told, run>>

Next ==
    \/ NewSession \/ \E x \in Chips : Marker(x)
    \/ Enable \/ Disable \/ Reset \/ StartWithOffset
    \/ Tick \/ TimePasses

\* The poll is a timer of the window, and time passes.
Spec == Init /\ [][Next]_vars /\ WF_vars(Tick) /\ WF_vars(TimePasses)
-----------------------------------------------------------------------------
TypeOK ==
    /\ session \in 0 .. MaxSessions /\ run \in 0 .. session
    /\ sent \in [Chips -> 0 .. MaxMarkers]
    /\ corr \subseteq Nodes /\ (accumulating => active)
    /\ \A x \in Chips : queue[x] # <<>> => x \in Referenced
    /\ latched = (told > 0)
    /\ \A x \in Chips : tracker[x] # {} => x \in Referenced

\* While the session runs for which they were made, the trackers know markers
\* of that session only: what a reset or a disabled window left in the queues
\* "would poison this run's level" (correlate_multi.py:953-959).
TrackersOfThisRun ==
    run = session => \A x \in Chips : \A a \in tracker[x] : a[1] = session

\* The receiver is asked once in a run (correlate_multi.py:993-1011).
AskedOnce == told =< 1

\* A corrected node that matches nothing is told to the receiver, unless the
\* run is stopped, its streams fall silent or a match comes after all.
Overdue == accumulating /\ due /\ \E n \in corr : ~Matched(n)
Told == told > 0 \/ ~accumulating \/ idle \/ \A n \in corr : Matched(n)
DeadTrackerTold == Overdue ~> Told
=============================================================================
