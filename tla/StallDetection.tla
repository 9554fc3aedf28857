--------------------------- MODULE StallDetection ---------------------------
(***************************************************************************)
(* Which channels a release still waits for: _refresh_exclusions of        *)
(* correlate_engine.py.  A channel that has been silent for stall_grace_s  *)
(* of wall clock is dead; one that still delivers but is far behind the    *)
(* newest event is lagging; once the whole array is quiet nobody is        *)
(* condemned.  Wall-clock ages saturate just above the thresholds they are *)
(* compared with.                                                          *)
(***************************************************************************)
EXTENDS Integers

CONSTANTS Px1, Px2,    \* the pixels of channels_node1 and channels_node2
          Pairs,       \* the pixel pairs, a subset of Px1 \X Px2
          Photons,     \* [channel -> the timestamps its pixel records]
          Tmax,        \* tmax_ret: coincidence window plus retention margin
          Grace,       \* stall_grace_s
          IdleAfter,   \* idle_after_s
          Tolerance,   \* stall_tolerance_ps
          Chunk        \* spill_tail_bytes // 8, in events

Channels == Px1 \cup Px2
None == -1

ASSUME GraphAssumption ==
    /\ Px1 \cap Px2 = {}
    /\ Pairs \subseteq Px1 \X Px2
    /\ Photons \in [Channels -> SUBSET Nat]
    /\ Tmax \in Nat /\ Grace \in Nat /\ IdleAfter \in Nat
    /\ Tolerance \in Nat /\ Chunk \in Nat \ {0}

VARIABLES last_ts,            \* [channel -> newest event ever drained, or None]
          quiet,              \* [channel -> now - last_arrival]
          since_start,        \* now - _t_start, None before the first start()
          exclusion_history   \* the channels excluded this session

AgeCap == IF Grace > IdleAfter THEN Grace + 1 ELSE IdleAfter + 1

Near(t1, t2) == t1 =< t2 + Tmax /\ t2 =< t1 + Tmax
Coincidences(A, B) == {x \in A \X B : Near(x[1], x[2])}
partners1(p1) == {p2 \in Px2 : <<p1, p2>> \in Pairs}
partners2(p2) == {p1 \in Px1 : <<p1, p2>> \in Pairs}

Arrived == {c \in Channels : last_ts[c] # None}
stream_idle == Arrived # {} /\ \A c \in Arrived : quiet[c] > IdleAfter

IsDead(c) ==
    /\ ~stream_idle
    /\ IF last_ts[c] = None THEN since_start > Grace ELSE quiet[c] > Grace

IsLagging(c) ==
    /\ ~stream_idle /\ ~IsDead(c) /\ c \in Arrived
    /\ \E d \in Arrived : last_ts[d] - last_ts[c] > Tolerance

DeadNow == {c \in Channels : IsDead(c)}
LaggingNow == {c \in Channels : IsLagging(c)}
LivePartners1(p1) == partners1(p1) \ DeadNow
LivePartners2(p2) == partners2(p2) \ DeadNow

\* Mutants of definitions below.
WithinLimitNoWindow(p1, t) ==
    \A p2 \in LivePartners1(p1) : last_ts[p2] # None /\ t =< last_ts[p2]
StallResetNoStart ==
    /\ last_ts' = [c \in Channels |-> None]
    /\ quiet' = [c \in Channels |-> 0]
    /\ UNCHANGED since_start

\* t is at or before _cut_limit_for(p1) while some partner is alive: every
\* live partner has delivered, and past t + tmax.
WithinLimit(p1, t) ==
    \A p2 \in LivePartners1(p1) : last_ts[p2] # None /\ t =< last_ts[p2] - Tmax

StallInit ==
    /\ last_ts = [c \in Channels |-> None]
    /\ quiet = [c \in Channels |-> 0]
    /\ since_start = None

StallReset ==
    /\ last_ts' = [c \in Channels |-> None]
    /\ quiet' = [c \in Channels |-> 0]
    /\ since_start' = 0

\* Channels c with new[c] # {} have delivered: their watermark and age.
StallDrained(new) ==
    /\ quiet' = [c \in Channels |-> IF new[c] # {} THEN 0 ELSE quiet[c]]
    /\ last_ts' = [c \in Channels |->
           IF new[c] # {} THEN CHOOSE t \in new[c] : \A u \in new[c] : u =< t
           ELSE last_ts[c]]
    /\ UNCHANGED since_start

\* The wall clock moves on.
StallTick ==
    /\ since_start' = IF since_start \in {None, AgeCap} THEN since_start ELSE since_start + 1
    /\ quiet' = [c \in Channels |-> IF c \notin Arrived \/ quiet[c] = AgeCap
                                    THEN quiet[c] ELSE quiet[c] + 1]
    /\ UNCHANGED last_ts

\* t is the event pixel c delivers next when `sent` are its events so far.
NextPhoton(c, sent, t) ==
    /\ t \in Photons[c]
    /\ \A u \in sent : u < t
    /\ sent # {} => \A u \in Photons[c] : u < t => \E v \in sent : u =< v
=============================================================================
