--------------------------- MODULE PairCorrelation ---------------------------
(***************************************************************************)
(* What the retention engine of correlate_engine.py promises, with no      *)
(* buffers in it.  Every node-1 event is settled once; settling it counts  *)
(* every coincidence it has with EVERYTHING its partners have delivered,   *)
(* and happens only when no partner can deliver another one.  Only a pair  *)
(* with an excused channel (one the engine has reported as dead) may be    *)
(* short of coincidences.  ChannelGraph implements this with bounded       *)
(* buffers that it trims as it goes.                                       *)
(***************************************************************************)
EXTENDS Integers

CONSTANTS Px1,     \* node-1 pixels (channels_node1)
          Px2,     \* node-2 pixels (channels_node2)
          Pairs,   \* the pixel pairs that are correlated
          Tmax     \* half width of the coincidence window

Channels == Px1 \cup Px2

VARIABLES delivered,   \* [channel -> every timestamp accumulated this session]
          settled,     \* [node-1 pixel -> its events handed to the kernel]
          counted,     \* [pair -> the coincidences <<t1, t2>> in its histogram]
          excused      \* the channels reported dead this session

avars == <<delivered, settled, counted, excused>>

Near(t1, t2) == t1 =< t2 + Tmax /\ t2 =< t1 + Tmax

Coincidences(A, B) == {x \in A \X B : Near(x[1], x[2])}

Excused(p, E) == p[1] \in E \/ p[2] \in E

Fresh(p1) == settled'[p1] \ settled[p1]

\* Channel c has delivered something at or past t + Tmax.
Passed(c, t) == \E u \in delivered[c] : t + Tmax =< u

AInit ==
    /\ delivered = [c \in Channels |-> {}]
    /\ settled = [p \in Px1 |-> {}]
    /\ counted = [p \in Pairs |-> {}]
    /\ excused = {}

\* Channels deliver events, each newer than all it delivered before.
ADeliver ==
    /\ \A c \in Channels :
          /\ delivered[c] \subseteq delivered'[c]
          /\ \A t \in delivered'[c] \ delivered[c], u \in delivered[c] : u < t
    /\ UNCHANGED <<settled, counted, excused>>

\* Some delivered events are settled, and channels may be reported dead.
ASettle ==
    /\ excused \subseteq excused'
    /\ \A p \in Px1 : settled[p] \subseteq settled'[p] /\ settled'[p] \subseteq delivered[p]
    /\ \A p \in Pairs :
          LET all == Coincidences(Fresh(p[1]), delivered[p[2]])
          IN  IF Excused(p, excused')
              THEN /\ counted[p] \subseteq counted'[p]
                   /\ counted'[p] \subseteq counted[p] \cup all
              ELSE /\ counted'[p] = counted[p] \cup all
                   /\ \A t \in Fresh(p[1]) : Passed(p[2], t)
    /\ UNCHANGED delivered

\* A new session forgets the last one.
ARestart ==
    /\ delivered' = [c \in Channels |-> {}]
    /\ settled' = [p \in Px1 |-> {}]
    /\ counted' = [p \in Pairs |-> {}]
    /\ excused' = {}

ANext == ADeliver \/ ASettle \/ ARestart

ASpec == AInit /\ [][ANext]_avars
=============================================================================
