---------------------------- MODULE ChannelGraph ----------------------------
(***************************************************************************)
(* ChannelGraph of correlate_engine.py with its RAM buffers (spill_dir is  *)
(* None; ChannelSpill models the disk tail).  One Channel per (node,       *)
(* pixel): a hook queue filled by the data threads, the accumulated events *)
(* (`pending` and `arr` together), the watermark `last_ts`.  The UI poll   *)
(* calls drain_all() and then release(); release() decides which channels  *)
(* are dead or lagging, hands the node-1 events whose partners have all    *)
(* moved past them to the kernel, and trims the node-2 buffers.            *)
(*                                                                         *)
(* A buffer is the set of its timestamps: they are in corrected time,      *)
(* sorted, and distinct within a channel.                                  *)
(***************************************************************************)
EXTENDS StallDetection, FiniteSets

VARIABLES queue,              \* [channel -> chunks put by the hook, not drained]
          held,               \* [channel -> events in pending and arr]
          accumulating,
          batch,              \* Release.batches: [pair -> coincidences in it]
          delivered,          \* history: [channel -> all events accumulated]
          counted             \* history: [pair -> coincidences of earlier batches]

vars == <<last_ts, quiet, since_start, queue, held, accumulating,
          exclusion_history, batch, delivered, counted>>

Nowhere == [p \in Pairs |-> {}]
-----------------------------------------------------------------------------
\* Mutants of definitions below.
WouldReleaseStrict ==
    \E p1 \in Px1 : \E first \in held[p1] :
        /\ \A t \in held[p1] : first =< t
        /\ \A p2 \in LivePartners1(p1) : last_ts[p2] # None /\ first < last_ts[p2] - Tmax
RestUntrimmed(p1, cut) == held[p1]
StillNeedsNoWindow(p1, rest, t) ==
    IF rest # {} THEN \E u \in rest : u =< t ELSE last_ts[p1] # None => last_ts[p1] =< t
KeepForAll(p2, cut) ==
    {t \in held[p2] : \A p1 \in LivePartners2(p2) :
        \E u \in held[p1] \ cut[p1] : u - Tmax =< t}

\* _would_release: decided from the watermarks and the oldest event alone.
WouldRelease ==
    \E p1 \in Px1 : \E first \in held[p1] :
        /\ \A t \in held[p1] : first =< t
        /\ WithinLimit(p1, first)

\* The Chunk oldest events of a buffer.
Oldest(S) == {t \in S : Cardinality({u \in S : u < t}) < Chunk}

\* _cut_for with _cut_limit_for: the events of p1 that are handed over.
Cut(p1) ==
    IF LivePartners1(p1) = {}
    THEN Oldest(held[p1])
    ELSE {t \in held[p1] : WithinLimit(p1, t)}

\* c1.arr[cut:]: what a node-1 channel keeps.
Rest(p1, cut) == held[p1] \ cut[p1]

\* next_needed() - tmax <= t for the node-1 channel p1 whose buffer is `rest`;
\* a channel that never delivered anything needs everything.
StillNeeds(p1, rest, t) ==
    IF rest # {} THEN \E u \in rest : u - Tmax =< t
    ELSE last_ts[p1] # None => last_ts[p1] - Tmax =< t

\* _keep_for, evaluated after every node-1 buffer has been cut.
Keep(p2, cut) ==
    {t \in held[p2] : \E p1 \in LivePartners2(p2) : StillNeeds(p1, Rest(p1, cut), t)}
-----------------------------------------------------------------------------
GraphEmpty ==
    /\ queue = [c \in Channels |-> {}]
    /\ held = [c \in Channels |-> {}]
    /\ accumulating = FALSE
    /\ exclusion_history = {}
    /\ batch = Nowhere
    /\ delivered = [c \in Channels |-> {}]
    /\ counted = Nowhere

Init == StallInit /\ GraphEmpty

\* A data thread's hook puts the next event of pixel c on its queue.
Arrive(c) ==
    /\ \E t \in Photons[c] :
          /\ NextPhoton(c, queue[c] \cup delivered[c], t)
          /\ queue' = [queue EXCEPT ![c] = @ \cup {t}]
    /\ UNCHANGED <<last_ts, quiet, since_start, held, accumulating,
                   exclusion_history, batch, delivered, counted>>

\* The wall clock moves on.
Tick ==
    /\ StallTick
    /\ UNCHANGED <<queue, held, accumulating, exclusion_history, batch, delivered,
                   counted>>

\* drain_all(): queued chunks join the buffers, or are dropped while the
\* graph is not accumulating.
DrainAll ==
    LET new == [c \in Channels |-> IF accumulating THEN queue[c] ELSE {}]
    IN  /\ StallDrained(new)
        /\ queue' = [c \in Channels |-> {}]
        /\ held' = [c \in Channels |-> held[c] \cup new[c]]
        /\ delivered' = [c \in Channels |-> delivered[c] \cup new[c]]
        /\ UNCHANGED <<accumulating, exclusion_history, batch, counted>>

\* release(): one retention cycle.
Release ==
    LET cut == [p1 \in Px1 |-> IF WouldRelease THEN Cut(p1) ELSE {}]
        out == \E p1 \in Px1 : cut[p1] # {}
    IN  /\ exclusion_history' = exclusion_history \cup DeadNow
        /\ held' = [c \in Channels |->
               IF c \in Px1 THEN Rest(c, cut)
               ELSE IF out THEN Keep(c, cut) ELSE held[c]]
        /\ batch' = [p \in Pairs |-> Coincidences(cut[p[1]], held[p[2]])]
        /\ counted' = [p \in Pairs |-> counted[p] \cup batch[p]]
        /\ UNCHANGED <<last_ts, quiet, since_start, queue, accumulating, delivered>>

\* start(): every channel is reset, its queue emptied, and a session begins.
Start ==
    /\ StallReset
    /\ queue' = [c \in Channels |-> {}]
    /\ held' = [c \in Channels |-> {}]
    /\ accumulating' = TRUE
    /\ exclusion_history' = {}
    /\ batch' = Nowhere
    /\ delivered' = [c \in Channels |-> {}]
    /\ counted' = Nowhere

\* stop(): later chunks are dropped, the buffers stay as they are.
Stop ==
    /\ accumulating' = FALSE
    /\ UNCHANGED <<last_ts, quiet, since_start, queue, held, exclusion_history,
                   batch, delivered, counted>>

Next ==
    \/ \E c \in Channels : Arrive(c)
    \/ Tick \/ DrainAll \/ Release \/ Start \/ Stop

Spec == Init /\ [][Next]_vars
-----------------------------------------------------------------------------
TypeOK ==
    /\ last_ts \in [Channels -> Nat \cup {None}]
    /\ quiet \in [Channels -> 0 .. AgeCap]
    /\ since_start \in 0 .. AgeCap \cup {None}
    /\ queue \in [Channels -> SUBSET Nat]
    /\ held \in [Channels -> SUBSET Nat]
    /\ accumulating \in BOOLEAN /\ (accumulating => since_start # None)
    /\ exclusion_history \subseteq Channels
    /\ batch \in [Pairs -> SUBSET (Nat \X Nat)]
    /\ delivered \in [Channels -> SUBSET Nat]
    /\ counted \in [Pairs -> SUBSET (Nat \X Nat)]

settled == [p1 \in Px1 |-> delivered[p1] \ held[p1]]
allCounted == [p \in Pairs |-> counted[p] \cup batch[p]]

\* No coincidence is handed to the kernel by two releases: a node-1 event
\* leaves its buffer with the batch that carries it.
CountedOnce == \A p \in Pairs : batch[p] \cap counted[p] = {}

\* A coincidence of a released node-1 event is in a histogram, however late
\* its partner came, unless one of the two channels was reported dead.
NothingLostSilently ==
    \A p \in Pairs : p[1] \notin exclusion_history /\ p[2] \notin exclusion_history =>
        Coincidences(settled[p[1]], delivered[p[2]]) \subseteq allCounted[p]

\* What the buffers may forget, for the pairs never reported dead: a node-1
\* event leaves only once its partner has delivered past its window, a node-2
\* event only once every node-1 event still held, and every one to come, is
\* newer than its window.
SafeToForget ==
    \A p \in Pairs : p[1] \notin exclusion_history /\ p[2] \notin exclusion_history =>
        /\ \A t \in delivered[p[1]] \ held[p[1]] :
              last_ts[p[2]] # None /\ t + Tmax =< last_ts[p[2]]
        /\ \A t \in delivered[p[2]] \ held[p[2]] :
              /\ last_ts[p[1]] # None /\ t + Tmax < last_ts[p[1]]
              /\ \A u \in held[p[1]] : t + Tmax < u

\* The merge-free decision of _would_release agrees with the cuts.
WouldReleaseExact == WouldRelease <=> \E p1 \in Px1 : Cut(p1) # {}

\* The trimmed buffers compute what an engine that kept everything would.
Abstract == INSTANCE PairCorrelation WITH
                settled <- settled, counted <- allCounted, excused <- exclusion_history
Implements == Abstract!ASpec
=============================================================================
