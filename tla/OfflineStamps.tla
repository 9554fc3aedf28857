---------------------------- MODULE OfflineStamps ----------------------------
(***************************************************************************)
(* The offline correlation of one pixel of a recorded round                *)
(* (tools/sweep/offline.py): the cross-node offset from the markers, the   *)
(* stray events dropped from the raw files, and the histograms, one        *)
(* segment and one block of node-1 events after the other, raw and with    *)
(* the displacements of the master chips taken out.                        *)
(*                                                                         *)
(* A file is a sequence of integers; indices start at 1, and the places    *)
(* a .. b of the code are the indices a + 1 .. b.                          *)
(***************************************************************************)
EXTENDS PairKernel
LOCAL INSTANCE SequencesExt
LOCAL INSTANCE FiniteSetsExt
LOCAL INSTANCE TLC

CONSTANTS Rounds,          \* the recorded rounds tried
          Block,           \* node-1 events per block
          Margin,          \* 1_000_000: added to tmax and to the pad of a jump
          MaxRun,          \* longest run of strays
          NSeed, MinMarkers, ClusterTol, AcceptTol, CoreTol

OfflineAssumption ==
    /\ {Block, Margin, MaxRun, NSeed, MinMarkers, ClusterTol, AcceptTol, CoreTol}
      \subseteq Nat \ {0}
    /\ BinWidth < Margin

VARIABLES round,     \* the files, the markers and the chip states of a round
          offset,    \* of node 2, in ps
          drops1, drops2,
          segment,   \* the segment in work, 1 .. ; 0: not yet
          at,        \* its node-1 events done
          raw, cor,  \* segment -> histogram
          state      \* recorded, correlating, done, or raised

vars == <<round, offset, drops1, drops2, segment, at, raw, cor, state>>
-----------------------------------------------------------------------------
Abs(x) == IF x < 0 THEN -x ELSE x
Sorted(q) == SortSeq(q, LAMBDA x, y : x < y)
Ordered(S) == [i \in 1 .. Cardinality(S) |->
                  CHOOSE x \in S : Cardinality({y \in S : y < x}) = i - 1]
Rising(q) == \A i \in 1 .. Len(q) - 1 : q[i] =< q[i + 1]
Plus(q, c) == [i \in DOMAIN q |-> q[i] + c]

\* np.searchsorted: the binary search, on whatever it is given.
Place(arr, x) ==
    LET place[lo \in 0 .. Len(arr), hi \in 0 .. Len(arr)] ==
            LET mid == (lo + hi) \div 2
            IN  IF lo >= hi THEN lo
                ELSE IF arr[mid + 1] < x THEN place[mid + 1, hi] ELSE place[lo, mid]
    IN  place[0, Len(arr)]

\* Twice the median; and the integer nearest to half of x, a tie to the even one.
Median2(ds) == LET q == Sorted(ds)
               IN  q[(Len(q) + 1) \div 2] + q[Len(q) \div 2 + 1]
Half(x) == IF x % 4 = 3 THEN (x + 1) \div 2 ELSE x \div 2
-----------------------------------------------------------------------------
\* A mutant of a definition below.
MarginOnly(st1, st2) == Margin
-----------------------------------------------------------------------------
(* The cross-node offset. *)

\* The mean, doubled, of the densest cluster no wider than 2 * ClusterTol.
EstimateOffset(a, b) ==
    LET n == Len(a)
        v == Sorted([k \in 1 .. n * Len(b) |-> b[(k - 1) \div n + 1] - a[((k - 1) % n) + 1]])
        Cluster(i) == {k \in i .. Len(v) : v[k] =< v[i] + 2 * ClusterTol}
        best == CHOOSE i \in DOMAIN v : \A k \in DOMAIN v :
                   \/ Cardinality(Cluster(i)) > Cardinality(Cluster(k))
                   \/ Cardinality(Cluster(i)) = Cardinality(Cluster(k)) /\ i =< k
    IN  (2 * MapThenSumSet(LAMBDA k : v[k], Cluster(best))) \div Cardinality(Cluster(best))

\* nearest_residuals, the ones within AcceptTol; the offset is doubled.
Residuals(a, b, off) ==
    LET Nearest(x) == CHOOSE y \in {b[k] : k \in DOMAIN b} : \A k \in DOMAIN b :
                         \/ Abs(y - x) < Abs(b[k] - x)
                         \/ Abs(y - x) = Abs(b[k] - x) /\ y >= b[k]
        r == [i \in DOMAIN a |-> Nearest(a[i] + Half(off)) - (a[i] + Half(off))]
    IN  SelectSeq(r, LAMBDA x : Abs(x) < AcceptTol)

Core(r) == SelectSeq(r, LAMBDA x : Abs(2 * x - Median2(r)) < 2 * CoreTol)

RobustOffset(a, b) ==
    LET n == Min({Len(a), Len(b), NSeed})
        fit[k \in 0 .. 3] ==
            IF k = 0 THEN EstimateOffset(SubSeq(a, 1, n), SubSeq(b, 1, n))
            ELSE LET off == fit[k - 1]
                     r == Residuals(a, b, off)
                 IN  IF Len(r) < MinMarkers \/ Len(Core(r)) < MinMarkers THEN off
                     ELSE off + Median2(Core(r))
    IN  Half(fit[3])
-----------------------------------------------------------------------------
(* Stray events. *)

\* A late run of strays ends at i, or an early one starts at i + 1: the
\* shorter one goes.
LateIsShorter(late, early) == late # {} /\ (early = {} \/ Min(late) =< Min(early))

\* glitch_drops: the indices dropped, and whether it raises.
GlitchDrops(mm) ==
    LET Late(i, prev) ==
            {n \in 1 .. MaxRun : i - n >= 1 /\ i - n > prev /\ mm[i - n] =< mm[i + 1]}
        Early(i) ==
            {n \in 1 .. MaxRun : i + n + 1 =< Len(mm) /\ mm[i + n + 1] >= mm[i]}
        after[i \in 0 .. Len(mm)] ==
            IF i = 0 THEN [drops |-> {}, skip |-> 0, prev |-> 0, raised |-> FALSE]
            ELSE LET g == after[i - 1]
                     late == Late(i, g.prev)
                     early == Early(i)
                 IN  IF i = Len(mm) \/ g.raised \/ i =< g.skip THEN g
                     ELSE IF mm[i] =< mm[i + 1] THEN g
                     ELSE IF late = {} /\ early = {} THEN [g EXCEPT !.raised = TRUE]
                     ELSE IF LateIsShorter(late, early)
                     THEN [g EXCEPT !.drops = @ \cup (i - Min(late) + 1) .. i, !.prev = i]
                     ELSE [g EXCEPT !.drops = @ \cup (i + 1) .. (i + Min(early)),
                                    !.skip = i + Min(early), !.prev = i + Min(early)]
    IN  after[Len(mm)]

\* take: the events a + 1 .. b without the strays.
Take(mm, a, b, drops) ==
    LET kept == SelectSeq([k \in 1 .. b - a |-> a + k], LAMBDA i : i \notin drops)
    IN  [k \in DOMAIN kept |-> mm[kept[k]]]
Kept(mm, drops) == Take(mm, 0, Len(mm), drops)
-----------------------------------------------------------------------------
(* The master chips. *)

Moved(st) == st.base # 0 \/ st.jumps # <<>>
Shifted == round.master /\ (Moved(round.st1) \/ Moved(round.st2))
Sizes(st) == {Abs(st.base)} \cup {Abs(st.jumps[k].d) : k \in DOMAIN st.jumps}

Pad(d) == 2 * Abs(d) + Margin

\* apply_chip_shift: only the neighbourhood of a jump is sorted again.
ChipShift(arr, st) ==
    LET Resorted(q, lo, hi) == SubSeq(q, 1, lo) \o Sorted(SubSeq(q, lo + 1, hi))
                                 \o SubSeq(q, hi + 1, Len(q))
        out[j \in 0 .. Len(st.jumps)] ==
            IF j = 0 THEN Plus(arr, -st.base)
            ELSE LET t == st.jumps[j].t
                     d == st.jumps[j].d
                     k == Place(arr, t)
                     cut == [i \in DOMAIN arr |-> out[j - 1][i] - (IF i > k THEN d ELSE 0)]
                 IN  Resorted(cut, Place(arr, t - Pad(d)), Place(arr, t + Pad(d)))
    IN  out[Len(st.jumps)]

\* Where the state of a chip changes, or is known no more, on node 1's clock.
SegmentEdges ==
    LET j1 == round.st1.jumps
        j2 == round.st2.jumps
        end == Min({round.st1.end, round.st2.end - offset})
    IN  Ordered({j1[k].t : k \in DOMAIN j1}
                 \cup {j2[k].t - offset : k \in DOMAIN j2}
                 \cup {x \in {end} : x > 0})

Segments == 1 .. Len(SegmentEdges) + 1
SegStart(seg) == IF seg = 1 THEN 0 ELSE Place(round.mm1, SegmentEdges[seg - 1])
SegEnd(seg) == IF seg = Len(SegmentEdges) + 1 THEN Len(round.mm1)
             ELSE Place(round.mm1, SegmentEdges[seg])

\* The node-2 events of a block: near enough before the shift and after it.
Reach(st1, st2) == Margin + 4 * Max(Sizes(st1) \cup Sizes(st2))
Window(t1, t2, off, reach) ==
    [lo |-> Place(t2, t1[1] + off - Tmax - reach),
     hi |-> Place(t2, t1[Len(t1)] + off + Tmax + reach)]
-----------------------------------------------------------------------------
Init ==
    /\ round \in Rounds
    /\ offset = 0 /\ segment = 0 /\ at = 0
    /\ drops1 = {} /\ drops2 = {}
    /\ raw = <<>> /\ cor = <<>>
    /\ state = "recorded"

\* The offset, then the strays of both files.
Open ==
    /\ state = "recorded"
    /\ IF Min({Len(round.marks1), Len(round.marks2), NSeed}) < MinMarkers
       THEN state' = "raised" /\ UNCHANGED <<offset, drops1, drops2>>
       ELSE \E g1 \in {GlitchDrops(round.mm1)}, g2 \in {GlitchDrops(round.mm2)} :
              /\ offset' = RobustOffset(round.marks1, round.marks2)
              /\ drops1' = g1.drops /\ drops2' = g2.drops
              /\ state' = IF g1.raised \/ g2.raised THEN "raised" ELSE "correlating"
    /\ UNCHANGED <<round, segment, at, raw, cor>>

NextSegment ==
    /\ state = "correlating"
    /\ segment > 0 => at = SegEnd(segment)
    /\ segment + 1 \in Segments
    /\ segment' = segment + 1
    /\ at' = SegStart(segment + 1)
    /\ raw' = Append(raw, NoCounts) /\ cor' = Append(cor, NoCounts)
    /\ UNCHANGED <<round, offset, drops1, drops2, state>>

Added(h, t1, t2) == LET more == Histogram(t1, Plus(t2, -offset))
                    IN  [b \in Bins |-> h[b] + more[b]]

CorrelateBlock ==
    /\ state = "correlating"
    /\ segment > 0 /\ at < SegEnd(segment)
    /\ LET b == Min({SegEnd(segment), at + Block})
           taken == Take(round.mm1, at, b, drops1)
           reach == IF round.master THEN Reach(round.st1, round.st2) ELSE Margin
           w == Window(taken, round.mm2, offset, reach)
           t1 == Plus(taken, round.px1)
           t2 == Plus(Take(round.mm2, w.lo, w.hi, drops2), round.px2)
       IN  /\ at' = b
           /\ IF taken = <<>> \/ w.hi =< w.lo THEN UNCHANGED <<raw, cor>>
              ELSE /\ raw' = [raw EXCEPT ![segment] = Added(@, t1, t2)]
                   /\ cor' = IF Shifted
                             THEN [cor EXCEPT ![segment] =
                                     Added(@, ChipShift(t1, round.st1), ChipShift(t2, round.st2))]
                             ELSE cor
    /\ UNCHANGED <<round, offset, drops1, drops2, segment, state>>

\* Nothing to correct: the corrected histogram is the raw one.
Finish ==
    /\ state = "correlating"
    /\ segment = Len(SegmentEdges) + 1 /\ at = SegEnd(segment)
    /\ state' = "done"
    /\ cor' = IF round.master /\ ~Shifted THEN raw ELSE cor
    /\ UNCHANGED <<round, offset, drops1, drops2, segment, at, raw>>

Next == Open \/ NextSegment \/ CorrelateBlock \/ Finish

Spec == Init /\ [][Next]_vars
-----------------------------------------------------------------------------
Whole1 == Plus(Kept(round.mm1, drops1), round.px1)
Whole2 == Plus(Kept(round.mm2, drops2), round.px2)

\* Each stamp without the base and the jumps at and before it, and in order.
Corrected(arr, st) ==
    Sorted([i \in DOMAIN arr |->
              arr[i] - st.base
                - MapThenSumSet(LAMBDA k : st.jumps[k].d,
                                {k \in DOMAIN st.jumps : st.jumps[k].t =< arr[i]})])

SumOf(hs) == [b \in Bins |-> MapThenSumSet(LAMBDA s : hs[s][b], DOMAIN hs)]

\* However a round is cut into segments and blocks, the histograms of the
\* pieces add up to the one of the whole files, each node-1 event once
\* (tools/sweep/offline.py:196-258).
RawIsWhole ==
    state = "done" => SumOf(raw) = Histogram(Whole1, Plus(Whole2, -offset))

\* The same after the master chips' displacements are taken out, although a
\* block shifts and re-sorts its own stamps only (offline.py:123-136, 243-258).
CorIsWhole ==
    state = "done" /\ round.master =>
        SumOf(cor) = Histogram(Corrected(Whole1, round.st1),
                               Plus(Corrected(Whole2, round.st2), -offset))

\* The kernel is given stamps in order: the strays are gone, whatever the file
\* (glitch_drops, offline.py:149-180); and a run of strays shorter than the
\* stretch it is displaced by is all that goes.
StraysGone ==
    state \in {"correlating", "done"} =>
        /\ Rising(Kept(round.mm1, drops1)) /\ Rising(Kept(round.mm2, drops2))
        /\ round.known => drops1 = round.strays

\* The offset is the one the cores of the markers have, although more of the
\* markers of node 2 come in clusters to one side (robust_offset, offline.py:76-104).
OffsetNotPulled ==
    state \in {"correlating", "done"} => Abs(offset - round.offset) =< 1
=============================================================================
