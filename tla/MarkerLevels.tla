---------------------------- MODULE MarkerLevels ----------------------------
(***************************************************************************)
(* DwellOffsetTracker of tools/dwell_offset.py: the markers of a node's    *)
(* two chips arrive in chunks of any size; the tracker matches them,       *)
(* follows the master - slave level and confirms its jumps.                *)
(*                                                                         *)
(* Init chooses what the chips do: marker i of the slave chip at time      *)
(* i * Period, the master's later by the level in force, a small scatter   *)
(* and, for a satellite, Satellite more; some markers are missing.         *)
(* Levels are kept doubled, so that a median of two is an integer.         *)
(***************************************************************************)
EXTENDS Integers, Sequences, FiniteSets, TLC

CONSTANTS N, Period, Scatter, Satellite,   \* the markers
          Worlds,                          \* the cases tried
          MaxChunk,                        \* bound: markers of a chip in one feed
          MatchTol, LevelTol, JumpMin, Confirm, InitN, Tick, RefineN, CandMax

TrackerAssumption ==
    /\ {N, Period, MatchTol, LevelTol, JumpMin, Confirm, InitN, Tick, RefineN, CandMax}
         \subseteq Nat \ {0}
    /\ 2 * MatchTol < Period /\ LevelTol < JumpMin /\ Confirm + 2 =< CandMax

VARIABLES world,       \* base, jump, delta, satellites, noMaster, noSlave, relative
          fedM, fedS,  \* how far the two streams have been fed
          m, s,        \* _m, _s
          tracker,
          flushed

vars == <<world, fedM, fedS, m, s, tracker, flushed>>
-----------------------------------------------------------------------------
\* What the chips do.
ShiftOf(w, i) == w.base + (IF w.jump # 0 /\ i >= w.jump THEN w.delta ELSE 0)
DiffOf(w, i) == ShiftOf(w, i) + (i % 2) * Scatter
                  + (IF i \in w.satellites THEN Satellite ELSE 0)
Present(missing) == SelectSeq([i \in 1 .. N |-> i], LAMBDA i : i \notin missing)
SlaveOf(w) == LET p == Present(w.noSlave) IN [k \in DOMAIN p |-> p[k] * Period]
MasterOf(w) == LET p == Present(w.noMaster)
               IN  [k \in DOMAIN p |-> p[k] * Period + DiffOf(w, p[k])]

Latest(q, n) == SubSeq(q, IF Len(q) > n THEN Len(q) - n + 1 ELSE 1, Len(q))
Abs(x) == IF x < 0 THEN -x ELSE x
\* Twice the median.
Median(ds) == LET sorted == SortSeq(ds, LAMBDA x, y : x < y)
                  n == Len(ds)
              IN  sorted[(n + 1) \div 2] + sorted[n \div 2 + 1]
-----------------------------------------------------------------------------
\* Mutants of definitions below.
ConfirmedAt(cand, new) == cand[Len(cand)]
-----------------------------------------------------------------------------
Fresh == [init |-> <<>>, cand |-> <<>>, buf |-> <<>>, history |-> <<>>, jumps |-> <<>>,
          idx |-> 0, unmatched |-> 0, off |-> 0, nominal |-> 0]

Level(tr) == tr.history[Len(tr.history)].level
InLevel(tr, d) == Abs(2 * d - Level(tr)) =< 2 * LevelTol
OnLevel(c, new) == Abs(2 * c.d - new) =< 2 * LevelTol

\* The first InitN markers set the level.
Starting(tr, t, d, relative) ==
    LET init == Append(tr.init, [t |-> t, d |-> d])
        ds == [k \in DOMAIN init |-> init[k].d]
    IN  IF Len(init) < InitN THEN [tr EXCEPT !.init = init]
        ELSE [tr EXCEPT !.init = init, !.buf = ds,
                        !.history = <<[t |-> init[1].t, level |-> Median(ds)]>>,
                        !.nominal = IF relative THEN Median(ds) ELSE @]

\* _refine, after the off-level markers before this one proved isolated.
Refined(tr, d) ==
    LET buf == Latest(Append(tr.buf, d), RefineN)
        new == Median(buf)
        last == Len(tr.history)
    IN  [tr EXCEPT !.off = @ + Len(tr.cand), !.cand = <<>>, !.buf = buf,
                   !.history[last].level = new,
                   !.jumps = IF @ # <<>> /\ @[Len(@)].t = tr.history[last].t
                             THEN [@ EXCEPT ![Len(@)].to = new] ELSE @]

Agreeing(cand, d) == SelectSeq(Latest(cand, Confirm + 2), LAMBDA c : Abs(c.d - d) =< LevelTol)

\* The first kept marker that sits on the new level.
JumpStart(cand, new) ==
    LET on == SelectSeq(cand, LAMBDA c : OnLevel(c, new)) IN on[1]

OffLevel(tr, t, d) ==
    LET cand == Append(tr.cand, [t |-> t, d |-> d, index |-> tr.idx])
        agree == Agreeing(cand, d)
        ds == [k \in DOMAIN agree |-> agree[k].d]
    IN  IF Len(agree) >= Confirm /\ Abs(Median(ds) - Level(tr)) >= 2 * JumpMin
        THEN LET new == Median(ds)
                 first == JumpStart(cand, new)
                 strays == SelectSeq(cand, LAMBDA c : ~OnLevel(c, new))
             IN  [tr EXCEPT !.cand = <<>>, !.buf = ds, !.off = @ + Len(strays),
                            !.history = Append(@, [t |-> first.t, level |-> new]),
                            !.jumps = Append(@, [t |-> first.t, from |-> Level(tr), to |-> new,
                                                 index |-> first.index])]
        ELSE IF Len(cand) > CandMax THEN [tr EXCEPT !.cand = Tail(cand), !.off = @ + 1]
        ELSE [tr EXCEPT !.cand = cand]

Step(tr, t, d, relative) ==
    LET next == IF tr.history = <<>> THEN Starting(tr, t, d, relative)
                ELSE IF InLevel(tr, d) THEN Refined(tr, d)
                ELSE OffLevel(tr, t, d)
    IN  [next EXCEPT !.idx = @ + 1]

\* The slave marker nearest to t, the earlier one of two.
Nearest(ss, t) == CHOOSE x \in {ss[k] : k \in DOMAIN ss} :
    \A k \in DOMAIN ss : \/ Abs(t - x) < Abs(t - ss[k])
                         \/ Abs(t - x) = Abs(t - ss[k]) /\ x =< ss[k]

\* The master markers a later slave marker could not be nearer to.
Decidable(ms, ss, final) ==
    {k \in DOMAIN ms : final \/ (ss # <<>> /\ ms[k] =< ss[Len(ss)] - MatchTol)}

\* The slave markers a later master marker may still match.
Needed(ss, t) == SelectSeq(ss, LAMBDA x : x >= t - MatchTol)

\* _process: the new _m, _s and tracker.
Processed(tr, ms, ss, final, relative) ==
    LET n == Cardinality(Decidable(ms, ss, final))
        Matched(t) == ss # <<>> /\ Abs(t - Nearest(ss, t)) =< MatchTol
        after[k \in 0 .. n] ==
            IF k = 0 THEN tr
            ELSE LET t == ms[k]
                     before == after[k - 1]
                 IN  IF Matched(t) THEN Step(before, t, t - Nearest(ss, t), relative)
                     ELSE [before EXCEPT !.unmatched = @ + 1]
    IN  [tracker |-> after[n], m |-> SubSeq(ms, n + 1, Len(ms)),
         s |-> IF n = 0 THEN ss ELSE Needed(ss, ms[n])]
-----------------------------------------------------------------------------
Init ==
    /\ world \in Worlds
    /\ fedM = 0 /\ fedS = 0
    /\ m = <<>> /\ s = <<>>
    /\ tracker = Fresh
    /\ flushed = FALSE

Becomes(p) == tracker' = p.tracker /\ m' = p.m /\ s' = p.s

Feed(a, b) ==
    /\ ~flushed /\ a + b > 0
    /\ fedM + a =< Len(MasterOf(world)) /\ fedS + b =< Len(SlaveOf(world))
    /\ fedM' = fedM + a /\ fedS' = fedS + b
    /\ Becomes(Processed(tracker, m \o SubSeq(MasterOf(world), fedM + 1, fedM + a),
                         s \o SubSeq(SlaveOf(world), fedS + 1, fedS + b), FALSE,
                         world.relative))
    /\ UNCHANGED <<world, flushed>>

AllFed == fedM = Len(MasterOf(world)) /\ fedS = Len(SlaveOf(world))

Flush ==
    /\ AllFed /\ ~flushed
    /\ flushed' = TRUE
    /\ Becomes(Processed(tracker, m, s, TRUE, world.relative))
    /\ UNCHANGED <<world, fedM, fedS>>

Next ==
    \/ \E a, b \in 0 .. MaxChunk : Feed(a, b)
    \/ Flush

Spec == Init /\ [][Next]_vars
-----------------------------------------------------------------------------
\* The nearest multiple of the tick.
ShiftOfLevel(tr, level) == ((level - tr.nominal + Tick) \div (2 * Tick)) * Tick

\* steps(): the shifts in force, equal ones merged.
Steps(tr) ==
    LET all == [k \in DOMAIN tr.history |->
                  [t |-> tr.history[k].t, shift |-> ShiftOfLevel(tr, tr.history[k].level)]]
    IN  [k \in {k \in DOMAIN all : k = 1 \/ all[k - 1].shift # all[k].shift} |-> all[k]]

\* shift_ps(t): 0 before the first step.
ShiftAt(tr, t) ==
    LET st == Steps(tr)
        past == {k \in DOMAIN st : st[k].t =< t}
    IN  IF past = {} THEN 0 ELSE st[CHOOSE k \in past : \A j \in past : j =< k].shift

\* The chunks in which the markers arrive change nothing of what the tracker
\* has found at the end (dwell_offset.py:19-20, 108-142).
ChunkingIrrelevant ==
    flushed => tracker = Processed(Fresh, MasterOf(world), SlaveOf(world), TRUE,
                                   world.relative).tracker

Fits(i) == i \notin world.noMaster \cup world.noSlave
Matching == {i \in 1 .. N : Fits(i)}
\* Enough markers at or after the jump for its confirmation, isolated
\* satellites among them.
MarkersAfter == Cardinality({i \in Matching : i >= world.jump})
Confirmable == world.jump = 0 \/ MarkersAfter >= 2 * Confirm

\* A jump is reported only if there was one, once, and from the first marker
\* on the new level however the satellites delay it; a satellite is never a
\* jump (dwell_offset.py:35-41, 157-185).
JumpsTrue ==
    /\ Len(tracker.jumps) =< (IF world.jump = 0 THEN 0 ELSE 1)
    /\ \A k \in DOMAIN tracker.jumps :
          LET good == {i \in Matching : i >= world.jump /\ i \notin world.satellites}
              first == CHOOSE i \in good : \A j \in good : i =< j
          IN  tracker.jumps[k].t = first * Period + DiffOf(world, first)
    /\ flushed /\ world.jump # 0 /\ Confirmable => tracker.jumps # <<>>

\* At the end each marker is given the shift its chip really had, as whole
\* ticks, against no shift or, if the calibration already holds the first
\* level, against that (dwell_offset.py:80-84, 216-250).
ShiftTrue ==
    flushed /\ Confirmable => \A i \in Matching :
        LET t == i * Period + DiffOf(world, i)
        IN  i \notin world.satellites =>
              ShiftAt(tracker, t) = ShiftOf(world, i) - (IF world.relative THEN world.base ELSE 0)
=============================================================================
