---------------------------- MODULE MCCorrelator ----------------------------
(*
  The correlator: the batches of its window, the tracking of the chips' dwell offsets and
  what the tracker makes of the markers, the pool that counts a batch, the pair lists, and
  the offline correlation of recorded stamps. A behaviour is one of a single machine,
  named by part. The window and the tracking have their own variables; x1 to x9 hold those
  of any other machine in the order it declares them, and the ones it does not need stay 0.
  What the machine of a behaviour is not, stays as it is initially.
*)
EXTENDS CorrelatorPrograms

CONSTANTS None, Unreadable

\* Both nodes, one of them with a marker input.
MarkedChips == {<<1, "master">>, <<1, "slave">>}

\* Two pairs in one batch: all small streams for the first one; for the second a
\* fixed one with equal time stamps and three chunks, so that two workers fill
\* their window of four tasks.
Streams(S, n) == {s \in UNION {[1 .. k -> S] : k \in {0, n}} :
                    \A i \in DOMAIN s, k \in DOMAIN s : i < k => s[i] =< s[k]}

TwoKeys == <<"a", "b">>
TwoPairs ==
    {[key \in {"a", "b"} |-> IF key = "a" THEN [t1 |-> x, t2 |-> y]
                             ELSE [t1 |-> <<1, 1, 2, 2, 3>>, t2 |-> <<0, 1, 1, 4>>]] :
       x \in Streams({0, 2, 5}, 3), y \in Streams({0, 2, 5, 10}, 4)}

\* Ten markers: no jump, or one of a tick either way; no satellite, one, or two
\* with one marker between them, at most one of them among the markers that set
\* the first level; at most one marker missing.
Isolated == {{}} \cup {{i} : i \in 1 .. 10} \cup {{i, i + 2} : i \in 2 .. 8}

SmallWorlds ==
    {[base |-> start[1], relative |-> start[2], jump |-> start[3], delta |-> start[4],
      satellites |-> sats, noMaster |-> gone[1], noSlave |-> gone[2]] :
        start \in {<<0, FALSE, j, d>> : j \in {4, 7}, d \in {100, -100}}
                   \cup {<<0, FALSE, 0, 0>>, <<-100, TRUE, 0, 0>>, <<-100, TRUE, 4, 100>>},
        sats \in Isolated,
        gone \in {<<{}, {}>>, <<{}, {5}>>, <<{6}, {}>>}}

\* Three families of recorded rounds: noisy markers, files with strays, and
\* chips whose displacement changes.
Quiet == [base |-> 0, jumps |-> <<>>, end |-> 0]
Ticks == <<0, 300, 700, 1200, 1900, 2500>>
Beat(noise) == [k \in DOMAIN Ticks |-> Ticks[k] + 40 + noise[k]]
Plain == [marks1 |-> Ticks, marks2 |-> Beat([k \in DOMAIN Ticks |-> 0]), offset |-> 40,
          mm1 |-> <<50, 60, 60, 75>>, mm2 |-> <<92, 99, 117, 118>>, px1 |-> 0, px2 |-> 0,
          st1 |-> Quiet, st2 |-> Quiet, master |-> FALSE,
          known |-> FALSE, strays |-> {}]

\* Fewer than half of the markers displaced, by ten one way or four the other.
Noises == {n \in [1 .. 6 -> {-10, 0, 4}] : Cardinality({k \in 1 .. 6 : n[k] # 0}) < 3}
NoisyMarkers ==
    {[Plain EXCEPT !.marks2 = Beat(n), !.marks1 = SubSeq(Ticks, from, 6)] :
        n \in Noises, from \in {1, 2}} \cup {[Plain EXCEPT !.marks1 = <<0, 300>>]}

\* Any short file; and a run of strays in a regular one.
Regular == [i \in 1 .. 9 |-> 50 + 5 * i]
WithStrays(first, n, by) ==
    [i \in 1 .. 9 |-> Regular[i] + (IF i \in first .. first + n - 1 THEN by ELSE 0)]
StrayFiles ==
    {[Plain EXCEPT !.mm1 = f] : f \in [1 .. 5 -> {52, 58, 64, 70}]}
      \cup {[Plain EXCEPT !.mm1 = WithStrays(first, n, by), !.known = TRUE,
                          !.strays = first .. first + n - 1] :
              first \in 4 .. 5, n \in 1 .. 2, by \in {-17, 17}}

\* One jump of a node's chip, up or down a tick, wherever it falls.
Chip(base, ts, d) == {[base |-> base, jumps |-> <<>>, end |-> 95]}
    \cup {[base |-> base, jumps |-> <<[t |-> t, d |-> d]>>, end |-> 95] : t \in ts}
Stamps1 == <<45, 50, 52, 60, 61, 68, 70, 80, 81, 99>>
Stamps2 == <<85, 92, 97, 101, 102, 108, 111, 112, 119, 121, 130, 138, 141>>
MovedChips ==
    {[Plain EXCEPT !.mm1 = Stamps1, !.mm2 = Stamps2, !.master = TRUE, !.px1 = 1,
                   !.st1 = s1, !.st2 = s2] :
        s1 \in Chip(0, {59, 62, 69}, 10) \cup Chip(-10, {62}, 10),
        s2 \in Chip(0, {100, 105, 116}, -10) \cup Chip(10, {}, 10)}

AllRounds == NoisyMarkers \cup StrayFiles \cup MovedChips

\* A detector of four pixels; and the fits of align_arc that lie on exact halves,
\* with slopes of both signs.
Request(how) == [mode |-> how, lo |-> 0, hi |-> 3, a |-> 2, b |-> 0, den |-> 2,
                 list1 |-> <<>>, list2 |-> <<>>, limit |-> 6]
SomeFits ==
    {[Request("affine") EXCEPT !.a = a, !.b = b, !.lo = lo] :
        a \in {-4, -2, 0, 1, 2, 3, 4}, b \in -3 .. 3, lo \in {0, 2, 4}}
      \cup {[Request("identity") EXCEPT !.lo = lo, !.hi = hi] : lo \in {-1, 2}, hi \in {1, 5}}
      \cup {[Request("grid") EXCEPT !.list1 = x, !.list2 = y] :
              x \in {<<>>, <<1, 4>>, <<2, 1, 2>>}, y \in {<<0>>, <<3, 3>>, <<0, 1, 2>>}}
SomeFiles == {<<<<1, 2>>, <<3, 2>>, <<1, 2>>, <<5, 1>>>>, <<<<0, -1>>>>, Unreadable}
SomeMasks == {{1}, {1, 2}, {0, 2, 3}}

VARIABLES part, x1, x2, x3, x4, x5, x6, x7, x8, x9

Levels == INSTANCE MarkerLevels WITH
    N <- 10, Period <- 1000, Scatter <- 1, Satellite <- 17, Worlds <- SmallWorlds,
    MaxChunk <- 2, MatchTol <- 400, LevelTol <- 3, JumpMin <- 10, Confirm <- 3, InitN <- 3,
    Tick <- 100, RefineN <- 3, CandMax <- 6,
    world <- x1, fedM <- x2, fedS <- x3, m <- x4, s <- x5, tracker <- x6, flushed <- x7
Pool == INSTANCE PairPool WITH
    Keys <- TwoKeys, Batches <- TwoPairs, BinWidth <- 3, Tmax <- 3, NShift <- 2,
    ChunkEvents <- 2, Workers <- 2,
    batch <- x1, todo <- x2, pending <- x3, hists <- x4, diffs <- x5, returned <- x6
Lists == INSTANCE PairLists WITH
    PixHi <- 3, FitCenter <- 2, MaxPairs <- 5, Files <- SomeFiles, Masks <- SomeMasks,
    Fits <- SomeFits,
    mask <- x1, mode <- x2, file <- x3, pairs <- x4, from <- x5, fit <- x6, offline <- x7
Offline == INSTANCE OfflineStamps WITH
    Rounds <- AllRounds, Block <- 3, Margin <- 5, MaxRun <- 3, NSeed <- 6, MinMarkers <- 3,
    ClusterTol <- 5, AcceptTol <- 25, CoreTol <- 3, BinWidth <- 3, Tmax <- 9, NShift <- 3,
    ChunkEvents <- 99,
    round <- x1, offset <- x2, drops1 <- x3, drops2 <- x4, segment <- x5, at <- x6, raw <- x7,
    cor <- x8, state <- x9

ASSUME CorrelatorAssumption ==
    /\ Chips!TrackingAssumption /\ Levels!TrackerAssumption
    /\ Pool!PoolAssumption /\ Pool!KernelAssumption /\ Lists!PairListAssumption
    /\ Offline!OfflineAssumption /\ Offline!KernelAssumption

slots == <<x1, x2, x3, x4, x5, x6, x7, x8, x9>>

\* No machine but the window or the tracking.
Unused == /\ x1 = 0 /\ x2 = 0 /\ x3 = 0 /\ x4 = 0 /\ x5 = 0 /\ x6 = 0 /\ x7 = 0 /\ x8 = 0
          /\ x9 = 0

SumInit ==
    /\ Init /\ Chips!Init
    /\ \/ part \in {"window", "tracking"} /\ Unused
       \/ part = "levels" /\ Levels!Init /\ x8 = 0 /\ x9 = 0
       \/ part = "pool" /\ Pool!Init /\ x7 = 0 /\ x8 = 0 /\ x9 = 0
       \/ part = "lists" /\ Lists!Init /\ x8 = 0 /\ x9 = 0
       \/ part = "offline" /\ Offline!Init

\* A step of the machine whose behaviour this is.
Steps(A, own) == part = own /\ A /\ UNCHANGED part
InWindow(A) == Steps(A, "window") /\ UNCHANGED <<chipvars, slots>>
InChips(A) == Steps(A, "tracking") /\ UNCHANGED <<vars, slots>>
InLevels(A) == Steps(A, "levels") /\ UNCHANGED <<vars, chipvars, x8, x9>>
InPool(A) == Steps(A, "pool") /\ UNCHANGED <<vars, chipvars, x7, x8, x9>>
InLists(A) == Steps(A, "lists") /\ UNCHANGED <<vars, chipvars, x8, x9>>
InOffline(A) == Steps(A, "offline") /\ UNCHANGED <<vars, chipvars>>

SumNext ==
    \/ InWindow(Next)
    \/ InChips(Chips!Next)
    \/ InLevels(Levels!Next)
    \/ InPool(Pool!Next)
    \/ InLists(Lists!Next)
    \/ InOffline(Offline!Next)

sumvars == <<part, vars, chipvars, slots>>

\* The poll is a timer of the window, its worker and the threads of the pool run,
\* and time passes. Those of different machines share a WF.
Fairness ==
    /\ WF_sumvars(\/ InWindow(Works) \/ InChips(Chips!Tick) \/ InPool(Pool!Caller))
    /\ WF_sumvars(\/ InWindow(PollResults) \/ InChips(Chips!TimePasses)
                  \/ InPool(Pool!Work))
    /\ WF_sumvars(InWindow(Tick))

SumSpec == SumInit /\ [][SumNext]_sumvars /\ Fairness
-----------------------------------------------------------------------------
\* DwellOffsetTracker: the chunks in which markers arrive change nothing, a jump
\* is reported only if there was one, from its first marker on, and each marker
\* is given the shift its chip had (tools/dwell_offset.py:80-244).
LevelsTrue ==
    part = "levels" => Levels!ChunkingIrrelevant /\ Levels!JumpsTrue /\ Levels!ShiftTrue

\* PairPool: whatever the order in which the workers finish, a pair comes out of
\* the pool as if its arrays had been one task, but for differences beyond tmax
\* that the last bins count and the slice of a chunk cuts off; every neighbour's
\* difference once, and the saved differences bin to the histogram next to them
\* (correlate_kernel.py:57-158, 196-341).
PoolIsWholeArray ==
    part = "pool" => /\ Pool!TypeOK /\ Pool!PoolIsWholeArray
                     /\ Pool!DiffsRebin /\ Pool!SweepIsSearch

\* tools/pair_map.py and the pair rows of the window: each pair asked for is in
\* the list once or reported as dropped, at the nearest partner; a pixel that is
\* off, on one node only or shared is said to be so; and a list that can be
\* enabled was derived in the mode shown.
PairListTrue ==
    part = "lists" => /\ Lists!TypeOK /\ Lists!AnsweredOnce /\ Lists!NearestPartner
                      /\ Lists!ActiveAccounted /\ Lists!StallsFlagged
                      /\ Lists!SharedShown /\ Lists!PairsOfThisMode

\* tools/sweep/offline.py: however a round is cut into segments and blocks, the
\* histograms add up to those of the whole files, raw and corrected; strays are
\* gone, and clusters to one side do not pull the offset.
OfflineIsWhole ==
    part = "offline" => /\ Offline!RawIsWhole /\ Offline!CorIsWhole
                        /\ Offline!StraysGone /\ Offline!OffsetNotPulled

\* Nothing stays busy: the worker ends, with an error or not, and the poll takes
\* its result, unless a redraw raised before, which ends the poll for good
\* (correlate_multi.py:1097-1171); the pool hands back every batch it was given
\* (correlate_kernel.py:247-341); and a corrected node whose chips match nothing
\* is told to the receiver, unless the run is stopped, its streams fall silent or
\* a match comes after all (correlate_multi.py:969-1011).
NothingStaysBusy ==
    /\ (\/ part = "window" /\ Waiting
        \/ part = "tracking" /\ Chips!Overdue
        \/ part = "pool")
       ~> (/\ part = "window" => ~Waiting
           /\ part = "tracking" => Chips!Told
           /\ part = "pool" => Pool!Returned)
    /\ (part = "window" /\ Queued) ~> (part = "window" => ~Queued)
=============================================================================
