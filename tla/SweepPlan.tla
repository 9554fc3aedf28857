------------------------------ MODULE SweepPlan ------------------------------
(***************************************************************************)
(* What a sweep measures (tools/sweep/plan.py): the rounds built from the  *)
(* pixels or pairs of the command line, a plan written to a file and read  *)
(* back, and the files the rounds leave (Campaign of rounds.py).           *)
(*                                                                         *)
(* A request is                                                            *)
(*   items   <<lo, hi>> ranges of --pixels, or the pairs of --pairs        *)
(*   range, exclude, group, joint, order, centre                           *)
(*   dummy   <<"auto", {}>>, <<"none", {}>> or <<"given", set of pixels>>  *)
(*   rules   <<lo, hi, seconds>>, or <<>>: sized by the signal to noise    *)
(* Durations are whole seconds; Need is (snr / excess)^2 / bin width.      *)
(***************************************************************************)
EXTENDS Integers, Sequences, FiniteSets, TLC
LOCAL INSTANCE SequencesExt
LOCAL INSTANCE FiniteSetsExt

CONSTANTS NPixels, MasterLocs,   \* chip_map.chip_of_loc, from the PIXMAP of the node
          DummyPx, Rate1, Rate2, \* the intensity scans
          Need, MinTime, MaxTime, Infinite,
          Requests,
          NotYet, Refused

PlanAssumption ==
    /\ MasterLocs \subseteq 0 .. NPixels - 1 /\ DummyPx \in (0 .. NPixels - 1) \ MasterLocs
    /\ Need \in Nat /\ MinTime =< MaxTime

VARIABLES request, plan
vars == <<request, plan>>

Abs(x) == IF x < 0 THEN -x ELSE x
Largest(S) == Max(S)
Firsts(q) == {q[i][1] : i \in DOMAIN q}
Seconds(q) == {q[i][2] : i \in DOMAIN q}
Both(q) == Firsts(q) \cup Seconds(q)
Less(a, b) == a[1] < b[1] \/ (a[1] = b[1] /\ a[2] < b[2])
-----------------------------------------------------------------------------
\* A mutant of a definition below.
FirstTime(times) == times[1]
-----------------------------------------------------------------------------
(* The command line. *)

Interval(lo, hi) == [i \in 1 .. (IF hi < lo THEN 0 ELSE hi - lo + 1) |-> lo + i - 1]

\* parse_pixels: order kept, duplicates dropped; a range that runs backwards is empty.
ParsePixels(ranges) ==
    FoldLeft(LAMBDA out, r : out \o SelectSeq(Interval(r[1], r[2]), LAMBDA p : ~Contains(out, p)),
             <<>>, ranges)

Identity(pixels) == [i \in DOMAIN pixels |-> <<pixels[i], pixels[i]>>]

\* plan_from_args: what is left of the pairs after --range and --exclude.
Wanted(a) ==
    LET all == IF a.kind = "pixels" THEN Identity(ParsePixels(a.items)) ELSE a.items
    IN  SelectSeq(all, LAMBDA p : /\ \A k \in {1, 2} : p[k] \in a.range[1] .. a.range[2]
                                  /\ {p[1], p[2]} \cap a.exclude = {})

OrderPairs(a, pairs) ==
    LET Key(p) == <<Abs(p[1] - a.centre), Abs(p[2] - a.centre)>>
    IN  CASE a.order = "given" -> pairs
          [] a.order = "asc" -> SortSeq(pairs, Less)
          [] a.order = "desc" -> SortSeq(pairs, LAMBDA p, q : Less(q, p))
          [] a.order = "centre" ->
                SortSeq(pairs, LAMBDA p, q : IF Key(p) = Key(q) THEN Less(p, q)
                                             ELSE Less(Key(p), Key(q)))
-----------------------------------------------------------------------------
(* The rounds. *)

\* _has
HasMaster(S) == S \cap MasterLocs # {}
HasSlave(S) == ~(S \subseteq MasterLocs)

\* A node with master-chip pixels only has no dwell markers of the slave chip.
NeedsDummy(m, n) == HasMaster(m[n]) /\ ~HasSlave(m[n])

\* A dummy that is itself measured is not a dummy.
NotMeasured(used, q) == used \ Both(q)

\* masks_for
MasksFor(q, dummy) ==
    LET own == <<Firsts(q), Seconds(q)>>
        dark == IF dummy[1] = "auto"
                THEN [n \in 1 .. 2 |-> IF NeedsDummy(own, n) THEN {DummyPx} ELSE {}]
                ELSE <<dummy[2], dummy[2]>>
    IN  [mask |-> [n \in 1 .. 2 |-> own[n] \cup dark[n]],
         dummy |-> NotMeasured(dark[1] \cup dark[2], q)]

Chunks(q, g) ==
    [i \in 1 .. (Len(q) + g - 1) \div g |->
        SubSeq(q, (i - 1) * g + 1, IF i * g < Len(q) THEN i * g ELSE Len(q))]

\* snr_seconds, then the floor and the cap.
SnrSeconds(q) ==
    LET rate == FoldLeft(LAMBDA s, p : s + Rate1[p[1]] * Rate2[p[2]], 0, q)
        t == IF rate = 0 THEN Infinite ELSE (Need + rate - 1) \div rate
    IN  IF t > MaxTime THEN MaxTime ELSE IF t < MinTime THEN MinTime ELSE t

\* The first rule that holds the pixel of node 1; 0: there is none.
RuleOf(rules, p) ==
    LET hit == {i \in DOMAIN rules : rules[i][1] =< p[1] /\ p[1] =< rules[i][2]}
    IN  IF hit = {} THEN 0 ELSE rules[Min(hit)][3]

Longest(times) == Largest(ToSet(times))

Duration(a, q) ==
    IF a.rules = <<>> THEN SnrSeconds(q)
    ELSE Longest([i \in DOMAIN q |-> RuleOf(a.rules, q[i])])

ChipName(S) == IF HasMaster(S) THEN "master" ELSE "slave"

\* build_plan
BuildPlan(a, pairs) ==
    LET parts == IF a.joint THEN <<pairs>> ELSE Chunks(pairs, a.group)
    IN  [j \in DOMAIN parts |->
            LET m == MasksFor(parts[j], a.dummy)
            IN  [round |-> j, pairs |-> parts[j], pixels |-> Both(parts[j]),
                 mask |-> m.mask, dummy |-> m.dummy, duration |-> Duration(a, parts[j]),
                 chip |-> ChipName(Both(parts[j]))]]

\* plan_from_args: an error is told and nothing starts.
PlanFromArgs(a) ==
    LET pairs == Wanted(a)
    IN  IF \/ pairs = <<>>
           \/ ~(Both(pairs) \subseteq 0 .. NPixels - 1)
           \/ a.rules # <<>> /\ \E i \in DOMAIN pairs : RuleOf(a.rules, pairs[i]) = 0
        THEN Refused
        ELSE BuildPlan(a, OrderPairs(a, pairs))

\* check_plan: what the runner refuses to start on.
Problems(p) ==
    {at \in (DOMAIN p) \X {1, 2} :
        LET r == p[at[1]]
            mask == r.mask[at[2]]
            own == IF at[2] = 1 THEN Firsts(r.pairs) ELSE Seconds(r.pairs)
        IN  \/ ~(own \subseteq mask)
            \/ HasMaster(own) /\ ~HasSlave(mask)
            \/ HasMaster(r.dummy)
            \/ r.duration =< 0}

\* normalize_spec of a plan file: a field that is missing is filled in.
FilledMask(r, pairs) ==
    IF "mask" \in DOMAIN r THEN r.mask
    ELSE MasksFor(pairs, <<"given", r.dummy>>).mask

NormalizeSpec(r) ==
    LET pairs == IF "pairs" \in DOMAIN r THEN r.pairs
                 ELSE Identity(SetToSortSeq(r.pixels, LAMBDA x, y : x < y))
    IN  [round |-> r.round, pairs |-> pairs, pixels |-> Both(pairs),
         mask |-> FilledMask(r, pairs), dummy |-> r.dummy, duration |-> r.duration,
         chip |-> IF "chip" \in DOMAIN r THEN r.chip ELSE ChipName(Both(pairs))]

SelectRounds(p, first, last) == SelectSeq(p, LAMBDA r : first =< r.round /\ r.round =< last)

\* Campaign.txt of rounds.py: a round of one pair has a text file named after it.
TxtOf(r) == IF Len(r.pairs) # 1 THEN {} ELSE {<<"txt", r.pairs[1]>>}

\* Campaign.npz, named by the round and its label.
NpzOf(r) == <<"npz", r.round, IF Len(r.pairs) = 1 THEN r.pairs[1] ELSE <<Len(r.pairs)>>>>

FilesOf(r) == TxtOf(r) \cup {NpzOf(r)}
-----------------------------------------------------------------------------
Init == request \in Requests /\ plan = NotYet

Build ==
    /\ plan = NotYet
    /\ plan' = PlanFromArgs(request)
    /\ UNCHANGED request

Next == Build

Spec == Init /\ [][Next]_vars
-----------------------------------------------------------------------------
Built == plan # NotYet /\ plan # Refused

Times(q, p) == Cardinality({i \in DOMAIN q : q[i] = p})
All == FlattenSeq([j \in DOMAIN plan |-> plan[j].pairs])

\* Every pair asked for is measured in exactly as many rounds as it was asked
\* for, in rounds numbered from 1 without a gap and no larger than the group:
\* a sweep split with --first and --last measures the same (select_rounds).
EveryPairOnce ==
    Built =>
      /\ \A i \in DOMAIN Wanted(request) :
            Times(All, Wanted(request)[i]) = Times(Wanted(request), Wanted(request)[i])
      /\ Len(All) = Len(Wanted(request))
      /\ \A j \in DOMAIN plan :
            /\ plan[j].round = j
            /\ request.joint \/ Len(plan[j].pairs) =< request.group
            /\ SelectRounds(plan, 1, j) \o SelectRounds(plan, j + 1, Len(plan)) = plan

\* A plan with automatic dummies is one the runner starts: every node with a
\* master-chip pixel has dwell markers of both chips in every round, whatever
\* the grouping paired together (plan.py:153-156 against 230-247).
AutoIsRunnable == Built /\ request.dummy[1] = "auto" => Problems(plan) = {}

\* A pixel is dark or measured, never both, and nothing else is switched on.
DummyIsDark ==
    Built => \A j \in DOMAIN plan :
      /\ plan[j].dummy \cap plan[j].pixels = {}
      /\ \A n \in 1 .. 2 : plan[j].mask[n] \subseteq plan[j].pixels \cup plan[j].dummy

\* A round lasts at least as long as each of its pairs was promised by its rule,
\* or until the summed histogram has the counts asked for, up to the cap.
LongEnough ==
    Built => \A j \in DOMAIN plan :
      IF request.rules = <<>>
      THEN \/ plan[j].duration = MaxTime
           \/ plan[j].duration * FoldLeft(LAMBDA s, p : s + Rate1[p[1]] * Rate2[p[2]],
                                          0, plan[j].pairs) >= Need
      ELSE \A i \in DOMAIN plan[j].pairs :
              plan[j].duration >= RuleOf(request.rules, plan[j].pairs[i])

\* A plan read back from its file is the plan; so is one of the older format,
\* {round, pixels: [px], dummy, duration_s}, of the rounds it can hold
\* (plan.py:202-217).
PlanFileSame ==
    Built => \A j \in DOMAIN plan :
      LET r == plan[j]
          old == [round |-> r.round, pixels |-> r.pixels, dummy |-> r.dummy,
                  duration |-> r.duration]
      IN  /\ NormalizeSpec(r) = r
          /\ Cardinality(r.pixels) = 1 /\ Len(r.pairs) = 1 => NormalizeSpec(old) = r

\* Two rounds share a file only if they measure the same pair.
FilesApart ==
    Built => \A j, k \in DOMAIN plan :
      j # k /\ FilesOf(plan[j]) \cap FilesOf(plan[k]) # {} => plan[j].pairs = plan[k].pairs
=============================================================================
