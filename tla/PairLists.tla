------------------------------ MODULE PairLists ------------------------------
(***************************************************************************)
(* The pair list of a correlator: tools/pair_map.py derives it from the    *)
(* masks the nodes run, from a range, an affine fit, two lists or a file;  *)
(* the window of correlate_multi.py derives and shows it, while the user   *)
(* changes the mode and the nodes are launched with other masks.           *)
(***************************************************************************)
EXTENDS Integers, Sequences, FiniteSets
LOCAL INSTANCE SequencesExt
LOCAL INSTANCE FiniteSetsExt

CONSTANTS PixHi, FitCenter,     \* 319 and 160
          MaxPairs,
          Files,                \* what a pair file may hold; Unreadable: it raises
          Masks,                \* active sets a node may run; Unreadable
          Fits,                 \* align_arc's requests: [mode, lo, hi, a, b, den, list1, list2]
          None, Unreadable

PairListAssumption ==
    /\ PixHi \in Nat /\ MaxPairs \in Nat \ {0}
    /\ None \notin Masks /\ None # Unreadable

VARIABLES mask,       \* node -> what the receiver saw applied, None: not launched
          mode, file,
          pairs,      \* the list derived, or None
          from,       \* ledger: the input it was derived from
          fit,        \* a request of align_arc, or None: the window
          offline     \* its answer

window == <<mask, mode, file, pairs, from>>
vars == <<window, fit, offline>>

Pixels == 0 .. PixHi
Interval(lo, hi) == [i \in 1 .. hi - lo + 1 |-> lo + i - 1]
Ordered(S) == [i \in 1 .. Cardinality(S) |->
                  CHOOSE x \in S : Cardinality({y \in S : y < x}) = i - 1]
Refused == [pairs |-> <<>>, refused |-> TRUE]
-----------------------------------------------------------------------------
\* A mutant of a definition below.
HalfUp(n, d) == (2 * n + d) \div (2 * d)
-----------------------------------------------------------------------------
(* pair_map.py *)

\* The nearest integer to n / d, a tie to the even one; d > 0.
RoundEven(n, d) ==
    LET q == n \div d
        rest == 2 * (n % d)
    IN  IF rest < d \/ (rest = d /\ q % 2 = 0) THEN q ELSE q + 1

\* p2 = FIT_CENTER + ((p1 - FIT_CENTER) - b) / a, with a and b over den.
AffinePartner(p1, a, b, den) ==
    LET n == ((p1 - FitCenter) * den - b) + FitCenter * a
    IN  IF a > 0 THEN RoundEven(n, a) ELSE RoundEven(-n, -a)

\* What derive() goes through: the raw pairs, or Refused.
FromRange(f) ==
    IF f.lo > f.hi THEN None
    ELSE LET ps == Interval(f.lo, f.hi) IN [i \in DOMAIN ps |-> <<ps[i], ps[i]>>]
FromFit(f) ==
    IF f.lo > f.hi \/ f.a = 0 THEN None
    ELSE LET ps == Interval(f.lo, f.hi)
         IN  [i \in DOMAIN ps |-> <<ps[i], AffinePartner(ps[i], f.a, f.b, f.den)>>]
Product(l1, l2) == FlattenSeq([i \in DOMAIN l1 |-> [k \in DOMAIN l2 |-> <<l1[i], l2[k]>>]])

NoMask(m1, m2) == m1 \in {None, {}} \/ m2 \in {None, {}}
FromMasks(how, m1, m2) ==
    IF NoMask(m1, m2) THEN None
    ELSE IF how = "grid" THEN Product(Ordered(m1), Ordered(m2))
    ELSE IF m1 \cap m2 = {} THEN None
    ELSE LET ps == Ordered(m1 \cap m2) IN [i \in DOMAIN ps |-> <<ps[i], ps[i]>>]

OneSided(a1, a2) == {<<1, p>> : p \in a1 \ a2} \cup {<<2, p>> : p \in a2 \ a1}

\* Out of range is dropped, not clamped; a repeated pair is left out.
InRange(pair) == pair[1] \in Pixels /\ pair[2] \in Pixels
Kept(raw) ==
    LET kept[i \in 0 .. Len(raw)] ==
            IF i = 0 THEN <<>>
            ELSE IF InRange(raw[i]) /\ ~Contains(kept[i - 1], raw[i])
            THEN Append(kept[i - 1], raw[i]) ELSE kept[i - 1]
    IN  kept[Len(raw)]
Dropped(raw) == SelectSeq(raw, LAMBDA pair : ~InRange(pair))

\* Kept in the list, and flagged: a pair that will never see an event.
MaskedOff(q, m1, m2) ==
    {<<1, q[i][1]>> : i \in {i \in DOMAIN q : m1 # None /\ q[i][1] \notin m1}}
      \cup {<<2, q[i][2]>> : i \in {i \in DOMAIN q : m2 # None /\ q[i][2] \notin m2}}

Derived(raw, m1, m2, diagonal, limit) ==
    IF raw = None THEN Refused
    ELSE LET q == Kept(raw)
         IN  IF Len(q) > limit THEN Refused
             ELSE [pairs |-> q, refused |-> FALSE, dropped |-> Dropped(raw),
                   masked |-> MaskedOff(q, m1, m2),
                   onesided |-> IF diagonal THEN OneSided(m1, m2) ELSE {}]

PartnersNode2(q, p2) == {q[i][1] : i \in {i \in DOMAIN q : q[i][2] = p2}}
Channels2(q) == {q[i][2] : i \in DOMAIN q}
SharedNode2(q) == {p2 \in Channels2(q) : Cardinality(PartnersNode2(q, p2)) > 1}

\* preview_rows: the pairs a row's node-2 pixel also serves.
PreviewOthers(q, i) ==
    IF q[i][2] \in SharedNode2(q) THEN PartnersNode2(q, q[i][2]) \ {q[i][1]} ELSE {}
-----------------------------------------------------------------------------
(* The window. *)

\* What Derive would make of the input now.
WindowRaw(m1, m2) ==
    IF mode = "file" THEN (IF file = Unreadable THEN None ELSE file)
    ELSE FromMasks(mode, m1, m2)
WindowList ==
    IF Unreadable \in {mask[1], mask[2]} \/ (mode # "file" /\ None \in {mask[1], mask[2]})
    THEN Refused
    ELSE Derived(WindowRaw(mask[1], mask[2]), mask[1], mask[2], mode = "identity", MaxPairs)

Init ==
    /\ mask = [n \in {1, 2} |-> None]
    /\ mode = "identity" /\ file \in Files
    /\ pairs = None /\ from = None
    /\ fit \in Fits \cup {None} /\ offline = None

FitList(f) ==
    Derived(CASE f.mode = "identity" -> FromRange(f)
              [] f.mode = "affine" -> FromFit(f)
              [] f.mode = "grid" -> Product(f.list1, f.list2),
            None, None, FALSE, f.limit)

DeriveOffline ==
    /\ fit # None /\ offline = None
    /\ offline' = FitList(fit)
    /\ UNCHANGED <<window, fit>>

\* A launch of a node: the receiver reads the mask it applied, or cannot.
Launch(n) ==
    /\ \E m \in Masks \cup {None, Unreadable} : mask' = [mask EXCEPT ![n] = m]
    /\ UNCHANGED <<mode, file, pairs, from, fit, offline>>

PickFile ==
    /\ file' \in Files
    /\ UNCHANGED <<mask, mode, pairs, from, fit, offline>>

\* A pair list of the mode before is gone.
AfterModeChange == None

ModeChange ==
    /\ mode' \in {"identity", "grid", "file"}
    /\ pairs' = AfterModeChange
    /\ UNCHANGED <<mask, file, from, fit, offline>>

\* A list of no pairs is refused like an exception.
Outcome(list) == IF list.refused \/ list.pairs = <<>> THEN None ELSE list

Derive ==
    /\ pairs' = Outcome(WindowList)
    /\ from' = [mode |-> mode, m1 |-> mask[1], m2 |-> mask[2], file |-> file]
    /\ UNCHANGED <<mask, mode, file, fit, offline>>

Next ==
    \/ DeriveOffline
    \/ /\ fit = None
       /\ (\E n \in {1, 2} : Launch(n)) \/ PickFile \/ ModeChange \/ Derive

Spec == Init /\ [][Next]_vars
-----------------------------------------------------------------------------
Lists == {x \in {pairs, offline} : x # None /\ ~x.refused}

TypeOK ==
    /\ mode \in {"identity", "grid", "file"} /\ file \in Files
    /\ pairs # None => pairs.pairs # <<>> /\ ~pairs.refused /\ from # None
    /\ fit # None => pairs = None

\* What was asked for: all pairs of the fit, in its order.
Asked == CASE fit.mode = "affine" -> FromFit(fit)
           [] fit.mode = "grid" -> Product(fit.list1, fit.list2)
           [] fit.mode = "identity" -> FromRange(fit)

\* Each pair asked for is in the list once, in the order asked for, or it is
\* dropped with the pixel that is not there: no pixel serves a pair nobody
\* asked for, and no coincidence is counted twice (tools/pair_map.py:228-316).
AnsweredOnce ==
    offline # None /\ ~offline.refused =>
        LET q == offline.pairs
        IN  /\ \A i \in DOMAIN q, k \in DOMAIN q : i # k => q[i] # q[k]
            /\ ToSet(q) \cup ToSet(offline.dropped) = ToSet(Asked)
            /\ ToSet(q) = {p \in ToSet(Asked) : InRange(p)}
            /\ \A i \in 1 .. Len(q) - 1 :
                  \E k \in DOMAIN Asked : Asked[k] = q[i] /\ \E l \in k .. Len(Asked) :
                      Asked[l] = q[i + 1]

\* The affine partner is the pixel nearest to the matched wavelength, an exact
\* half going to the even one as in align_arc's own rounding, whatever the
\* sign of the slope (affine_partner, tools/pair_map.py:147-163).
NearestPartner ==
    offline # None /\ ~offline.refused /\ fit.mode = "affine" =>
        \A i \in DOMAIN Asked :
            LET p1 == Asked[i][1]
                p2 == Asked[i][2]
                \* a * (p2 - center) + b - (p1 - center), over den
                miss == fit.a * (p2 - FitCenter) + fit.b - (p1 - FitCenter) * fit.den
                size == IF miss < 0 THEN -miss ELSE miss
                half == IF fit.a < 0 THEN -fit.a ELSE fit.a
            IN  2 * size =< half /\ (2 * size = half => p2 % 2 = 0)

\* Each pixel a mask has on is in a pair of the diagonal or reported as active
\* on one node only, never both (tools/pair_map.py:251-265).
ActiveAccounted ==
    pairs # None /\ from.mode = "identity" =>
        \A n \in {1, 2}, p \in Pixels :
            LET m == IF n = 1 THEN from.m1 ELSE from.m2
            IN  /\ p \in m <=> \/ <<p, p>> \in ToSet(pairs.pairs)
                               \/ <<n, p>> \in pairs.onesided
                /\ ~(<<p, p>> \in ToSet(pairs.pairs) /\ <<n, p>> \in pairs.onesided)

\* A pair that will never see an event, as one of its pixels is off on its
\* node, is flagged before Enable, and no other is (pair_map.py:308-313).
StallsFlagged ==
    pairs # None =>
        \A pair \in ToSet(pairs.pairs), n \in {1, 2} :
            LET m == IF n = 1 THEN from.m1 ELSE from.m2
            IN  (m # None /\ pair[n] \notin m) <=> <<n, pair[n]>> \in pairs.masked

\* A node-2 pixel that serves more than one pair says so in each of their rows,
\* with the node-1 pixels of the others (shared_node2 and preview_rows,
\* tools/pair_map.py:104-110, 343-360).
SharedShown ==
    \A list \in Lists :
        \A i \in DOMAIN list.pairs :
            PreviewOthers(list.pairs, i)
              = {p[1] : p \in {p \in ToSet(list.pairs) :
                                   p[2] = list.pairs[i][2] /\ p # list.pairs[i]}}

\* A list that can be enabled was derived in the mode shown, by the last Derive,
\* and not by one that failed since (correlate_multi.py:491-512, 613-625).
PairsOfThisMode ==
    pairs # None => /\ from.mode = mode
                    /\ from.mode = "file" \/ ~NoMask(from.m1, from.m2)
                    /\ from.mode = "file" => from.file # Unreadable
                    /\ Unreadable \notin {from.m1, from.m2}
=============================================================================
