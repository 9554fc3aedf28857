-------------------------- MODULE ChannelSpill_proofs --------------------------
(***************************************************************************)
(* The disk tail of the channel graph, for every set of pixels, photons,   *)
(* window and tail size: moving events between the spill files and RAM     *)
(* neither loses nor doubles one of a node-1 channel, in whatever order    *)
(* they end up; while they are in order no coincidence is lost; and a      *)
(* channel blocked on a lagging partner is capped.                         *)
(***************************************************************************)
EXTENDS ChannelSpill, SequenceLaws

\* The interval r is searched in: what its middle decides.
Above(s, x, right, m) == s[m + 1] < x \/ (right /\ s[m + 1] = x)
Middle(r) == (r[1] + r[2]) \div 2
Halved(s, x, right, r) ==
    IF Above(s, x, right, Middle(r)) THEN <<Middle(r) + 1, r[2]>> ELSE <<r[1], Middle(r)>>

LEMMA HalvedSmaller ==
    ASSUME NEW n \in Nat, NEW s, NEW x, NEW right, NEW r \in (0 .. n) \X (0 .. n), r[1] < r[2]
    PROVE  LET h == Halved(s, x, right, r)
           IN  /\ h \in (0 .. n) \X (0 .. n) /\ h[2] - h[1] < r[2] - r[1]
               /\ h[1] =< h[2] /\ r[1] =< h[1] /\ h[2] =< r[2]
               /\ h[1] = r[1] \/ Above(s, x, right, h[1] - 1)
  <1> DEFINE m == Middle(r)
  <1>1. r[1] \in 0 .. n /\ r[2] \in 0 .. n
    OBVIOUS
  <1>2. m \in Nat /\ r[1] =< m /\ m < r[2]
    BY <1>1 DEF Middle
  <1> HIDE DEF m
  <1>3. CASE Above(s, x, right, m)
    <2>1. Halved(s, x, right, r) = <<m + 1, r[2]>>
      BY <1>3 DEF Halved, m
    <2>2. (m + 1) - 1 = m
      BY <1>2
    <2>3. Above(s, x, right, (m + 1) - 1)
      BY <1>3, <2>2
    <2> QED
      BY <1>1, <1>2, <2>1, <2>3
  <1>4. CASE ~Above(s, x, right, m)
    <2>1. Halved(s, x, right, r) = <<r[1], m>>
      BY <1>4 DEF Halved, m
    <2> QED
      BY <1>1, <1>2, <2>1
  <1> QED
    BY <1>3, <1>4

\* The search as far as intervals of the length k.
Searches(s, x, right, n, k, f) ==
    /\ f \in [(0 .. n) \X (0 .. n) -> 0 .. n]
    /\ \A r \in (0 .. n) \X (0 .. n) : r[2] - r[1] =< k =>
          f[r] = IF r[1] >= r[2] THEN r[1] ELSE f[Halved(s, x, right, r)]

LEMMA SearchExists ==
    ASSUME NEW n \in Nat, NEW s, NEW x, NEW right
    PROVE  \E f : Searches(s, x, right, n, n, f)
  <1> DEFINE D == (0 .. n) \X (0 .. n)
             B == {k \in 0 .. n : ~\E f : Searches(s, x, right, n, k, f)}
  <1>1. SUFFICES ASSUME B # {} PROVE FALSE
    <2>1. n \in 0 .. n
      OBVIOUS
    <2> QED
      BY <2>1
  <1>2. B \in SUBSET Nat
    OBVIOUS
  <1>3. PICK k \in B : \A j \in B : k =< j
    BY <1>1, <1>2, Least
  <1>4. k # 0
    <2> DEFINE f == [r \in D |-> r[1]]
    <2>1. f \in [D -> 0 .. n]
      OBVIOUS
    <2>2. ASSUME NEW r \in D, r[2] - r[1] =< 0 PROVE r[1] >= r[2] /\ f[r] = r[1]
      BY <2>2
    <2>3. Searches(s, x, right, n, 0, f)
      BY <2>1, <2>2 DEF Searches
    <2> HIDE DEF f
    <2> QED
      BY <1>3, <2>3
  <1>5. k \in 1 .. n /\ k - 1 \in 0 .. n /\ ~(k =< k - 1)
    BY <1>3, <1>4
  <1>6. k - 1 \notin B
    BY <1>3, <1>5
  <1>7. PICK f : Searches(s, x, right, n, k - 1, f)
    BY <1>5, <1>6
  <1> DEFINE h(r) == Halved(s, x, right, r)
             g == [r \in D |-> IF r[1] >= r[2] THEN r[1]
                               ELSE IF r[2] - r[1] =< k - 1 THEN f[r] ELSE f[h(r)]]
  <1>8. \A r \in D : r[1] \in 0 .. n /\ r[2] \in 0 .. n
                     /\ (r[1] < r[2] => h(r) \in D /\ h(r)[2] - h(r)[1] < r[2] - r[1])
    BY HalvedSmaller
  <1>9. f \in [D -> 0 .. n]
    BY <1>7 DEF Searches
  <1>10. g \in [D -> 0 .. n]
    <2> HIDE DEF h
    <2>1. \A r \in D : r[1] >= r[2] \/ r[1] < r[2]
      BY <1>8
    <2> QED
      BY <1>8, <1>9, <2>1
  <1>11. ASSUME NEW r \in D, r[2] - r[1] =< k, ~(r[1] >= r[2]) PROVE g[r] = g[h(r)]
    <2>1. r[1] < r[2] /\ h(r) \in D /\ h(r)[2] - h(r)[1] =< k - 1
          /\ h(r)[1] \in 0 .. n /\ h(r)[2] \in 0 .. n
      BY <1>5, <1>8, <1>11
    <2>2. g[h(r)] = f[h(r)]
      <3>1. CASE h(r)[1] >= h(r)[2]
        <4>1. f[h(r)] = h(r)[1]
          BY <1>7, <2>1, <3>1 DEF Searches
        <4> QED
          BY <2>1, <3>1, <4>1
      <3>2. CASE ~(h(r)[1] >= h(r)[2])
        BY <2>1, <3>2
      <3> QED
        BY <3>1, <3>2
    <2>3. g[r] = f[h(r)]
      <3>1. CASE r[2] - r[1] =< k - 1
        <4>1. f[r] = f[h(r)]
          BY <1>7, <1>11, <3>1 DEF Searches
        <4> QED
          BY <1>11, <3>1, <4>1
      <3>2. CASE ~(r[2] - r[1] =< k - 1)
        BY <1>11, <3>2
      <3> QED
        BY <3>1, <3>2
    <2> QED
      BY <2>2, <2>3
  <1>12. \A r \in D : r[1] >= r[2] => g[r] = r[1]
    OBVIOUS
  <1> HIDE DEF g
  <1>13. Searches(s, x, right, n, k, g)
    BY <1>10, <1>11, <1>12 DEF Searches
  <1> QED
    BY <1>3, <1>13

\* The place found is in the array, and what is before it goes before x.
LEMMA BisectFinds ==
    ASSUME NEW s \in Seq(Nat), NEW x, NEW right
    PROVE  LET found == Bisect(s, x, right)
           IN  found \in 0 .. Len(s) /\ (found = 0 \/ Above(s, x, right, found - 1))
  <1> DEFINE n == Len(s)
             D == (0 .. n) \X (0 .. n)
             Unfolds(f) == f = [r \in D |-> IF r[1] >= r[2] THEN r[1] ELSE f[Halved(s, x, right, r)]]
             g == CHOOSE f : Unfolds(f)
  <1>1. n \in Nat /\ <<0, n>> \in D
    OBVIOUS
  <1>2. Bisect(s, x, right) = g[<<0, n>>]
    BY DEF Bisect, Halved, Above, Middle
  <1>3. Unfolds(g)
    <2>1. PICK f : Searches(s, x, right, n, n, f)
      BY <1>1, SearchExists
    <2>2. f \in [D -> 0 .. n]
      BY <2>1 DEF Searches
    <2>3. \A r \in D : r[2] - r[1] =< n
      BY <1>1
    <2>4. \A r \in D : f[r] = IF r[1] >= r[2] THEN r[1] ELSE f[Halved(s, x, right, r)]
      BY <2>1, <2>3 DEF Searches
    <2>5. Unfolds(f)
      BY <2>2, <2>4
    <2> HIDE DEF Unfolds
    <2> QED
      BY <2>5
  <1>4. \A r \in D : g[r] = IF r[1] >= r[2] THEN r[1] ELSE g[Halved(s, x, right, r)]
    <2> HIDE DEF g
    <2> QED
      BY <1>3
  <1> HIDE DEF g, Unfolds
  <1> DEFINE Goes(i) == i = 0 \/ Above(s, x, right, i - 1)
             Found(r) == g[r] \in 0 .. n /\ (g[r] = r[1] \/ Goes(g[r]))
  <1>5. \A r \in D : r[1] =< r[2] => Found(r)
    <2> DEFINE B == {k \in 0 .. n : \E r \in D : r[1] =< r[2] /\ r[2] - r[1] = k /\ ~Found(r)}
    <2>1. SUFFICES ASSUME B # {} PROVE FALSE
      <3>1. \A r \in D : r[1] =< r[2] => r[2] - r[1] \in 0 .. n
        BY <1>1
      <3> HIDE DEF Found
      <3> QED
        BY <3>1
    <2>2. B \in SUBSET Nat
      BY <1>1
    <2>3. PICK k \in B : \A j \in B : k =< j
      BY <2>1, <2>2, Least
    <2>4. PICK r \in D : r[1] =< r[2] /\ r[2] - r[1] = k /\ ~Found(r)
      BY <2>3
    <2>5. r[1] \in 0 .. n /\ r[2] \in 0 .. n
      OBVIOUS
    <2>6. r[1] < r[2]
      <3>1. r[1] >= r[2] => g[r] = r[1]
        BY <1>4
      <3> QED
        BY <2>4, <2>5, <3>1
    <2> DEFINE h == Halved(s, x, right, r)
    <2>7. /\ h \in D /\ h[2] - h[1] < r[2] - r[1] /\ h[1] =< h[2]
          /\ h[1] = r[1] \/ Above(s, x, right, h[1] - 1)
      BY <1>1, <2>6, HalvedSmaller
    <2>8. g[h] = g[r]
      BY <1>4, <2>5, <2>6
    <2> HIDE DEF h
    <2>9. h[1] \in 0 .. n /\ h[2] \in 0 .. n /\ h[2] - h[1] \in 0 .. n /\ ~(k =< h[2] - h[1])
      <3>1. h[1] \in 0 .. n /\ h[2] \in 0 .. n
        BY <2>7
      <3>2. r[2] - r[1] = k
        BY <2>4
      <3>3. h[1] =< h[2] /\ h[2] - h[1] < r[2] - r[1]
        BY <2>7
      <3>4. h[2] - h[1] \in 0 .. n
        BY <1>1, <3>1, <3>3
      <3>5. k \in Int /\ h[2] - h[1] < k
        BY <2>5, <3>2, <3>3
      <3>6. ~(k =< h[2] - h[1])
        BY <3>4, <3>5
      <3> QED
        BY <3>1, <3>4, <3>6
    <2>10. ~Found(h)
      BY <2>4, <2>7, <2>8
    <2>11. h[2] - h[1] \in B
      <3> HIDE DEF Found
      <3> QED
        BY <2>7, <2>9, <2>10
    <2> QED
      BY <2>3, <2>9, <2>11
  <1>6. Found(<<0, n>>)
    <2> HIDE DEF Found
    <2> QED
      BY <1>1, <1>5
  <1>7. g[<<0, n>>] \in 0 .. n /\ Goes(g[<<0, n>>])
    BY <1>6
  <1> QED
    BY <1>2, <1>7

LEMMA BisectInside ==
    ASSUME NEW s \in Seq(Nat), NEW x, NEW right PROVE Bisect(s, x, right) \in 0 .. Len(s)
  BY BisectFinds

\* In an array in order that is all of what is before it.
LEMMA BisectCuts ==
    ASSUME NEW s \in Seq(Nat), Sorted(s), NEW x \in Int, NEW right \in BOOLEAN
    PROVE  \A t \in ToSet(SubSeq(s, 1, Bisect(s, x, right))) : t < x \/ (right /\ t = x)
  <1> DEFINE n == Bisect(s, x, right)
             a == SubSeq(s, 1, n)
  <1>1. n \in 0 .. Len(s) /\ (n = 0 \/ Above(s, x, right, n - 1))
    BY BisectFinds
  <1> HIDE DEF n
  <1>2. Len(s) \in Nat /\ \A i \in 1 .. Len(s) : s[i] \in Nat
    OBVIOUS
  <1>3. ToSet(a) = {s[i] : i \in 1 .. n}
    <2>1. Len(a) = n /\ DOMAIN a = 1 .. n /\ \A i \in 1 .. n : a[i] = s[i]
      BY <1>1, <1>2
    <2> HIDE DEF a
    <2> QED
      BY <2>1 DEF ToSet
  <1>4. ASSUME NEW i \in 1 .. n PROVE s[i] < x \/ (right /\ s[i] = x)
    <2>1. n \in 1 .. Len(s) /\ i \in 1 .. Len(s) /\ i =< n /\ n # 0 /\ (n - 1) + 1 = n
      BY <1>1, <1>2
    <2>2. s[n] < x \/ (right /\ s[n] = x)
      BY <1>1, <2>1 DEF Above
    <2>3. s[i] =< s[n]
      BY <2>1 DEF Sorted
    <2>4. s[i] \in Nat /\ s[n] \in Nat
      BY <1>2, <2>1
    <2>5. CASE s[n] < x
      BY <2>3, <2>4, <2>5
    <2>6. CASE right /\ s[n] = x
      BY <2>3, <2>4, <2>6
    <2> QED
      BY <2>2, <2>5, <2>6
  <1> QED
    BY <1>3, <1>4 DEF n, a

\* The greatest of some numbers of files.
LEMMA GreatestIn ==
    ASSUME NEW n \in Nat, NEW K \in SUBSET (0 .. n), K # {} PROVE Max(K) \in K
  <1> DEFINE B == {n - k : k \in K}
  <1>1. B \in SUBSET Nat /\ B # {}
    <2>1. \A k \in K : n - k \in Nat
      OBVIOUS
    <2>2. PICK k \in K : TRUE
      OBVIOUS
    <2>3. n - k \in B
      BY <2>2
    <2> QED
      BY <2>1, <2>3
  <1>2. PICK b \in B : \A j \in B : b =< j
    BY <1>1, Least
  <1>3. PICK k \in K : b = n - k
    BY <1>2
  <1>4. ASSUME NEW j \in K PROVE k >= j
    <2>1. n - j \in B
      OBVIOUS
    <2>2. n - k =< n - j
      BY <1>2, <1>3, <2>1
    <2> QED
      BY <2>2
  <1> QED
    BY <1>4 DEF Max

-----------------------------------------------------------------------------
\* A buffer and its events. Two buffers hold the same when the one has the other's
\* events, and none twice if the other has none twice.
Buffers == [files : Seq(Seq(Nat)), arr : Seq(Nat), pending : Seq(Nat)]
Once(b) == IsInjective(Contents(b))
NoEmptyFile(b) == \A i \in 1 .. Len(b.files) : b.files[i] # <<>>
HoldsTheSame(b, c) ==
    /\ c \in Buffers /\ ToSet(Contents(c)) = ToSet(Contents(b))
    /\ Once(b) => Once(c)
    /\ NoEmptyFile(b) => NoEmptyFile(c)

LEMMA ContentsAre ==
    ASSUME NEW b \in Buffers
    PROVE  LET F == FlattenSeq(b.files)
           IN  /\ b.files \in Seq(Seq(Nat)) /\ F \in Seq(Nat) /\ b.arr \in Seq(Nat) /\ b.pending \in Seq(Nat)
               /\ Contents(b) = Cat(Cat(F, b.arr), b.pending)
               /\ Contents(b) \in Seq(Nat)
               /\ ToSet(Contents(b)) = ToSet(F) \cup ToSet(b.arr) \cup ToSet(b.pending)
               /\ Once(b) <=> /\ IsInjective(F) /\ IsInjective(b.arr) /\ IsInjective(b.pending)
                              /\ ToSet(F) \cap ToSet(b.arr) = {}
                              /\ ToSet(F) \cap ToSet(b.pending) = {}
                              /\ ToSet(b.arr) \cap ToSet(b.pending) = {}
  <1> DEFINE F == FlattenSeq(b.files)
             a == b.arr
             p == b.pending
  <1>1. b.files \in Seq(Seq(Nat)) /\ a \in Seq(Nat) /\ p \in Seq(Nat)
    BY DEF Buffers
  <1>2. F \in Seq(Nat)
    BY <1>1, FlattenType
  <1>3. Contents(b) = Cat(Cat(F, a), p)
    BY DEF Contents, Cat
  <1> HIDE DEF F, a, p
  <1>4. Cat(F, a) \in Seq(Nat) /\ Cat(Cat(F, a), p) \in Seq(Nat)
    BY <1>1, <1>2, CatTyped
  <1>5. ToSet(Cat(F, a)) = ToSet(F) \cup ToSet(a)
    BY <1>1, <1>2, CatSet
  <1>6. ToSet(Cat(Cat(F, a), p)) = ToSet(Cat(F, a)) \cup ToSet(p)
    BY <1>1, <1>4, CatSet
  <1>7. IsInjective(Cat(F, a)) <=> IsInjective(F) /\ IsInjective(a) /\ ToSet(F) \cap ToSet(a) = {}
    BY <1>1, <1>2, CatInjective
  <1>8. IsInjective(Cat(Cat(F, a), p)) <=>
            IsInjective(Cat(F, a)) /\ IsInjective(p) /\ ToSet(Cat(F, a)) \cap ToSet(p) = {}
    BY <1>1, <1>4, CatInjective
  <1>9. Once(b) <=> IsInjective(Cat(Cat(F, a), p))
    BY <1>3 DEF Once
  <1>10. ToSet(Contents(b)) = ToSet(F) \cup ToSet(a) \cup ToSet(p)
    BY <1>3, <1>5, <1>6
  <1>11. Once(b) <=> /\ IsInjective(F) /\ IsInjective(a) /\ IsInjective(p)
                     /\ ToSet(F) \cap ToSet(a) = {}
                     /\ ToSet(F) \cap ToSet(p) = {}
                     /\ ToSet(a) \cap ToSet(p) = {}
    BY <1>5, <1>7, <1>8, <1>9, Zenon
  <1> QED
    BY <1>1, <1>2, <1>3, <1>4, <1>10, <1>11 DEF F, a, p

LEMMA MergeKeeps ==
    ASSUME NEW b \in Buffers
    PROVE  HoldsTheSame(b, Merge(b)) /\ InRam(Merge(b)) = InRam(b) /\ Merge(b).pending = <<>>
           /\ Merge(b).files = b.files /\ Len(Merge(b).arr) = InRam(b)
  <1> DEFINE F == FlattenSeq(b.files)
             a == b.arr
             p == b.pending
             c == Merge(b)
  <1>1. /\ b.files \in Seq(Seq(Nat)) /\ a \in Seq(Nat) /\ p \in Seq(Nat) /\ F \in Seq(Nat)
        /\ ToSet(Contents(b)) = ToSet(F) \cup ToSet(a) \cup ToSet(p)
        /\ Once(b) <=> /\ IsInjective(F) /\ IsInjective(a) /\ IsInjective(p)
                       /\ ToSet(F) \cap ToSet(a) = {} /\ ToSet(F) \cap ToSet(p) = {}
                       /\ ToSet(a) \cap ToSet(p) = {}
    BY ContentsAre
  <1>2. c.files = b.files /\ c.arr = Cat(a, p) /\ c.pending = <<>> /\ c \in Buffers
    <2>1. Cat(a, p) \in Seq(Nat) /\ <<>> \in Seq(Nat)
      BY <1>1, CatTyped
    <2>2. c = [b EXCEPT !.arr = Cat(a, p), !.pending = <<>>]
      BY DEF Merge, Cat
    <2> HIDE DEF a, p, c
    <2> QED
      BY <2>1, <2>2 DEF Buffers
  <1> HIDE DEF c
  <1>3. /\ ToSet(Contents(c)) = ToSet(F) \cup ToSet(Cat(a, p)) \cup ToSet(<<>>)
        /\ Once(c) <=> /\ IsInjective(F) /\ IsInjective(Cat(a, p)) /\ IsInjective(<<>>)
                       /\ ToSet(F) \cap ToSet(Cat(a, p)) = {} /\ ToSet(F) \cap ToSet(<<>>) = {}
                       /\ ToSet(Cat(a, p)) \cap ToSet(<<>>) = {}
    BY <1>2, ContentsAre
  <1>4. ToSet(<<>>) = {} /\ IsInjective(<<>>)
    BY DEF ToSet, IsInjective
  <1>5. Len(c.arr) = Len(a) + Len(p) /\ Len(a) \in Nat /\ Len(p) \in Nat
    BY <1>1, <1>2 DEF Cat
  <1>6. InRam(c) = InRam(b) /\ Len(c.arr) = InRam(b)
    BY <1>2, <1>5 DEF InRam
  <1> HIDE DEF F, a, p
  <1>7. /\ ToSet(Cat(a, p)) = ToSet(a) \cup ToSet(p)
        /\ IsInjective(Cat(a, p)) <=> IsInjective(a) /\ IsInjective(p) /\ ToSet(a) \cap ToSet(p) = {}
    BY <1>1, CatSet, CatInjective
  <1>8. ToSet(Contents(c)) = ToSet(Contents(b)) /\ (Once(b) => Once(c))
    BY <1>1, <1>3, <1>4, <1>7, Zenon
  <1>9. NoEmptyFile(b) => NoEmptyFile(c)
    BY <1>2 DEF NoEmptyFile
  <1> QED
    BY <1>2, <1>6, <1>8, <1>9 DEF HoldsTheSame, c

LEMMA SpillKeeps ==
    ASSUME NEW b \in Buffers, b.pending = <<>>, NEW n \in 1 .. Len(b.arr)
    PROVE  HoldsTheSame(b, Spill(b, n)) /\ InRam(Spill(b, n)) = Len(b.arr) - n
  <1> DEFINE fs == b.files
             F == FlattenSeq(b.files)
             x == SubSeq(b.arr, 1, n)
             y == SubSeq(b.arr, n + 1, Len(b.arr))
             c == Spill(b, n)
  <1>1. /\ fs \in Seq(Seq(Nat)) /\ b.arr \in Seq(Nat) /\ F \in Seq(Nat)
        /\ ToSet(Contents(b)) = ToSet(F) \cup ToSet(b.arr) \cup ToSet(b.pending)
        /\ Once(b) <=> /\ IsInjective(F) /\ IsInjective(b.arr) /\ IsInjective(b.pending)
                       /\ ToSet(F) \cap ToSet(b.arr) = {} /\ ToSet(F) \cap ToSet(b.pending) = {}
                       /\ ToSet(b.arr) \cap ToSet(b.pending) = {}
    BY ContentsAre
  <1>2. n \in 0 .. Len(b.arr)
    BY <1>1
  <1>3. x \in Seq(Nat) /\ y \in Seq(Nat) /\ b.arr = Cat(x, y) /\ Len(x) = n /\ Len(y) = Len(b.arr) - n
    BY <1>1, <1>2, CutInTwo
  <1>4. c.files = Append(fs, x) /\ c.arr = y /\ c.pending = b.pending /\ c \in Buffers
    <2>1. c = [b EXCEPT !.files = Append(fs, x), !.arr = y]
      BY DEF Spill, Drop
    <2>2. Append(fs, x) \in Seq(Seq(Nat))
      BY <1>1, <1>3
    <2> HIDE DEF c, x, y, fs
    <2> QED
      BY <1>3, <2>1, <2>2 DEF Buffers
  <1>5. InRam(c) = Len(b.arr) - n
    <2>1. Len(y) \in Nat /\ Len(c.pending) = 0
      BY <1>3, <1>4
    <2> HIDE DEF c, y
    <2> QED
      BY <1>3, <1>4, <2>1 DEF InRam
  <1>6. NoEmptyFile(b) => NoEmptyFile(c)
    <2>1. x # <<>>
      BY <1>3
    <2>2. Len(Append(fs, x)) = Len(fs) + 1 /\ Len(fs) \in Nat
          /\ \A i \in 1 .. Len(fs) + 1 : Append(fs, x)[i] = IF i = Len(fs) + 1 THEN x ELSE fs[i]
      <3> HIDE DEF fs, x
      <3> QED
        BY <1>1, <1>3, AppendAt
    <2> HIDE DEF c, x
    <2> QED
      BY <1>4, <2>1, <2>2 DEF NoEmptyFile
  <1> HIDE DEF c
  <1>7. FlattenSeq(Append(fs, x)) = Cat(F, x)
    BY <1>1, <1>3, FlattenAppend DEF Cat
  <1>8. /\ ToSet(Contents(c)) = ToSet(Cat(F, x)) \cup ToSet(y) \cup ToSet(b.pending)
        /\ Once(c) <=> /\ IsInjective(Cat(F, x)) /\ IsInjective(y) /\ IsInjective(b.pending)
                       /\ ToSet(Cat(F, x)) \cap ToSet(y) = {}
                       /\ ToSet(Cat(F, x)) \cap ToSet(b.pending) = {}
                       /\ ToSet(y) \cap ToSet(b.pending) = {}
    BY <1>4, <1>7, ContentsAre
  <1> HIDE DEF F, x, y, fs
  <1>9. /\ ToSet(Cat(F, x)) = ToSet(F) \cup ToSet(x)
        /\ IsInjective(Cat(F, x)) <=> IsInjective(F) /\ IsInjective(x) /\ ToSet(F) \cap ToSet(x) = {}
    BY <1>1, <1>3, CatSet, CatInjective
  <1>10. /\ ToSet(b.arr) = ToSet(x) \cup ToSet(y)
         /\ IsInjective(b.arr) <=> IsInjective(x) /\ IsInjective(y) /\ ToSet(x) \cap ToSet(y) = {}
    BY <1>3, CatSet, CatInjective
  <1>11. ToSet(Contents(c)) = ToSet(Contents(b))
    BY <1>1, <1>8, <1>9, <1>10
  <1>12. Once(b) => Once(c)
    BY <1>1, <1>8, <1>9, <1>10, Zenon
  <1> QED
    BY <1>4, <1>5, <1>6, <1>11, <1>12 DEF HoldsTheSame, c

LEMMA ReloadKeeps ==
    ASSUME NEW b \in Buffers, NEW k \in 0 .. Len(b.files)
    PROVE  HoldsTheSame(b, Reload(b, k)) /\ Reload(b, k).pending = b.pending
  <1>1. CASE k = 0
    BY <1>1 DEF Reload, HoldsTheSame
  <1>2. CASE k # 0
    <2> DEFINE fs == SubSeq(b.files, 1, k)
               gs == SubSeq(b.files, k + 1, Len(b.files))
               F == FlattenSeq(fs)
               G == FlattenSeq(gs)
               at == Bisect(b.arr, F[1], FALSE)
               x == SubSeq(b.arr, 1, at)
               y == SubSeq(b.arr, at + 1, Len(b.arr))
               p == b.pending
               c == Reload(b, k)
    <2>1. /\ b.files \in Seq(Seq(Nat)) /\ b.arr \in Seq(Nat) /\ p \in Seq(Nat)
          /\ ToSet(Contents(b)) = ToSet(FlattenSeq(b.files)) \cup ToSet(b.arr) \cup ToSet(p)
          /\ Once(b) <=> /\ IsInjective(FlattenSeq(b.files)) /\ IsInjective(b.arr) /\ IsInjective(p)
                         /\ ToSet(FlattenSeq(b.files)) \cap ToSet(b.arr) = {}
                         /\ ToSet(FlattenSeq(b.files)) \cap ToSet(p) = {}
                         /\ ToSet(b.arr) \cap ToSet(p) = {}
      BY ContentsAre
    <2>2. /\ fs \in Seq(Seq(Nat)) /\ gs \in Seq(Seq(Nat)) /\ b.files = Cat(fs, gs)
          /\ Len(gs) = Len(b.files) - k
      BY <2>1, CutInTwo
    <2>3. F \in Seq(Nat) /\ G \in Seq(Nat)
      BY <2>2, FlattenType
    <2>4. FlattenSeq(b.files) = Cat(F, G)
      BY <2>2, FlattenCat DEF Cat
    <2>5. at \in 0 .. Len(b.arr)
      BY <2>1, BisectInside
    <2> HIDE DEF at
    <2>6. x \in Seq(Nat) /\ y \in Seq(Nat) /\ b.arr = Cat(x, y)
      BY <2>1, <2>5, CutInTwo
    <2>7. c = [b EXCEPT !.files = gs, !.arr = Cat(Cat(x, F), y)]
      BY <1>2 DEF Reload, Drop, Cat, at
    <2>8. Cat(x, F) \in Seq(Nat) /\ Cat(Cat(x, F), y) \in Seq(Nat)
      <3> HIDE DEF x, y, F
      <3> QED
        BY <2>3, <2>6, CatTyped
    <2>9. NoEmptyFile(b) => \A i \in 1 .. Len(gs) : gs[i] # <<>>
      <3>1. \A i \in 1 .. Len(gs) : gs[i] = b.files[k + i] /\ k + i \in 1 .. Len(b.files)
        BY <2>1, <2>2
      <3> QED
        BY <3>1 DEF NoEmptyFile
    <2> HIDE DEF c, fs, gs, x, y, F, G, p
    <2>10. c.files = gs /\ c.arr = Cat(Cat(x, F), y) /\ c.pending = p /\ c \in Buffers
      BY <2>2, <2>7, <2>8 DEF Buffers, p
    <2>11. /\ ToSet(Contents(c)) = ToSet(G) \cup ToSet(Cat(Cat(x, F), y)) \cup ToSet(p)
           /\ Once(c) <=> /\ IsInjective(G) /\ IsInjective(Cat(Cat(x, F), y)) /\ IsInjective(p)
                          /\ ToSet(G) \cap ToSet(Cat(Cat(x, F), y)) = {}
                          /\ ToSet(G) \cap ToSet(p) = {}
                          /\ ToSet(Cat(Cat(x, F), y)) \cap ToSet(p) = {}
      BY <2>10, ContentsAre DEF G
    <2>12. /\ ToSet(Cat(F, G)) = ToSet(F) \cup ToSet(G)
           /\ IsInjective(Cat(F, G)) <=> IsInjective(F) /\ IsInjective(G) /\ ToSet(F) \cap ToSet(G) = {}
      BY <2>3, CatSet, CatInjective
    <2>13. /\ ToSet(b.arr) = ToSet(x) \cup ToSet(y)
           /\ IsInjective(b.arr) <=> IsInjective(x) /\ IsInjective(y) /\ ToSet(x) \cap ToSet(y) = {}
      BY <2>6, CatSet, CatInjective
    <2>14. /\ ToSet(Cat(x, F)) = ToSet(x) \cup ToSet(F)
           /\ IsInjective(Cat(x, F)) <=> IsInjective(x) /\ IsInjective(F) /\ ToSet(x) \cap ToSet(F) = {}
      BY <2>3, <2>6, CatSet, CatInjective
    <2>15. /\ ToSet(Cat(Cat(x, F), y)) = ToSet(Cat(x, F)) \cup ToSet(y)
           /\ IsInjective(Cat(Cat(x, F), y)) <=>
                  IsInjective(Cat(x, F)) /\ IsInjective(y) /\ ToSet(Cat(x, F)) \cap ToSet(y) = {}
      BY <2>6, <2>8, CatSet, CatInjective
    <2>16. ToSet(Contents(c)) = ToSet(Contents(b))
      BY <2>1, <2>4, <2>11, <2>12, <2>13, <2>14, <2>15
    <2>17. Once(b) => Once(c)
      <3>1. ToSet(Cat(Cat(x, F), y)) = ToSet(x) \cup ToSet(F) \cup ToSet(y)
        BY <2>14, <2>15
      <3>2. SUFFICES ASSUME Once(b) PROVE Once(c)
        OBVIOUS
      <3>3. /\ IsInjective(F) /\ IsInjective(G) /\ IsInjective(x) /\ IsInjective(y) /\ IsInjective(p)
            /\ ToSet(F) \cap ToSet(G) = {} /\ ToSet(x) \cap ToSet(y) = {}
            /\ ToSet(F) \cap ToSet(x) = {} /\ ToSet(F) \cap ToSet(y) = {}
            /\ ToSet(G) \cap ToSet(x) = {} /\ ToSet(G) \cap ToSet(y) = {}
            /\ ToSet(F) \cap ToSet(p) = {} /\ ToSet(G) \cap ToSet(p) = {}
            /\ ToSet(x) \cap ToSet(p) = {} /\ ToSet(y) \cap ToSet(p) = {}
        BY <2>1, <2>4, <2>12, <2>13, <3>2
      <3> QED
        BY <2>11, <2>14, <2>15, <3>1, <3>3
    <2>18. NoEmptyFile(b) => NoEmptyFile(c)
      BY <2>9, <2>10 DEF NoEmptyFile
    <2> QED
      BY <2>10, <2>16, <2>17, <2>18 DEF HoldsTheSame, c, p
  <1> QED
    BY <1>1, <1>2

LEMMA Transitive ==
    ASSUME NEW b, NEW c, NEW d, HoldsTheSame(b, c), HoldsTheSame(c, d) PROVE HoldsTheSame(b, d)
  BY DEF HoldsTheSame

\* The first n events of RAM leave the buffer.
LEMMA DropLeaves ==
    ASSUME NEW b \in Buffers, NEW n \in 0 .. Len(b.arr)
    PROVE  LET c == [b EXCEPT !.arr = Drop(@, n)]
               out == ToSet(SubSeq(b.arr, 1, n))
           IN  /\ c \in Buffers /\ c.pending = b.pending
               /\ ToSet(Contents(b)) = ToSet(Contents(c)) \cup out
               /\ Once(b) => Once(c) /\ ToSet(Contents(c)) \cap out = {}
               /\ NoEmptyFile(b) => NoEmptyFile(c)
               /\ n = 0 => c = b
  <1> DEFINE F == FlattenSeq(b.files)
             x == SubSeq(b.arr, 1, n)
             y == SubSeq(b.arr, n + 1, Len(b.arr))
             c == [b EXCEPT !.arr = Drop(@, n)]
  <1>1. /\ F \in Seq(Nat) /\ b.arr \in Seq(Nat)
        /\ ToSet(Contents(b)) = ToSet(F) \cup ToSet(b.arr) \cup ToSet(b.pending)
        /\ Once(b) <=> /\ IsInjective(F) /\ IsInjective(b.arr) /\ IsInjective(b.pending)
                       /\ ToSet(F) \cap ToSet(b.arr) = {} /\ ToSet(F) \cap ToSet(b.pending) = {}
                       /\ ToSet(b.arr) \cap ToSet(b.pending) = {}
    BY ContentsAre
  <1>2. x \in Seq(Nat) /\ y \in Seq(Nat) /\ b.arr = Cat(x, y) /\ Len(x) = n
    BY <1>1, CutInTwo
  <1>3. c = [b EXCEPT !.arr = y]
    BY DEF Drop
  <1>4. n = 0 => y = b.arr
    <2>1. n = 0 => x = <<>>
      BY <1>2
    <2> HIDE DEF x, y
    <2>2. Cat(<<>>, y) = y
      BY <1>2, CatEmpty
    <2> QED
      BY <1>2, <2>1, <2>2
  <1> HIDE DEF x, y, c
  <1>5. c.files = b.files /\ c.arr = y /\ c.pending = b.pending /\ c \in Buffers
    BY <1>2, <1>3 DEF Buffers
  <1>6. n = 0 => c = b
    BY <1>3, <1>4 DEF Buffers
  <1>7. /\ ToSet(Contents(c)) = ToSet(F) \cup ToSet(y) \cup ToSet(b.pending)
        /\ Once(c) <=> /\ IsInjective(F) /\ IsInjective(y) /\ IsInjective(b.pending)
                       /\ ToSet(F) \cap ToSet(y) = {} /\ ToSet(F) \cap ToSet(b.pending) = {}
                       /\ ToSet(y) \cap ToSet(b.pending) = {}
    BY <1>5, ContentsAre
  <1>8. /\ ToSet(b.arr) = ToSet(x) \cup ToSet(y)
        /\ IsInjective(b.arr) <=> IsInjective(x) /\ IsInjective(y) /\ ToSet(x) \cap ToSet(y) = {}
    BY <1>2, CatSet, CatInjective
  <1> HIDE DEF F
  <1>9. ToSet(Contents(b)) = ToSet(Contents(c)) \cup ToSet(x)
    BY <1>1, <1>7, <1>8
  <1>10. Once(b) => Once(c) /\ ToSet(Contents(c)) \cap ToSet(x) = {}
    BY <1>1, <1>7, <1>8
  <1>11. NoEmptyFile(b) => NoEmptyFile(c)
    BY <1>5 DEF NoEmptyFile
  <1> QED
    BY <1>5, <1>6, <1>9, <1>10, <1>11 DEF c, x

\* Spilled events are thrown away.
LEMMA DiscardLeaves ==
    ASSUME NEW b \in Buffers
    PROVE  Discard(b) \in Buffers /\ ToSet(Contents(Discard(b))) \subseteq ToSet(Contents(b))
           /\ NoEmptyFile(Discard(b))
  <1> DEFINE c == Discard(b)
  <1>1. <<>> \in Seq(Seq(Nat)) /\ c = [b EXCEPT !.files = <<>>]
    BY DEF Discard
  <1> HIDE DEF c
  <1>2. c \in Buffers /\ c.files = <<>> /\ c.arr = b.arr /\ c.pending = b.pending
    BY <1>1 DEF Buffers
  <1>3. ToSet(Contents(c)) = ToSet(FlattenSeq(<<>>)) \cup ToSet(b.arr) \cup ToSet(b.pending)
    BY <1>2, ContentsAre
  <1>4. ToSet(Contents(b)) = ToSet(FlattenSeq(b.files)) \cup ToSet(b.arr) \cup ToSet(b.pending)
    BY ContentsAre
  <1>5. ToSet(FlattenSeq(<<>>)) = {}
    BY FlattenEmpty DEF ToSet
  <1>6. NoEmptyFile(c)
    BY <1>2 DEF NoEmptyFile
  <1> QED
    BY <1>2, <1>3, <1>4, <1>5, <1>6 DEF c

\* A drained event joins the pending ones.
LEMMA DrainAdds ==
    ASSUME NEW b \in Buffers, NEW t \in Nat
    PROVE  LET c == [b EXCEPT !.pending = Append(@, t)]
           IN  /\ c \in Buffers /\ ToSet(Contents(c)) = ToSet(Contents(b)) \cup {t}
               /\ Once(b) /\ t \notin ToSet(Contents(b)) => Once(c)
               /\ NoEmptyFile(b) => NoEmptyFile(c)
  <1> DEFINE F == FlattenSeq(b.files)
             p == b.pending
             one == <<t>>
             c == [b EXCEPT !.pending = Append(@, t)]
  <1>1. /\ F \in Seq(Nat) /\ b.arr \in Seq(Nat) /\ p \in Seq(Nat)
        /\ ToSet(Contents(b)) = ToSet(F) \cup ToSet(b.arr) \cup ToSet(p)
        /\ Once(b) <=> /\ IsInjective(F) /\ IsInjective(b.arr) /\ IsInjective(p)
                       /\ ToSet(F) \cap ToSet(b.arr) = {} /\ ToSet(F) \cap ToSet(p) = {}
                       /\ ToSet(b.arr) \cap ToSet(p) = {}
    BY ContentsAre
  <1>2. one \in Seq(Nat) /\ ToSet(one) = {t} /\ IsInjective(one) /\ Append(p, t) = Cat(p, one)
    <2>1. one \in Seq(Nat) /\ DOMAIN one = {1} /\ one[1] = t
      OBVIOUS
    <2>2. Append(p, t) = Cat(p, one)
      BY <1>1 DEF Cat
    <2> QED
      BY <2>1, <2>2 DEF ToSet, IsInjective
  <1>3. c = [b EXCEPT !.pending = Cat(p, one)]
    BY <1>2
  <1> HIDE DEF c, one, F
  <1>4. Cat(p, one) \in Seq(Nat)
    BY <1>1, <1>2, CatTyped
  <1>5. c.files = b.files /\ c.arr = b.arr /\ c.pending = Cat(p, one) /\ c \in Buffers
    BY <1>3, <1>4 DEF Buffers
  <1>6. /\ ToSet(Contents(c)) = ToSet(F) \cup ToSet(b.arr) \cup ToSet(Cat(p, one))
        /\ Once(c) <=> /\ IsInjective(F) /\ IsInjective(b.arr) /\ IsInjective(Cat(p, one))
                       /\ ToSet(F) \cap ToSet(b.arr) = {} /\ ToSet(F) \cap ToSet(Cat(p, one)) = {}
                       /\ ToSet(b.arr) \cap ToSet(Cat(p, one)) = {}
    BY <1>5, ContentsAre DEF F
  <1>7. /\ ToSet(Cat(p, one)) = ToSet(p) \cup ToSet(one)
        /\ IsInjective(Cat(p, one)) <=> IsInjective(p) /\ IsInjective(one) /\ ToSet(p) \cap ToSet(one) = {}
    BY <1>1, <1>2, CatSet, CatInjective
  <1>8. ToSet(Contents(c)) = ToSet(Contents(b)) \cup {t}
    BY <1>1, <1>2, <1>6, <1>7
  <1>9. Once(b) /\ t \notin ToSet(Contents(b)) => Once(c)
    BY <1>1, <1>2, <1>6, <1>7
  <1>10. NoEmptyFile(b) => NoEmptyFile(c)
    BY <1>5 DEF NoEmptyFile
  <1> QED
    BY <1>5, <1>8, <1>9, <1>10 DEF c

-----------------------------------------------------------------------------
\* Buffers in order.
LEMMA ChronologicalIs ==
    ASSUME NEW b \in Buffers PROVE Chronological(b) <=> Sorted(Contents(b))
  <1>1. Contents(b) \in Seq(Nat)
    BY ContentsAre
  <1> QED
    BY <1>1, NeighboursSort DEF Chronological

\* Each part is in order, and the files go before RAM.
LEMMA SortedParts ==
    ASSUME NEW b \in Buffers, Sorted(Contents(b))
    PROVE  /\ Sorted(FlattenSeq(b.files)) /\ Sorted(Cat(b.arr, b.pending)) /\ Sorted(b.arr)
           /\ \A t \in ToSet(FlattenSeq(b.files)), u \in ToSet(Cat(b.arr, b.pending)) : t =< u
  <1> DEFINE F == FlattenSeq(b.files)
             a == b.arr
             p == b.pending
  <1>1. F \in Seq(Nat) /\ a \in Seq(Nat) /\ p \in Seq(Nat) /\ Contents(b) = Cat(Cat(F, a), p)
    BY ContentsAre
  <1> HIDE DEF F, a, p
  <1>2. Cat(a, p) \in Seq(Nat) /\ Cat(Cat(F, a), p) = Cat(F, Cat(a, p))
    BY <1>1, CatTyped, CatGroups
  <1>3. Sorted(Cat(F, Cat(a, p)))
    BY <1>1, <1>2
  <1>4. /\ Sorted(F) /\ Sorted(Cat(a, p))
        /\ \A t \in ToSet(F), u \in ToSet(Cat(a, p)) : t =< u
    BY <1>1, <1>2, <1>3, CatSorted
  <1>5. Sorted(a)
    BY <1>1, <1>4, CatSorted
  <1> QED
    BY <1>4, <1>5 DEF F, a, p

\* merge() and spill() leave the events in the order they were in.
LEMMA MergeOrder == ASSUME NEW b \in Buffers PROVE Contents(Merge(b)) = Contents(b)
  <1> DEFINE F == FlattenSeq(b.files)
             a == b.arr
             p == b.pending
             c == Merge(b)
  <1>1. F \in Seq(Nat) /\ a \in Seq(Nat) /\ p \in Seq(Nat) /\ Contents(b) = Cat(Cat(F, a), p)
    BY ContentsAre
  <1>2. c \in Buffers /\ c.files = b.files /\ c.arr = Cat(a, p) /\ c.pending = <<>>
    <2>1. c = [b EXCEPT !.arr = Cat(a, p), !.pending = <<>>]
      BY DEF Merge, Cat
    <2>2. c \in Buffers
      BY MergeKeeps DEF HoldsTheSame
    <2> HIDE DEF c, a, p
    <2> QED
      BY <2>1, <2>2 DEF Buffers
  <1> HIDE DEF a, p, c
  <1>3. Contents(c) = Cat(Cat(F, Cat(a, p)), <<>>)
    BY <1>2, ContentsAre
  <1> HIDE DEF F
  <1>4. Cat(a, p) \in Seq(Nat)
    BY <1>1, CatTyped
  <1>5. Cat(F, Cat(a, p)) = Cat(Cat(F, a), p) /\ Cat(F, Cat(a, p)) \in Seq(Nat)
    BY <1>1, <1>4, CatTyped, CatGroups
  <1>6. Cat(Cat(F, Cat(a, p)), <<>>) = Cat(F, Cat(a, p))
    BY <1>5, CatEmpty
  <1> QED
    BY <1>1, <1>3, <1>5, <1>6 DEF c

LEMMA SpillOrder ==
    ASSUME NEW b \in Buffers, b.pending = <<>>, NEW n \in 1 .. Len(b.arr)
    PROVE  Contents(Spill(b, n)) = Contents(b)
  <1> DEFINE F == FlattenSeq(b.files)
             x == SubSeq(b.arr, 1, n)
             y == SubSeq(b.arr, n + 1, Len(b.arr))
             c == Spill(b, n)
  <1>1. /\ b.files \in Seq(Seq(Nat)) /\ F \in Seq(Nat) /\ b.arr \in Seq(Nat)
        /\ Contents(b) = Cat(Cat(F, b.arr), <<>>)
    BY ContentsAre
  <1>2. n \in 0 .. Len(b.arr)
    BY <1>1
  <1>3. x \in Seq(Nat) /\ y \in Seq(Nat) /\ b.arr = Cat(x, y)
    BY <1>1, <1>2, CutInTwo
  <1>4. c \in Buffers /\ c.files = Append(b.files, x) /\ c.arr = y /\ c.pending = <<>>
    <2>1. c = [b EXCEPT !.files = Append(@, x), !.arr = y]
      BY DEF Spill, Drop
    <2>2. c \in Buffers
      BY SpillKeeps DEF HoldsTheSame
    <2> HIDE DEF c, x, y
    <2> QED
      BY <2>1, <2>2 DEF Buffers
  <1>5. FlattenSeq(c.files) = Cat(F, x)
    <2> HIDE DEF x, c
    <2> QED
      BY <1>1, <1>3, <1>4, FlattenAppend DEF Cat
  <1> HIDE DEF x, y, c
  <1>6. Contents(c) = Cat(Cat(Cat(F, x), y), <<>>)
    BY <1>4, <1>5, ContentsAre
  <1> HIDE DEF F
  <1>7. Cat(Cat(F, x), y) = Cat(F, Cat(x, y))
    BY <1>1, <1>3, CatGroups
  <1> QED
    BY <1>1, <1>3, <1>6, <1>7 DEF c

LEMMA SpillOverflowOrder ==
    ASSUME NEW b \in Buffers, NEW c PROVE Contents(SpillOverflow(c, b)) = Contents(b)
  <1> DEFINE lags == (IF c \in Px1 THEN partners1(c) ELSE partners2(c)) \cap LaggingNow # {}
             m == Merge(b)
             n == InRam(b) - Chunk
  <1>1. SpillOverflow(c, b) = IF InRam(b) > Chunk /\ lags THEN Spill(m, n) ELSE b
    BY DEF SpillOverflow
  <1>2. CASE InRam(b) > Chunk
    <2>1. m.pending = <<>> /\ Len(m.arr) = InRam(b) /\ m \in Buffers /\ m.arr \in Seq(Nat)
      BY MergeKeeps DEF HoldsTheSame, Buffers
    <2>2. n \in 1 .. Len(m.arr)
      <3>1. InRam(b) \in Nat
        <4> HIDE DEF m
        <4> QED
          BY <2>1
      <3> QED
        BY <1>2, <2>1, <3>1, GraphAssumption
    <2> HIDE DEF m, n
    <2>3. Contents(Spill(m, n)) = Contents(m)
      BY <2>1, <2>2, SpillOrder
    <2>4. Contents(m) = Contents(b)
      BY MergeOrder DEF m
    <2> QED
      BY <1>1, <2>3, <2>4
  <1>3. CASE ~(InRam(b) > Chunk)
    BY <1>1, <1>3
  <1> QED
    BY <1>2, <1>3

\* earliest() is the first event, and in a buffer in order the oldest.
LEMMA EarliestIs ==
    ASSUME NEW b \in Buffers, NoEmptyFile(b)
    PROVE  /\ earliest(b) = None => ToSet(Contents(b)) = {}
           /\ earliest(b) # None => /\ earliest(b) \in ToSet(Contents(b)) /\ earliest(b) \in Nat
                                    /\ Sorted(Contents(b)) =>
                                          \A t \in ToSet(Contents(b)) : earliest(b) =< t
  <1> DEFINE F == FlattenSeq(b.files)
             a == b.arr
             p == b.pending
             s == Contents(b)
  <1>1. /\ b.files \in Seq(Seq(Nat)) /\ F \in Seq(Nat) /\ a \in Seq(Nat) /\ p \in Seq(Nat)
        /\ s = Cat(Cat(F, a), p) /\ s \in Seq(Nat)
        /\ ToSet(s) = ToSet(F) \cup ToSet(a) \cup ToSet(p)
    BY ContentsAre
  <1>2. ASSUME s # <<>>, earliest(b) = s[1]
        PROVE  /\ earliest(b) \in ToSet(s) /\ earliest(b) \in Nat
               /\ Sorted(s) => \A t \in ToSet(s) : earliest(b) =< t
    <2> HIDE DEF s
    <2>1. 1 \in 1 .. Len(s) /\ ToSet(s) = {s[i] : i \in 1 .. Len(s)} /\ \A i \in 1 .. Len(s) : 1 =< i
      BY <1>1, <1>2 DEF ToSet
    <2>2. s[1] \in Nat /\ s[1] \in ToSet(s)
      BY <1>1, <2>1
    <2>3. Sorted(s) => \A t \in ToSet(s) : s[1] =< t
      BY <2>1 DEF Sorted
    <2> QED
      BY <1>2, <2>2, <2>3
  <1>3. \A x, y \in Seq(Nat) : x # <<>> => Cat(x, y) # <<>> /\ Cat(x, y)[1] = x[1]
    BY DEF Cat
  <1>4. \A t : t \in Nat => t # None
    BY DEF None
  <1>5. \A x \in Seq(Nat) : x # <<>> => x[1] \in Nat
    OBVIOUS
  <1>6. \A y \in Seq(Nat) : Cat(<<>>, y) = y /\ Cat(y, <<>>) = y
    BY CatEmpty
  <1>7. CASE b.files # <<>>
    <2> DEFINE h == Head(b.files)
               r == FlattenSeq(Tail(b.files))
    <2>1. h = b.files[1] /\ h \in Seq(Nat) /\ h # <<>> /\ r \in Seq(Nat)
      <3>1. 1 \in 1 .. Len(b.files) /\ Tail(b.files) \in Seq(Seq(Nat)) /\ h = b.files[1] /\ h \in Seq(Nat)
        BY <1>1, <1>7
      <3> QED
        BY <3>1, FlattenType DEF NoEmptyFile
    <2>2. F = Cat(h, r)
      BY <1>1, <1>7, FlattenHead DEF Cat
    <2>3. earliest(b) = h[1]
      BY <1>7, <2>1 DEF earliest
    <2> HIDE DEF h, r, F, a, p, s
    <2>4. F # <<>> /\ F[1] = h[1]
      BY <1>3, <2>1, <2>2
    <2>5. Cat(F, a) \in Seq(Nat) /\ Cat(F, a) # <<>> /\ Cat(F, a)[1] = h[1]
      BY <1>1, <1>3, <2>4, CatTyped
    <2>6. s # <<>> /\ s[1] = h[1]
      BY <1>1, <1>3, <2>5
    <2>7. earliest(b) # None
      BY <1>4, <1>5, <2>1, <2>3
    <2> QED
      BY <1>2, <2>3, <2>6, <2>7 DEF s
  <1>8. CASE b.files = <<>>
    <2>1. F = <<>>
      BY <1>8, FlattenEmpty
    <2>2. earliest(b) = IF a # <<>> THEN a[1] ELSE IF p # <<>> THEN p[1] ELSE None
      BY <1>8 DEF earliest
    <2> HIDE DEF F, a, p, s
    <2>3. s = Cat(a, p)
      BY <1>1, <1>6, <2>1
    <2>4. CASE a # <<>>
      <3>1. s # <<>> /\ s[1] = a[1]
        BY <1>1, <1>3, <2>3, <2>4
      <3>2. earliest(b) = s[1] /\ earliest(b) # None
        BY <1>1, <1>4, <1>5, <2>2, <2>4, <3>1
      <3> QED
        BY <1>2, <3>1, <3>2 DEF s
    <2>5. CASE a = <<>> /\ p # <<>>
      <3>1. s = p
        BY <1>1, <1>6, <2>3, <2>5
      <3>2. earliest(b) = s[1] /\ earliest(b) # None
        BY <1>1, <1>4, <1>5, <2>2, <2>5, <3>1
      <3> QED
        BY <1>2, <2>5, <3>1, <3>2 DEF s
    <2>6. CASE a = <<>> /\ p = <<>>
      <3>1. s = <<>> /\ earliest(b) = None
        BY <1>6, <1>1, <2>2, <2>3, <2>6
      <3>2. ToSet(<<>>) = {}
        BY DEF ToSet
      <3> QED
        BY <3>1, <3>2 DEF s
    <2> QED
      BY <2>4, <2>5, <2>6
  <1> QED
    BY <1>7, <1>8

-----------------------------------------------------------------------------
\* reload_up_to() of a buffer in order puts the files before all of RAM.
LEMMA ReloadOrder ==
    ASSUME NEW b \in Buffers, Sorted(Contents(b)), NoEmptyFile(b), NEW k \in 0 .. Len(b.files)
    PROVE  LET c == Reload(b, k)
           IN  /\ c \in Buffers /\ Sorted(Cat(c.arr, c.pending)) /\ Sorted(c.arr)
               /\ k = Len(b.files) => c.files = <<>>
  <1> DEFINE c == Reload(b, k)
             p == b.pending
  <1>1. /\ b.files \in Seq(Seq(Nat)) /\ b.arr \in Seq(Nat) /\ p \in Seq(Nat)
        /\ FlattenSeq(b.files) \in Seq(Nat)
    BY ContentsAre
  <1>2. /\ Sorted(FlattenSeq(b.files)) /\ Sorted(Cat(b.arr, p)) /\ Sorted(b.arr)
        /\ \A t \in ToSet(FlattenSeq(b.files)), u \in ToSet(Cat(b.arr, p)) : t =< u
    BY SortedParts
  <1>3. c \in Buffers /\ c.pending = p
    BY ReloadKeeps DEF HoldsTheSame
  <1>4. CASE k = 0
    <2>1. c = b
      BY <1>4 DEF Reload
    <2>2. k = Len(b.files) => b.files = <<>>
      BY <1>1, <1>4
    <2> QED
      BY <1>2, <2>1, <2>2
  <1>5. CASE k # 0
    <2> DEFINE fs == SubSeq(b.files, 1, k)
               gs == SubSeq(b.files, k + 1, Len(b.files))
               F == FlattenSeq(fs)
               G == FlattenSeq(gs)
               at == Bisect(b.arr, F[1], FALSE)
    <2>1. /\ fs \in Seq(Seq(Nat)) /\ gs \in Seq(Seq(Nat)) /\ b.files = Cat(fs, gs) /\ Len(fs) = k
          /\ Len(gs) = Len(b.files) - k
      BY <1>1, CutInTwo
    <2>2. F \in Seq(Nat) /\ G \in Seq(Nat) /\ FlattenSeq(b.files) = Cat(F, G)
      BY <2>1, FlattenType, FlattenCat DEF Cat
    <2>3. F # <<>>
      <3> DEFINE h == Head(fs)
                 r == FlattenSeq(Tail(fs))
      <3>1. fs # <<>> /\ Tail(fs) \in Seq(Seq(Nat)) /\ h = fs[1] /\ h \in Seq(Nat)
        <4> HIDE DEF fs
        <4> QED
          BY <1>5, <2>1
      <3>2. fs[1] = b.files[1] /\ b.files[1] # <<>>
        <4>1. 1 \in 1 .. k /\ 1 \in 1 .. Len(b.files)
          BY <1>1, <1>5
        <4> QED
          BY <1>1, <4>1 DEF NoEmptyFile
      <3>3. F = Cat(h, r) /\ r \in Seq(Nat)
        <4> HIDE DEF fs
        <4> QED
          BY <2>1, <3>1, FlattenHead, FlattenType DEF Cat
      <3> HIDE DEF h, r, F, fs
      <3> QED
        BY <3>1, <3>2, <3>3 DEF Cat
    <2>4. F[1] \in Nat /\ F[1] \in ToSet(F)
      <3> HIDE DEF F
      <3>1. 1 \in 1 .. Len(F) /\ DOMAIN F = 1 .. Len(F)
        BY <2>2, <2>3
      <3> QED
        BY <2>2, <3>1 DEF ToSet
    <2> HIDE DEF F, G, fs
    <2>5. Sorted(F) /\ ToSet(F) \subseteq ToSet(FlattenSeq(b.files))
      BY <1>2, <2>2, CatSorted, CatSet
    <2>6. ToSet(b.arr) \subseteq ToSet(Cat(b.arr, p))
      BY <1>1, CatSet
    <2>7. at = 0
      <3>1. at \in 0 .. Len(b.arr) /\ (at = 0 \/ Above(b.arr, F[1], FALSE, at - 1))
        BY <1>1, BisectFinds
      <3> HIDE DEF at
      <3>2. SUFFICES ASSUME at # 0 PROVE FALSE
        OBVIOUS
      <3>3. at \in 1 .. Len(b.arr) /\ (at - 1) + 1 = at
        BY <1>1, <3>1, <3>2
      <3>4. b.arr[at] < F[1]
        BY <3>1, <3>2, <3>3 DEF Above
      <3>5. b.arr[at] \in Nat /\ b.arr[at] \in ToSet(b.arr)
        BY <1>1, <3>3 DEF ToSet
      <3>6. F[1] =< b.arr[at]
        BY <1>2, <2>4, <2>5, <2>6, <3>5
      <3> QED
        BY <2>4, <3>4, <3>5, <3>6
    <2>8. c.files = gs /\ c.arr = Cat(F, b.arr)
      <3>1. c = [b EXCEPT !.files = gs, !.arr = SubSeq(b.arr, 1, 0) \o F \o SubSeq(b.arr, 1, Len(b.arr))]
        <4>1. c = [b EXCEPT !.files = gs, !.arr = SubSeq(b.arr, 1, at) \o F \o SubSeq(b.arr, at + 1, Len(b.arr))]
          BY <1>5 DEF Reload, Drop, F, fs
        <4> HIDE DEF at, c, gs
        <4> QED
          BY <2>7, <4>1
      <3>2. SubSeq(b.arr, 1, 0) = <<>> /\ SubSeq(b.arr, 1, Len(b.arr)) = b.arr
        BY <1>1
      <3>3. SubSeq(b.arr, 1, 0) \o F \o SubSeq(b.arr, 1, Len(b.arr)) = Cat(F, b.arr)
        BY <1>1, <2>2, <3>2, Joining DEF Cat
      <3>4. c = [b EXCEPT !.files = gs, !.arr = Cat(F, b.arr)]
        BY <3>1, <3>3
      <3> HIDE DEF c, gs
      <3> QED
        BY <3>4 DEF Buffers
    <2>9. k = Len(b.files) => gs = <<>>
      <3> HIDE DEF gs
      <3> QED
        BY <1>1, <2>1
    <2> HIDE DEF c, gs, p
    <2>10. Cat(Cat(F, b.arr), p) = Cat(F, Cat(b.arr, p)) /\ Cat(b.arr, p) \in Seq(Nat)
           /\ Cat(F, b.arr) \in Seq(Nat)
      <3>1. F \in Seq(Nat) /\ b.arr \in Seq(Nat) /\ p \in Seq(Nat)
        BY <1>1, <2>2
      <3>2. Cat(b.arr, p) \in Seq(Nat) /\ Cat(F, b.arr) \in Seq(Nat)
        BY <3>1, CatTyped
      <3> QED
        BY <3>1, <3>2, CatGroups
    <2>11. Sorted(Cat(F, Cat(b.arr, p)))
      BY <1>2, <2>2, <2>5, <2>10, CatSorted
    <2>12. Sorted(Cat(F, b.arr))
      BY <1>1, <2>10, <2>11, CatSorted
    <2> QED
      BY <1>3, <2>8, <2>9, <2>10, <2>11, <2>12 DEF c
  <1> QED
    BY <1>4, <1>5

LEMMA DrainOrder ==
    ASSUME NEW b \in Buffers, NEW t \in Nat
    PROVE  Contents([b EXCEPT !.pending = Append(@, t)]) = Cat(Contents(b), <<t>>)
  <1> DEFINE F == FlattenSeq(b.files)
             a == b.arr
             p == b.pending
             one == <<t>>
             c == [b EXCEPT !.pending = Append(@, t)]
  <1>1. F \in Seq(Nat) /\ a \in Seq(Nat) /\ p \in Seq(Nat) /\ Contents(b) = Cat(Cat(F, a), p)
    BY ContentsAre
  <1>2. one \in Seq(Nat) /\ Append(p, t) = Cat(p, one)
    <2>1. one \in Seq(Nat)
      OBVIOUS
    <2>2. p \o one = Append(p, t)
      <3>1. p \in Seq(Nat)
        BY <1>1
      <3> HIDE DEF p
      <3> QED
        BY <3>1
    <2> QED
      BY <2>1, <2>2 DEF Cat
  <1>3. c \in Buffers /\ c.files = b.files /\ c.arr = a /\ c.pending = Cat(p, one)
    <2>1. c \in Buffers
      BY DrainAdds
    <2> QED
      BY <1>2, <2>1 DEF Buffers
  <1> HIDE DEF c, one, p, a
  <1>4. Contents(c) = Cat(Cat(F, a), Cat(p, one))
    BY <1>3, ContentsAre
  <1> HIDE DEF F
  <1>5. Cat(F, a) \in Seq(Nat)
    BY <1>1, CatTyped
  <1>6. Cat(Cat(F, a), Cat(p, one)) = Cat(Cat(Cat(F, a), p), one)
    BY <1>1, <1>2, <1>5, CatGroups
  <1> QED
    BY <1>1, <1>4, <1>6 DEF c, one

\* _reload_ready_spills brings back some of the files, or none.
LEMMA ReadyIs ==
    ASSUME NEW b \in Buffers, NEW p1
    PROVE  \E k \in 0 .. Len(b.files) : ReloadReady(p1, b) = Reload(b, k)
  <1>1. Len(b.files) \in Nat
    BY ContentsAre
  <1>2. FilesOfChunk(b) \in 0 .. Len(b.files)
    <2> DEFINE K == {k \in 0 .. Len(b.files) :
                        \A i \in 2 .. k : Len(FlattenSeq(SubSeq(b.files, 1, i - 1))) < Chunk}
    <2>1. 0 \in K
      BY <1>1
    <2>2. Max(K) \in K
      <3> K \in SUBSET (0 .. Len(b.files)) /\ K # {}
        BY <2>1
      <3> HIDE DEF K
      <3> QED
        BY <1>1, GreatestIn
    <2> QED
      BY <2>2 DEF FilesOfChunk
  <1>3. FilesUpTo(b, Limit(p1)) \in 0 .. Len(b.files)
    <2> DEFINE K == {k \in 0 .. Len(b.files) : \A i \in 1 .. k : Last(b.files[i]) =< Limit(p1)}
    <2>1. 0 \in K
      BY <1>1
    <2>2. Max(K) \in K
      <3> K \in SUBSET (0 .. Len(b.files)) /\ K # {}
        BY <2>1
      <3> HIDE DEF K
      <3> QED
        BY <1>1, GreatestIn
    <2> QED
      BY <2>2 DEF FilesUpTo
  <1>4. b = Reload(b, 0) /\ 0 \in 0 .. Len(b.files)
    BY <1>1 DEF Reload
  <1>5. ReloadReady(p1, b) \in {Reload(b, FilesOfChunk(b)), Reload(b, FilesUpTo(b, Limit(p1))), b}
    BY DEF ReloadReady
  <1> QED
    BY <1>2, <1>3, <1>4, <1>5

LEMMA ReloadReadyKeeps ==
    ASSUME NEW b \in Buffers, NEW p1 PROVE HoldsTheSame(b, ReloadReady(p1, b))
  BY ReadyIs, ReloadKeeps

LEMMA SpillOverflowKeeps ==
    ASSUME NEW b \in Buffers, NEW c
    PROVE  /\ HoldsTheSame(b, SpillOverflow(c, b))
           /\ (IF c \in Px1 THEN partners1(c) ELSE partners2(c)) \cap LaggingNow # {} =>
                  InRam(SpillOverflow(c, b)) =< Chunk
  <1> DEFINE lags == (IF c \in Px1 THEN partners1(c) ELSE partners2(c)) \cap LaggingNow # {}
             m == Merge(b)
             n == InRam(b) - Chunk
  <1>1. InRam(b) \in Nat
    <2>1. b.arr \in Seq(Nat) /\ b.pending \in Seq(Nat)
      BY DEF Buffers
    <2>2. Len(b.arr) \in Nat /\ Len(b.pending) \in Nat
      BY <2>1
    <2>3. \A x, y \in Nat : x + y \in Nat
      OBVIOUS
    <2> QED
      BY <2>2, <2>3, Zenon DEF InRam
  <1>2. SpillOverflow(c, b) = IF InRam(b) > Chunk /\ lags THEN Spill(m, n) ELSE b
    BY DEF SpillOverflow
  <1>3. HoldsTheSame(b, b)
    BY DEF HoldsTheSame
  <1>4. CASE InRam(b) > Chunk /\ lags
    <2>1. HoldsTheSame(b, m) /\ m.pending = <<>> /\ Len(m.arr) = InRam(b) /\ m \in Buffers
      BY MergeKeeps DEF HoldsTheSame
    <2>2. n \in 1 .. Len(m.arr)
      BY <1>1, <1>4, <2>1, GraphAssumption
    <2> HIDE DEF m, n
    <2>3. HoldsTheSame(m, Spill(m, n)) /\ InRam(Spill(m, n)) = Len(m.arr) - n
      BY <2>1, <2>2, SpillKeeps
    <2>4. HoldsTheSame(b, Spill(m, n))
      BY <2>1, <2>3, Transitive
    <2>5. InRam(Spill(m, n)) = Chunk
      BY <1>1, <2>1, <2>3, GraphAssumption DEF n
    <2> QED
      BY <1>2, <1>4, <2>4, <2>5, GraphAssumption
  <1>5. CASE ~(InRam(b) > Chunk /\ lags)
    <2> HIDE DEF lags
    <2>1. lags => InRam(b) =< Chunk
      BY <1>1, <1>5, GraphAssumption
    <2> QED
      BY <1>2, <1>3, <1>5, <2>1 DEF lags
  <1> QED
    BY <1>4, <1>5
-----------------------------------------------------------------------------
\* The inductive invariant: what a channel has drained and not handed over is in
\* its buffer, none of it twice, and a node-2 buffer holds only what it drained.
StallTyped ==
    /\ last_ts \in [Channels -> Nat \cup {None}]
    /\ \A c \in Channels : last_ts[c] \in Photons[c] \cup {None}
    /\ quiet \in [Channels -> 0 .. AgeCap] /\ since_start \in 0 .. AgeCap
HistoryTyped ==
    /\ exclusion_history \subseteq Channels
    /\ drained \in [Channels -> SUBSET Nat] /\ released \in [Px1 -> SUBSET Nat]
    /\ \A c \in Channels : drained[c] \subseteq Photons[c]
BuffersTyped ==
    /\ buf \in [Channels -> Buffers]
    /\ \A c \in Channels : NoEmptyFile(buf[c]) /\ ToSet(Contents(buf[c])) \subseteq drained[c]
SpillInv == StallTyped /\ HistoryTyped /\ BuffersTyped /\ Conserved

LEMMA AgeCapNat == AgeCap \in Nat \ {0}
  BY GraphAssumption DEF AgeCap

LEMMA PixelsApart == \A p1 \in Px1 : p1 \in Channels /\ p1 \notin Px2
  BY GraphAssumption DEF Channels

LEMMA InitHolds == ASSUME SpillInit PROVE SpillInv
  <1>1. EmptyBuf \in Buffers
    BY DEF EmptyBuf, Buffers
  <1>2. ToSet(Contents(EmptyBuf)) = {} /\ Once(EmptyBuf) /\ NoEmptyFile(EmptyBuf)
    <2>1. EmptyBuf.files = <<>> /\ EmptyBuf.arr = <<>> /\ EmptyBuf.pending = <<>>
      BY DEF EmptyBuf
    <2>2. Contents(EmptyBuf) = <<>>
      BY <2>1, FlattenEmpty DEF Contents
    <2> QED
      BY <2>1, <2>2 DEF ToSet, Once, NoEmptyFile, IsInjective
  <1>3. StallTyped /\ HistoryTyped
    BY AgeCapNat DEF SpillInit, SpillEmpty, StallTyped, HistoryTyped
  <1>4. BuffersTyped
    BY <1>1, <1>2 DEF SpillInit, SpillEmpty, BuffersTyped
  <1>5. Conserved
    BY <1>2, PixelsApart DEF SpillInit, SpillEmpty, Conserved, Once
  <1> QED
    BY <1>3, <1>4, <1>5 DEF SpillInv

LEMMA TickKeeps == ASSUME SpillInv, SpillTick PROVE SpillInv'
  <1>1. StallTyped'
    <2>1. since_start' \in 0 .. AgeCap
      BY AgeCapNat DEF SpillInv, StallTyped, SpillTick, StallTick
    <2>2. quiet' \in [Channels -> 0 .. AgeCap]
      BY AgeCapNat DEF SpillInv, StallTyped, SpillTick, StallTick
    <2> QED
      BY <2>1, <2>2 DEF SpillInv, StallTyped, SpillTick, StallTick
  <1>2. UNCHANGED <<buf, exclusion_history, released, drained>>
    BY DEF SpillTick
  <1> QED
    BY <1>1, <1>2 DEF SpillInv, HistoryTyped, BuffersTyped, Conserved

\* The watermark and the age of the channel that drained t.
LEMMA WatermarkMoves ==
    ASSUME NEW d \in Channels, NEW t \in Nat,
           StallDrained([e \in Channels |-> IF e = d THEN {t} ELSE {}])
    PROVE  /\ quiet' = [e \in Channels |-> IF e = d THEN 0 ELSE quiet[e]]
           /\ last_ts' = [e \in Channels |-> IF e = d THEN t ELSE last_ts[e]]
           /\ since_start' = since_start
  <1> DEFINE new == [e \in Channels |-> IF e = d THEN {t} ELSE {}]
  <1>1. \A e \in Channels : new[e] = IF e = d THEN {t} ELSE {}
    OBVIOUS
  <1>2. (CHOOSE u \in {t} : \A v \in {t} : v =< u) = t
    <2>1. \A v \in {t} : v =< t
      OBVIOUS
    <2> QED
      BY <2>1
  <1>3. StallDrained(new)
    BY DEF new
  <1> HIDE DEF new
  <1>4. \A e \in Channels : new[e] # {} <=> e = d
    BY <1>1
  <1>5. new[d] = {t}
    BY <1>1
  <1>6. /\ quiet' = [e \in Channels |-> IF new[e] # {} THEN 0 ELSE quiet[e]]
        /\ last_ts' = [e \in Channels |-> IF new[e] # {} THEN CHOOSE u \in new[e] : \A v \in new[e] : v =< u
                                          ELSE last_ts[e]]
        /\ since_start' = since_start
    BY <1>3 DEF StallDrained
  <1> DEFINE latest(e) == CHOOSE u \in new[e] : \A v \in new[e] : v =< u
  <1>7. latest(d) = t
    BY <1>2, <1>5
  <1>8. last_ts' = [e \in Channels |-> IF new[e] # {} THEN latest(e) ELSE last_ts[e]]
    BY <1>6
  <1> HIDE DEF latest
  <1>9. \A e \in Channels : (IF new[e] # {} THEN latest(e) ELSE last_ts[e])
                            = (IF e = d THEN t ELSE last_ts[e])
    BY <1>4, <1>7
  <1>10. last_ts' = [e \in Channels |-> IF e = d THEN t ELSE last_ts[e]]
    BY <1>8, <1>9
  <1> QED
    BY <1>4, <1>6, <1>10

LEMMA DrainKeeps == ASSUME SpillInv, NEW d \in Channels, Drain(d) PROVE SpillInv'
  <1>1. PICK t \in Photons[d] :
            /\ NextPhoton(d, drained[d], t)
            /\ StallDrained([e \in Channels |-> IF e = d THEN {t} ELSE {}])
            /\ buf' = [buf EXCEPT ![d].pending = Append(@, t)]
            /\ drained' = [drained EXCEPT ![d] = @ \cup {t}]
            /\ UNCHANGED <<exclusion_history, released, tallied, inOrder>>
    BY DEF Drain
  <1>2. t \in Nat /\ t \notin drained[d]
    <2>1. t \in Nat
      BY GraphAssumption
    <2>2. \A u \in drained[d] : u < t
      BY <1>1 DEF NextPhoton
    <2>3. ~(t < t)
      BY <2>1
    <2> QED
      BY <2>1, <2>2, <2>3, Zenon
  <1> DEFINE c == [buf[d] EXCEPT !.pending = Append(@, t)]
  <1>3. /\ buf[d] \in Buffers
        /\ c \in Buffers /\ ToSet(Contents(c)) = ToSet(Contents(buf[d])) \cup {t}
        /\ Once(buf[d]) /\ t \notin ToSet(Contents(buf[d])) => Once(c)
        /\ NoEmptyFile(buf[d]) => NoEmptyFile(c)
    BY <1>2, DrainAdds DEF SpillInv, BuffersTyped
  <1>4. buf' = [buf EXCEPT ![d] = c]
    BY <1>1
  <1> HIDE DEF c
  <1>5. /\ buf' \in [Channels -> Buffers]
        /\ \A e \in Channels : buf'[e] = IF e = d THEN c ELSE buf[e]
        /\ \A e \in Channels : drained'[e] = IF e = d THEN drained[d] \cup {t} ELSE drained[e]
        /\ drained' \in [Channels -> SUBSET Nat]
    BY <1>1, <1>2, <1>3, <1>4 DEF SpillInv, BuffersTyped, HistoryTyped
  <1>6. StallTyped'
    <2>1. /\ quiet' = [e \in Channels |-> IF e = d THEN 0 ELSE quiet[e]]
          /\ last_ts' = [e \in Channels |-> IF e = d THEN t ELSE last_ts[e]]
          /\ since_start' = since_start
      BY <1>1, <1>2, WatermarkMoves
    <2> QED
      BY <1>1, <1>2, <2>1, AgeCapNat DEF SpillInv, StallTyped
  <1>7. HistoryTyped'
    BY <1>1, <1>5 DEF SpillInv, HistoryTyped
  <1>8. BuffersTyped'
    BY <1>3, <1>5 DEF SpillInv, BuffersTyped
  <1>9. Conserved'
    <2> SUFFICES ASSUME NEW p1 \in Px1
                 PROVE  /\ Once(buf'[p1]) /\ ToSet(Contents(buf'[p1])) \cap released[p1] = {}
                        /\ ToSet(Contents(buf'[p1])) \cup released[p1] = drained'[p1]
      BY <1>1 DEF Conserved, Once
    <2>1. /\ Once(buf[p1]) /\ ToSet(Contents(buf[p1])) \cap released[p1] = {}
          /\ ToSet(Contents(buf[p1])) \cup released[p1] = drained[p1]
      BY DEF SpillInv, Conserved, Once
    <2>2. p1 \in Channels
      BY PixelsApart
    <2>3. CASE p1 = d
      BY <1>2, <1>3, <1>5, <2>1, <2>2, <2>3
    <2>4. CASE p1 # d
      BY <1>5, <2>1, <2>2, <2>4
    <2> QED
      BY <2>3, <2>4
  <1> QED
    BY <1>6, <1>7, <1>8, <1>9 DEF SpillInv

LEMMA CutInside ==
    ASSUME NEW b \in Buffers PROVE \A p1 : CutFor(p1, b) \in 0 .. Len(b.arr)
  <1>1. b.arr \in Seq(Nat) /\ Len(b.arr) \in Nat
    BY DEF Buffers
  <1>2. Len(b.arr) \in 0 .. Len(b.arr) /\ 0 \in 0 .. Len(b.arr)
        /\ (~(Len(b.arr) < Chunk) => Chunk \in 0 .. Len(b.arr))
    BY <1>1, GraphAssumption
  <1>3. \A x : Bisect(b.arr, x, TRUE) \in 0 .. Len(b.arr)
    BY <1>1, BisectInside
  <1> QED
    BY <1>2, <1>3 DEF CutFor

LEMMA KeepInside ==
    ASSUME NEW b \in Buffers PROVE \A p2, Q : KeepFor(p2, b, Q) \in 0 .. Len(b.arr)
  <1>1. b.arr \in Seq(Nat) /\ Len(b.arr) \in Nat
    BY DEF Buffers
  <1>2. Len(b.arr) \in 0 .. Len(b.arr) /\ 0 \in 0 .. Len(b.arr)
    BY <1>1
  <1>3. \A x : Bisect(b.arr, x, FALSE) \in 0 .. Len(b.arr)
    BY <1>1, BisectInside
  <1>4. ASSUME NEW p2, NEW Q PROVE KeepFor(p2, b, Q) \in 0 .. Len(b.arr)
    <2> DEFINE needed == {next_needed(q, Q[q]) : q \in LivePartners2(p2)}
    <2>1. KeepFor(p2, b, Q) = CASE needed = {} -> Len(b.arr)
                                [] needed # {} /\ None \in needed -> 0
                                [] OTHER -> Bisect(b.arr, Min(needed) - Tmax, FALSE)
      BY DEF KeepFor
    <2> HIDE DEF needed
    <2> QED
      BY <1>2, <1>3, <2>1
  <1> QED
    BY <1>4

\* release() by its stages: nothing but the cut leaves a node-1 buffer, and a
\* node-2 buffer gets nothing that was not in it.
HandsOver(cut) == \E p1 \in Px1 : cut[p1] # 0
Seen(B, cut) == IF HandsOver(cut) THEN Snapshot(B, cut) ELSE [p2 \in Px2 |-> B[p2]]
Rest(B, cut, t2) == IF HandsOver(cut) THEN Trimmed(B, cut, t2) ELSE B

LEMMA Stages ==
    ASSUME BuffersTyped, NEW ready, NEW B, NEW cut, NEW t2, NEW left,
           ready = Reloaded, B = Merged(ready), cut = Cuts(B, WouldReleaseOf(ready)),
           t2 = Seen(B, cut), left = Rest(B, cut, t2)
    PROVE  /\ \A p1 \in Px1 : /\ HoldsTheSame(buf[p1], B[p1]) /\ cut[p1] \in 0 .. Len(B[p1].arr)
                              /\ left[p1] = [B[p1] EXCEPT !.arr = Drop(@, cut[p1])]
           /\ \A p2 \in Px2 : /\ left[p2] \in Buffers /\ NoEmptyFile(left[p2])
                              /\ ToSet(Contents(left[p2])) \subseteq ToSet(Contents(buf[p2]))
  <1>1. \A c \in Channels : buf[c] \in Buffers /\ NoEmptyFile(buf[c])
    BY DEF BuffersTyped
  <1>2. ASSUME NEW c \in Channels PROVE HoldsTheSame(buf[c], ready[c])
    <2>1. ready[c] = IF c \in Px1 THEN ReloadReady(c, buf[c]) ELSE buf[c]
      BY DEF Reloaded
    <2>2. HoldsTheSame(buf[c], buf[c]) /\ HoldsTheSame(buf[c], ReloadReady(c, buf[c]))
      BY <1>1, ReloadReadyKeeps DEF HoldsTheSame
    <2> QED
      BY <2>1, <2>2
  <1>3. ASSUME NEW c \in Channels PROVE HoldsTheSame(buf[c], B[c]) /\ B[c] \in Buffers /\ NoEmptyFile(B[c])
    <2>1. ready[c] \in Buffers
      BY <1>2 DEF HoldsTheSame
    <2>2. B[c] = ready[c] \/ B[c] = Merge(ready[c])
      BY DEF Merged
    <2>3. HoldsTheSame(ready[c], Merge(ready[c]))
      BY <2>1, MergeKeeps
    <2>4. HoldsTheSame(buf[c], Merge(ready[c]))
      BY <1>2, <2>3, Transitive
    <2>5. HoldsTheSame(buf[c], B[c])
      BY <1>2, <2>2, <2>4
    <2> QED
      BY <1>1, <2>5 DEF HoldsTheSame
  <1>4. \A c \in Px1 \cup Px2 : c \in Channels
    BY DEF Channels
  <1>5. ASSUME NEW p1 \in Px1
        PROVE  cut[p1] \in 0 .. Len(B[p1].arr) /\ left[p1] = [B[p1] EXCEPT !.arr = Drop(@, cut[p1])]
    <2>1. B[p1] \in Buffers
      BY <1>3, <1>4
    <2>2. cut[p1] = 0 \/ cut[p1] = CutFor(p1, B[p1])
      BY DEF Cuts
    <2>3. CutFor(p1, B[p1]) \in 0 .. Len(B[p1].arr) /\ 0 \in 0 .. Len(B[p1].arr)
      <3>1. Len(B[p1].arr) \in Nat
        BY <2>1 DEF Buffers
      <3>2. CutFor(p1, B[p1]) \in 0 .. Len(B[p1].arr)
        BY <2>1, CutInside, Zenon
      <3> QED
        BY <3>1, <3>2
    <2>4. cut[p1] \in 0 .. Len(B[p1].arr)
      BY <2>2, <2>3
    <2>5. CASE HandsOver(cut)
      <3> DEFINE rest == [c \in Channels |-> IF c \in Px1 THEN [B[c] EXCEPT !.arr = Drop(@, cut[c])]
                                             ELSE B[c]]
      <3>1. left = [c \in Channels |->
                      IF c \in Px1 THEN rest[c]
                      ELSE [t2[c] EXCEPT !.arr = Drop(@, KeepFor(c, t2[c], rest))]]
        BY <2>5 DEF Trimmed, Rest
      <3>2. rest[p1] = [B[p1] EXCEPT !.arr = Drop(@, cut[p1])]
        BY <1>4
      <3> HIDE DEF rest
      <3>3. left[p1] = rest[p1]
        BY <1>4, <3>1
      <3> QED
        BY <2>4, <3>2, <3>3, Zenon
    <2>6. CASE ~HandsOver(cut)
      <3>1. cut[p1] = 0 /\ left[p1] = B[p1]
        BY <2>6 DEF Rest, HandsOver
      <3>2. 0 \in 0 .. Len(B[p1].arr)
        BY <2>3
      <3>3. [B[p1] EXCEPT !.arr = Drop(@, 0)] = B[p1]
        BY <2>1, <3>2, DropLeaves
      <3> QED
        BY <2>4, <3>1, <3>3, Zenon
    <2> QED
      BY <2>4, <2>5, <2>6
  <1>6. ASSUME NEW p2 \in Px2
        PROVE  t2[p2] \in Buffers /\ NoEmptyFile(t2[p2])
               /\ ToSet(Contents(t2[p2])) \subseteq ToSet(Contents(B[p2]))
    <2>1. B[p2] \in Buffers /\ NoEmptyFile(B[p2])
      BY <1>3, <1>4
    <2>2. t2[p2] \in {B[p2], Discard(B[p2]), Reload(B[p2], Len(B[p2].files))}
      BY DEF Snapshot, Seen
    <2>3. Len(B[p2].files) \in 0 .. Len(B[p2].files)
      <3>1. Len(B[p2].files) \in Nat
        BY <2>1 DEF Buffers
      <3> QED
        BY <3>1
    <2>4. HoldsTheSame(B[p2], Reload(B[p2], Len(B[p2].files)))
      BY <2>1, <2>3, ReloadKeeps
    <2>5. Discard(B[p2]) \in Buffers /\ NoEmptyFile(Discard(B[p2]))
          /\ ToSet(Contents(Discard(B[p2]))) \subseteq ToSet(Contents(B[p2]))
      BY <2>1, DiscardLeaves
    <2> QED
      BY <2>1, <2>2, <2>4, <2>5 DEF HoldsTheSame
  <1>7. ASSUME NEW p2 \in Px2
        PROVE  left[p2] \in Buffers /\ NoEmptyFile(left[p2])
               /\ ToSet(Contents(left[p2])) \subseteq ToSet(Contents(B[p2]))
    <2>1. CASE ~HandsOver(cut)
      BY <1>3, <1>4, <2>1 DEF Rest
    <2>2. CASE HandsOver(cut)
      <3>1. PICK n \in 0 .. Len(t2[p2].arr) : left[p2] = [t2[p2] EXCEPT !.arr = Drop(@, n)]
        <4> DEFINE rest == [c \in Channels |-> IF c \in Px1 THEN [B[c] EXCEPT !.arr = Drop(@, cut[c])]
                                               ELSE B[c]]
        <4>1. KeepFor(p2, t2[p2], rest) \in 0 .. Len(t2[p2].arr)
          BY <1>6, KeepInside
        <4>2. left[p2] = [t2[p2] EXCEPT !.arr = Drop(@, KeepFor(p2, t2[p2], rest))]
          BY <1>4, <2>2, PixelsApart DEF Trimmed, Rest
        <4> QED
          BY <4>1, <4>2
      <3>2. t2[p2] \in Buffers /\ NoEmptyFile(t2[p2])
            /\ ToSet(Contents(t2[p2])) \subseteq ToSet(Contents(B[p2]))
        BY <1>6
      <3>3. /\ left[p2] \in Buffers /\ NoEmptyFile(left[p2])
            /\ ToSet(Contents(t2[p2])) = ToSet(Contents(left[p2])) \cup ToSet(SubSeq(t2[p2].arr, 1, n))
        BY <3>1, <3>2, DropLeaves
      <3> QED
        BY <3>2, <3>3
    <2> QED
      BY <2>1, <2>2
  <1> QED
    BY <1>3, <1>4, <1>5, <1>7 DEF HoldsTheSame

LEMMA ReleaseKeeps ==
    ASSUME SpillInv, SpillRelease
    PROVE  /\ SpillInv'
           /\ \A c \in Channels :
                 (IF c \in Px1 THEN partners1(c) ELSE partners2(c)) \cap LaggingNow # {} =>
                     InRam(buf'[c]) =< Chunk
  <1> DEFINE Taken(B, cut, p1) == ToSet(SubSeq(B[p1].arr, 1, cut[p1]))
  <1>1. PICK ready, B, cut, t2, left :
            /\ ready = Reloaded /\ B = Merged(ready) /\ cut = Cuts(B, WouldReleaseOf(ready))
            /\ t2 = Seen(B, cut) /\ left = Rest(B, cut, t2)
            /\ buf' = [c \in Channels |-> SpillOverflow(c, left[c])]
            /\ exclusion_history' = exclusion_history \cup DeadNow
            /\ released' = [p1 \in Px1 |-> released[p1] \cup Taken(B, cut, p1)]
            /\ UNCHANGED <<last_ts, quiet, since_start, drained>>
    BY DEF SpillRelease, HandsOver, Seen, Rest
  <1>2. /\ \A p1 \in Px1 : /\ HoldsTheSame(buf[p1], B[p1]) /\ cut[p1] \in 0 .. Len(B[p1].arr)
                             /\ left[p1] = [B[p1] EXCEPT !.arr = Drop(@, cut[p1])]
        /\ \A p2 \in Px2 : /\ left[p2] \in Buffers /\ NoEmptyFile(left[p2])
                             /\ ToSet(Contents(left[p2])) \subseteq ToSet(Contents(buf[p2]))
    <2>1. BuffersTyped
      BY DEF SpillInv
    <2> QED
      BY <1>1, <2>1, Stages
  <1> DEFINE taken(p1) == Taken(B, cut, p1)
  <1>3. ASSUME NEW p1 \in Px1
        PROVE  /\ left[p1] \in Buffers /\ NoEmptyFile(left[p1]) /\ Once(left[p1])
               /\ ToSet(Contents(buf[p1])) = ToSet(Contents(left[p1])) \cup taken(p1)
               /\ ToSet(Contents(left[p1])) \cap taken(p1) = {}
    <2>1. NoEmptyFile(buf[p1]) /\ Once(buf[p1])
      BY PixelsApart DEF SpillInv, BuffersTyped, Conserved, Once
    <2>2. /\ B[p1] \in Buffers /\ NoEmptyFile(B[p1]) /\ Once(B[p1])
          /\ ToSet(Contents(B[p1])) = ToSet(Contents(buf[p1]))
      BY <1>2, <2>1 DEF HoldsTheSame
    <2>3. cut[p1] \in 0 .. Len(B[p1].arr) /\ left[p1] = [B[p1] EXCEPT !.arr = Drop(@, cut[p1])]
      BY <1>2
    <2> DEFINE b == B[p1]
               n == cut[p1]
    <2>4. LET c == [b EXCEPT !.arr = Drop(@, n)]
              out == ToSet(SubSeq(b.arr, 1, n))
          IN  /\ c \in Buffers
              /\ ToSet(Contents(b)) = ToSet(Contents(c)) \cup out
              /\ Once(b) => Once(c) /\ ToSet(Contents(c)) \cap out = {}
              /\ NoEmptyFile(b) => NoEmptyFile(c)
      <3> HIDE DEF b, n
      <3>1. b \in Buffers /\ n \in 0 .. Len(b.arr)
        BY <2>2, <2>3 DEF b, n
      <3> QED
        BY <3>1, DropLeaves
    <2> QED
      BY <2>2, <2>3, <2>4
  <1>4. \A c \in Channels : c \in Px1 \/ c \in Px2
    BY DEF Channels
  <1>5. \A c \in Channels : left[c] \in Buffers /\ NoEmptyFile(left[c])
                            /\ ToSet(Contents(left[c])) \subseteq ToSet(Contents(buf[c]))
    BY <1>2, <1>3, <1>4
  <1>6. ASSUME NEW c \in Channels
        PROVE  /\ HoldsTheSame(left[c], buf'[c])
               /\ (IF c \in Px1 THEN partners1(c) ELSE partners2(c)) \cap LaggingNow # {} =>
                      InRam(buf'[c]) =< Chunk
    <2>1. buf'[c] = SpillOverflow(c, left[c])
      BY <1>1
    <2> DEFINE b == left[c]
    <2>2. b \in Buffers
      BY <1>5
    <2> HIDE DEF b
    <2>3. /\ HoldsTheSame(b, SpillOverflow(c, b))
          /\ (IF c \in Px1 THEN partners1(c) ELSE partners2(c)) \cap LaggingNow # {} =>
                 InRam(SpillOverflow(c, b)) =< Chunk
      BY <2>2, SpillOverflowKeeps
    <2> QED
      BY <2>1, <2>3 DEF b
  <1> HIDE DEF Taken
  <1>7. StallTyped'
    BY <1>1 DEF SpillInv, StallTyped
  <1>8. BuffersTyped'
    <2>1. buf' \in [Channels -> Buffers]
      <3>1. \A c \in Channels : buf'[c] \in Buffers
        BY <1>6 DEF HoldsTheSame
      <3>2. buf' = [c \in Channels |-> buf'[c]]
        BY <1>1
      <3> QED
        BY <3>1, <3>2
    <2>2. ASSUME NEW c \in Channels
          PROVE  NoEmptyFile(buf'[c]) /\ ToSet(Contents(buf'[c])) \subseteq drained'[c]
      <3>1. NoEmptyFile(left[c]) /\ ToSet(Contents(left[c])) \subseteq drained[c]
        BY <1>5 DEF SpillInv, BuffersTyped
      <3> QED
        BY <1>1, <1>6, <3>1 DEF HoldsTheSame
    <2> QED
      BY <2>1, <2>2 DEF BuffersTyped
  <1>9. ASSUME NEW p1 \in Px1
        PROVE  /\ released'[p1] = released[p1] \cup taken(p1) /\ Once(buf'[p1])
               /\ ToSet(Contents(buf'[p1])) \cap released'[p1] = {}
               /\ ToSet(Contents(buf'[p1])) \cup released'[p1] = drained'[p1]
    <2>1. released'[p1] = released[p1] \cup taken(p1)
      BY <1>1
    <2>2. /\ ToSet(Contents(buf[p1])) \cap released[p1] = {}
          /\ ToSet(Contents(buf[p1])) \cup released[p1] = drained[p1]
      BY DEF SpillInv, Conserved
    <2>3. /\ Once(buf'[p1]) /\ ToSet(Contents(buf'[p1])) = ToSet(Contents(left[p1]))
      BY <1>3, <1>6, PixelsApart DEF HoldsTheSame
    <2>4. /\ ToSet(Contents(buf[p1])) = ToSet(Contents(left[p1])) \cup taken(p1)
          /\ ToSet(Contents(left[p1])) \cap taken(p1) = {}
      BY <1>3
    <2>5. drained'[p1] = drained[p1]
      BY <1>1
    <2> QED
      BY <2>1, <2>2, <2>3, <2>4, <2>5
  <1>10. Conserved'
    BY <1>9 DEF Conserved, Once
  <1>11. HistoryTyped'
    <2>1. DeadNow \subseteq Channels
      BY DEF DeadNow
    <2>2. \A p1 \in Px1 : released'[p1] \subseteq drained'[p1]
      BY <1>9
    <2>3. \A p1 \in Px1 : drained'[p1] \in SUBSET Nat
      BY <1>1, PixelsApart DEF SpillInv, HistoryTyped
    <2>4. \A p1 \in Px1 : released'[p1] \in SUBSET Nat
      BY <2>2, <2>3
    <2>5. released' \in [Px1 -> SUBSET Nat]
      <3>1. released' = [p1 \in Px1 |-> released'[p1]]
        BY <1>1
      <3> QED
        BY <2>4, <3>1
    <2> QED
      BY <1>1, <2>1, <2>5 DEF SpillInv, HistoryTyped
  <1> QED
    BY <1>6, <1>7, <1>8, <1>10, <1>11 DEF SpillInv

-----------------------------------------------------------------------------
\* The further invariant for buffers that have always been in order: a pair
\* never reported dead is settled only as far as both have come, and an event
\* is forgotten only when no coincidence of it can still be handed over.
Newest ==
    \A c \in Channels :
        /\ last_ts[c] = None => drained[c] = {}
        /\ last_ts[c] # None => last_ts[c] \in drained[c] /\ \A t \in drained[c] : t =< last_ts[c]
InSequence == \A c \in Channels : Sorted(Contents(buf[c]))
Spared(p) == p[1] \notin exclusion_history /\ p[2] \notin exclusion_history
Passed(p) == \A t \in released[p[1]] : last_ts[p[2]] # None /\ t + Tmax =< last_ts[p[2]]
Forgotten(p) ==
    \A t \in drained[p[2]] \ ToSet(Contents(buf[p[2]])) :
        /\ last_ts[p[1]] # None /\ t + Tmax < last_ts[p[1]]
        /\ \A u \in ToSet(Contents(buf[p[1]])) : t + Tmax < u
AllCounted(p) == Coincidences(released[p[1]], drained[p[2]]) \subseteq tallied[p]
Retained == \A p \in Pairs : Spared(p) => Passed(p) /\ Forgotten(p) /\ AllCounted(p)
OrderInv == SpillInv /\ Newest /\ (inOrder => InSequence /\ Retained)

LEMMA PairChannels ==
    ASSUME NEW p \in Pairs
    PROVE  /\ p = <<p[1], p[2]>> /\ p[1] \in Px1 /\ p[2] \in Px2 /\ p[2] \notin Px1
           /\ p[1] \in Channels /\ p[2] \in Channels
           /\ p[2] \in partners1(p[1]) /\ p[1] \in partners2(p[2])
  BY GraphAssumption DEF Channels, partners1, partners2

\* The least of a set of numbers that begins somewhere.
LEMMA LeastOf ==
    ASSUME NEW k \in Nat, NEW S \in SUBSET Int, S # {}, \A x \in S : -k =< x
    PROVE  Min(S) \in S /\ \A x \in S : Min(S) =< x
  <1> DEFINE B == {x + k : x \in S}
  <1>1. B \in SUBSET Nat /\ B # {}
    <2>1. \A x \in S : x + k \in Nat
      OBVIOUS
    <2> QED
      BY <2>1
  <1>2. PICK b \in B : \A j \in B : b =< j
    BY <1>1, Least
  <1>3. PICK x \in S : b = x + k
    BY <1>2
  <1>4. ASSUME NEW y \in S PROVE x =< y
    <2>1. y + k \in B
      OBVIOUS
    <2>2. x + k =< y + k
      BY <1>2, <1>3, <2>1
    <2> QED
      BY <2>2
  <1>5. \E z \in S : \A y \in S : z =< y
    BY <1>4
  <1> QED
    BY <1>5 DEF Min

\* What a node-1 channel hands over, its live partners have passed.
LEMMA CutPasses ==
    ASSUME SpillInv, NEW p1 \in Px1, NEW p2 \in LivePartners1(p1), NEW b \in Buffers, Sorted(b.arr)
    PROVE  \A t \in ToSet(SubSeq(b.arr, 1, CutFor(p1, b))) :
               last_ts[p2] # None /\ t + Tmax =< last_ts[p2]
  <1>1. ~AllDead1(p1)
    BY DEF AllDead1
  <1>2. b.arr \in Seq(Nat)
    BY DEF Buffers
  <1>3. CASE Blocked(p1)
    <2>1. CutFor(p1, b) = 0
      BY <1>1, <1>3 DEF CutFor
    <2>2. SubSeq(b.arr, 1, 0) = <<>> /\ ToSet(<<>>) = {}
      BY <1>2 DEF ToSet
    <2> QED
      BY <2>1, <2>2
  <1>4. CASE ~Blocked(p1)
    <2> DEFINE S == {last_ts[q] - Tmax : q \in LivePartners1(p1)}
    <2>1. \A q \in LivePartners1(p1) : last_ts[q] \in Nat
      <3>1. \A q \in LivePartners1(p1) : q \in Channels /\ last_ts[q] # None
        BY <1>4 DEF Blocked, LivePartners1, partners1, Channels
      <3> QED
        BY <3>1 DEF SpillInv, StallTyped
    <2>2. /\ S \in SUBSET Int /\ S # {} /\ \A x \in S : -Tmax =< x
          /\ last_ts[p2] - Tmax \in S
      BY <2>1, GraphAssumption
    <2> HIDE DEF S
    <2>3. Min(S) \in S /\ Min(S) =< last_ts[p2] - Tmax
      BY <2>2, LeastOf, GraphAssumption
    <2>4. Limit(p1) = Min(S)
      BY DEF Limit, S
    <2>5. CutFor(p1, b) = Bisect(b.arr, Min(S), TRUE)
      BY <1>1, <1>4, <2>4 DEF CutFor
    <2>6. Min(S) \in Int
      BY <2>2, <2>3
    <2>7. \A t \in ToSet(SubSeq(b.arr, 1, CutFor(p1, b))) : t < Min(S) \/ t = Min(S)
      BY <1>2, <2>5, <2>6, BisectCuts
    <2>8. \A t \in ToSet(SubSeq(b.arr, 1, CutFor(p1, b))) : t \in Nat
      <3>1. CutFor(p1, b) \in 0 .. Len(b.arr)
        BY CutInside
      <3>2. SubSeq(b.arr, 1, CutFor(p1, b)) \in Seq(Nat)
        BY <1>2, <3>1, CutInTwo
      <3> QED
        BY <3>2 DEF ToSet
    <2>9. last_ts[p2] \in Nat /\ Tmax \in Nat
      BY <2>1, GraphAssumption
    <2> QED
      BY <2>3, <2>6, <2>7, <2>8, <2>9 DEF None
  <1> QED
    BY <1>3, <1>4

\* What is trimmed from a node-2 buffer lies before all its live partners need.
LEMMA KeepSpares ==
    ASSUME SpillInv, NEW p2 \in Px2, NEW p1 \in LivePartners2(p2), NEW b \in Buffers, Sorted(b.arr),
           NEW Q, \A q \in Px1 : Q[q] \in Buffers /\ NoEmptyFile(Q[q])
    PROVE  \A t \in ToSet(SubSeq(b.arr, 1, KeepFor(p2, b, Q))) :
               next_needed(p1, Q[p1]) # None /\ t + Tmax < next_needed(p1, Q[p1])
  <1> DEFINE needed == {next_needed(q, Q[q]) : q \in LivePartners2(p2)}
             mine == next_needed(p1, Q[p1])
  <1>1. b.arr \in Seq(Nat)
    BY DEF Buffers
  <1>2. ASSUME NEW q \in LivePartners2(p2) PROVE next_needed(q, Q[q]) \in Nat \cup {None}
    <2>1. q \in Px1 /\ q \in Channels
      BY DEF LivePartners2, partners2, Channels
    <2>2. earliest(Q[q]) # None => earliest(Q[q]) \in Nat
      BY <2>1, EarliestIs
    <2>3. last_ts[q] \in Nat \cup {None}
      BY <2>1 DEF SpillInv, StallTyped
    <2> QED
      BY <2>2, <2>3 DEF next_needed
  <1>3. mine \in needed /\ needed # {} /\ needed \subseteq Nat \cup {None}
    BY <1>2
  <1>4. KeepFor(p2, b, Q) = CASE needed = {} -> Len(b.arr)
                              [] needed # {} /\ None \in needed -> 0
                              [] OTHER -> Bisect(b.arr, Min(needed) - Tmax, FALSE)
    BY DEF KeepFor
  <1> HIDE DEF needed, mine
  <1>5. CASE None \in needed
    <2>1. KeepFor(p2, b, Q) = 0
      BY <1>3, <1>4, <1>5
    <2>2. SubSeq(b.arr, 1, 0) = <<>> /\ ToSet(<<>>) = {}
      BY <1>1 DEF ToSet
    <2> QED
      BY <2>1, <2>2
  <1>6. CASE None \notin needed
    <2>1. needed \in SUBSET Nat /\ mine \in Nat
      BY <1>3, <1>6
    <2>2. Min(needed) \in needed /\ Min(needed) =< mine
      <3>1. needed \in SUBSET Int /\ \A x \in needed : -0 =< x
        BY <2>1
      <3> QED
        BY <1>3, <3>1, LeastOf
    <2>3. Min(needed) \in Nat /\ Tmax \in Nat
      BY <2>1, <2>2, GraphAssumption
    <2>4. KeepFor(p2, b, Q) = Bisect(b.arr, Min(needed) - Tmax, FALSE)
      BY <1>3, <1>4, <1>6
    <2>5. Min(needed) - Tmax \in Int
      BY <2>3
    <2>6. \A t \in ToSet(SubSeq(b.arr, 1, KeepFor(p2, b, Q))) : t < Min(needed) - Tmax
      BY <1>1, <2>4, <2>5, BisectCuts
    <2>7. \A t \in ToSet(SubSeq(b.arr, 1, KeepFor(p2, b, Q))) : t \in Nat
      <3>1. KeepFor(p2, b, Q) \in 0 .. Len(b.arr)
        BY KeepInside
      <3>2. SubSeq(b.arr, 1, KeepFor(p2, b, Q)) \in Seq(Nat)
        BY <1>1, <3>1, CutInTwo
      <3> QED
        BY <3>2 DEF ToSet
    <2>8. mine # None
      BY <2>1 DEF None
    <2>9. \A t \in ToSet(SubSeq(b.arr, 1, KeepFor(p2, b, Q))) : t + Tmax < mine
      BY <2>1, <2>2, <2>3, <2>6, <2>7
    <2> QED
      BY <2>8, <2>9 DEF mine
  <1> QED
    BY <1>5, <1>6

\* release() on buffers in order, seen from a pair that is alive: what it hands
\* over, what the kernel sees of the partner, and what it forgets.
LEMMA OrderedStages ==
    ASSUME SpillInv, InSequence, NEW ready, NEW B, NEW cut, NEW t2, NEW left,
           ready = Reloaded, B = Merged(ready), cut = Cuts(B, WouldReleaseOf(ready)),
           t2 = Seen(B, cut), left = Rest(B, cut, t2),
           NEW p \in Pairs, p[1] \notin DeadNow, p[2] \notin DeadNow
    PROVE  /\ \A t \in ToSet(SubSeq(B[p[1]].arr, 1, cut[p[1]])) :
                 last_ts[p[2]] # None /\ t + Tmax =< last_ts[p[2]]
           /\ cut[p[1]] # 0 => ToSet(t2[p[2]].arr) = ToSet(Contents(buf[p[2]]))
           /\ \A t \in ToSet(Contents(buf[p[2]])) \ ToSet(Contents(left[p[2]])) :
                 /\ next_needed(p[1], left[p[1]]) # None
                 /\ t + Tmax < next_needed(p[1], left[p[1]])
  <1> DEFINE p1 == p[1]
             p2 == p[2]
  <1>1. /\ p1 \in Px1 /\ p2 \in Px2 /\ p2 \notin Px1 /\ p1 \in Channels /\ p2 \in Channels
        /\ p2 \in LivePartners1(p1) /\ p1 \in LivePartners2(p2) /\ p1 \in partners2(p2)
    BY PairChannels DEF LivePartners1, LivePartners2
  <1> HIDE DEF p1, p2
  <1>2. \A c \in Channels : buf[c] \in Buffers /\ NoEmptyFile(buf[c]) /\ Sorted(Contents(buf[c]))
    BY DEF SpillInv, BuffersTyped, InSequence
  <1>3. \A q \in Px1 : /\ HoldsTheSame(buf[q], B[q]) /\ cut[q] \in 0 .. Len(B[q].arr)
                       /\ left[q] = [B[q] EXCEPT !.arr = Drop(@, cut[q])]
    <2>1. BuffersTyped
      BY DEF SpillInv
    <2> QED
      BY <2>1, Stages
  <1>4. \A t \in ToSet(SubSeq(B[p1].arr, 1, cut[p1])) : last_ts[p2] # None /\ t + Tmax =< last_ts[p2]
    <2>1. ready[p1] = ReloadReady(p1, buf[p1])
      BY <1>1 DEF Reloaded
    <2>2. PICK k \in 0 .. Len(buf[p1].files) : ready[p1] = Reload(buf[p1], k)
      BY <1>1, <1>2, <2>1, ReadyIs
    <2>3. ready[p1] \in Buffers /\ Sorted(Cat(ready[p1].arr, ready[p1].pending))
      BY <1>1, <1>2, <2>2, ReloadOrder
    <2>4. CASE ~WouldReleaseOf(ready)
      <3>1. cut[p1] = 0
        BY <1>1, <2>4 DEF Cuts
      <3>2. SubSeq(B[p1].arr, 1, 0) = <<>> /\ ToSet(<<>>) = {}
        <4>1. B[p1].arr \in Seq(Nat)
          BY <1>1, <1>3 DEF HoldsTheSame, Buffers
        <4> QED
          BY <4>1 DEF ToSet
      <3> QED
        BY <3>1, <3>2
    <2>5. CASE WouldReleaseOf(ready)
      <3>1. B[p1] = Merge(ready[p1]) /\ cut[p1] = CutFor(p1, B[p1])
        BY <1>1, <2>5 DEF Merged, Cuts
      <3>2. B[p1] \in Buffers
        BY <1>1, <1>3 DEF HoldsTheSame
      <3>3. B[p1].arr = Cat(ready[p1].arr, ready[p1].pending)
        BY <2>3, <3>1 DEF Merge, Cat, Buffers
      <3>4. Sorted(B[p1].arr)
        BY <2>3, <3>3
      <3> QED
        BY <1>1, <3>1, <3>2, <3>4, CutPasses
    <2> QED
      BY <2>4, <2>5
  <1>5. /\ B[p2] \in Buffers /\ NoEmptyFile(B[p2]) /\ Contents(B[p2]) = Contents(buf[p2])
        /\ WouldReleaseOf(ready) => B[p2].pending = <<>>
    <2>1. ready[p2] = buf[p2]
      BY <1>1 DEF Reloaded
    <2>2. B[p2] = IF WouldReleaseOf(ready) THEN Merge(buf[p2]) ELSE buf[p2]
      BY <1>1, <2>1 DEF Merged
    <2>3. /\ Merge(buf[p2]) \in Buffers /\ NoEmptyFile(Merge(buf[p2])) /\ Merge(buf[p2]).pending = <<>>
          /\ Contents(Merge(buf[p2])) = Contents(buf[p2])
      BY <1>1, <1>2, MergeKeeps, MergeOrder DEF HoldsTheSame
    <2> QED
      BY <1>1, <1>2, <2>2, <2>3
  <1> DEFINE all == Reload(B[p2], Len(B[p2].files))
  <1>6. /\ all \in Buffers /\ Sorted(all.arr) /\ all.files = <<>> /\ all.pending = B[p2].pending
        /\ ToSet(Contents(all)) = ToSet(Contents(buf[p2]))
    <2>1. Len(B[p2].files) \in 0 .. Len(B[p2].files)
      <3>1. Len(B[p2].files) \in Nat
        BY <1>5 DEF Buffers
      <3> QED
        BY <3>1
    <2>2. Sorted(Contents(B[p2]))
      BY <1>1, <1>2, <1>5
    <2>3. /\ all \in Buffers /\ Sorted(all.arr) /\ all.files = <<>>
      BY <1>5, <2>1, <2>2, ReloadOrder
    <2>4. all.pending = B[p2].pending /\ ToSet(Contents(all)) = ToSet(Contents(B[p2]))
      BY <1>5, <2>1, ReloadKeeps DEF HoldsTheSame
    <2> QED
      BY <1>5, <2>3, <2>4
  <1> HIDE DEF all
  <1>7. HandsOver(cut) => WouldReleaseOf(ready)
    BY DEF HandsOver, Cuts
  <1>8. HandsOver(cut) => t2[p2] = IF \E q \in partners2(p2) : cut[q] # 0 THEN all ELSE B[p2]
    BY <1>1 DEF Seen, Snapshot, all
  <1>9. cut[p1] # 0 => ToSet(t2[p2].arr) = ToSet(Contents(buf[p2]))
    <2> SUFFICES ASSUME cut[p1] # 0 PROVE ToSet(t2[p2].arr) = ToSet(Contents(buf[p2]))
      OBVIOUS
    <2>1. HandsOver(cut)
      BY <1>1 DEF HandsOver
    <2>2. t2[p2] = all /\ all.pending = <<>>
      BY <1>1, <1>5, <1>6, <1>7, <1>8, <2>1
    <2>3. ToSet(Contents(all)) = ToSet(FlattenSeq(<<>>)) \cup ToSet(all.arr) \cup ToSet(<<>>)
      BY <1>6, <2>2, ContentsAre
    <2>4. ToSet(FlattenSeq(<<>>)) = {} /\ ToSet(<<>>) = {}
      BY FlattenEmpty DEF ToSet
    <2> QED
      BY <1>6, <2>2, <2>3, <2>4
  <1>10. \A t \in ToSet(Contents(buf[p2])) \ ToSet(Contents(left[p2])) :
            /\ next_needed(p1, left[p1]) # None
            /\ t + Tmax < next_needed(p1, left[p1])
    <2>1. CASE ~HandsOver(cut)
      <3>1. Contents(left[p2]) = Contents(buf[p2])
        BY <1>5, <2>1 DEF Rest
      <3> QED
        BY <3>1
    <2>2. CASE HandsOver(cut)
      <3> DEFINE rest == [c \in Channels |-> IF c \in Px1 THEN [B[c] EXCEPT !.arr = Drop(@, cut[c])]
                                             ELSE B[c]]
                 n == KeepFor(p2, t2[p2], rest)
      <3>1. left[p2] = [t2[p2] EXCEPT !.arr = Drop(@, n)]
        BY <1>1, <2>2 DEF Trimmed, Rest
      <3>2. ASSUME NEW q \in Px1 PROVE rest[q] \in Buffers /\ NoEmptyFile(rest[q]) /\ rest[q] = left[q]
        <4>1. q \in Channels
          BY PixelsApart
        <4>2. rest[q] = [B[q] EXCEPT !.arr = Drop(@, cut[q])] /\ rest[q] = left[q]
          BY <1>3, <4>1
        <4> DEFINE b == B[q]
                   k == cut[q]
        <4>3. b \in Buffers /\ NoEmptyFile(b) /\ k \in 0 .. Len(b.arr)
          BY <1>2, <1>3, <4>1 DEF HoldsTheSame
        <4>4. LET c == [b EXCEPT !.arr = Drop(@, k)]
              IN  c \in Buffers /\ (NoEmptyFile(b) => NoEmptyFile(c))
          <5> HIDE DEF b, k
          <5> QED
            BY <4>3, DropLeaves
        <4> QED
          BY <4>2, <4>3, <4>4
      <3> HIDE DEF rest
      <3>3. /\ t2[p2] \in Buffers /\ Sorted(t2[p2].arr)
            /\ ToSet(Contents(t2[p2])) = ToSet(Contents(buf[p2]))
        <4>1. Sorted(B[p2].arr)
          <5>1. Sorted(Contents(B[p2]))
            BY <1>1, <1>2, <1>5
          <5> QED
            BY <1>5, <5>1, SortedParts
        <4> QED
          BY <1>5, <1>6, <1>8, <2>2, <4>1
      <3>4. n \in 0 .. Len(t2[p2].arr)
        BY <3>3, KeepInside
      <3>5. \A t \in ToSet(SubSeq(t2[p2].arr, 1, n)) :
                next_needed(p1, rest[p1]) # None /\ t + Tmax < next_needed(p1, rest[p1])
        BY <1>1, <3>2, <3>3, KeepSpares
      <3>6. ToSet(Contents(t2[p2])) = ToSet(Contents(left[p2])) \cup ToSet(SubSeq(t2[p2].arr, 1, n))
        <4> DEFINE b == t2[p2]
        <4> HIDE DEF n
        <4>1. b \in Buffers /\ n \in 0 .. Len(b.arr)
          BY <3>3, <3>4
        <4>2. LET c == [b EXCEPT !.arr = Drop(@, n)]
              IN  ToSet(Contents(b)) = ToSet(Contents(c)) \cup ToSet(SubSeq(b.arr, 1, n))
          <5> HIDE DEF b
          <5> QED
            BY <4>1, DropLeaves
        <4> QED
          BY <3>1, <4>2
      <3>7. rest[p1] = left[p1]
        BY <1>1, <3>2
      <3> HIDE DEF n
      <3> QED
        BY <3>3, <3>5, <3>6, <3>7
    <2> QED
      BY <2>1, <2>2
  <1> QED
    BY <1>4, <1>9, <1>10 DEF p1, p2

LEMMA StepKeeps == SpillInv /\ [SpillNext]_spillvars => SpillInv'
  <1> SUFFICES ASSUME SpillInv, [SpillNext]_spillvars PROVE SpillInv'
    OBVIOUS
  <1>1. CASE SpillTick
    BY <1>1, TickKeeps
  <1>2. CASE \E c \in Channels : Drain(c)
    BY <1>2, DrainKeeps
  <1>3. CASE SpillRelease
    BY <1>3, ReleaseKeeps
  <1>4. CASE UNCHANGED spillvars
    BY <1>4 DEF spillvars, SpillInv, StallTyped, HistoryTyped, BuffersTyped, Conserved
  <1> QED
    BY <1>1, <1>2, <1>3, <1>4 DEF SpillNext

-----------------------------------------------------------------------------
LEMMA InitOrders == ASSUME SpillInit PROVE OrderInv
  <1>1. SpillInv
    BY InitHolds
  <1>2. Newest
    BY DEF SpillInit, SpillEmpty, Newest
  <1>3. Contents(EmptyBuf) = <<>> /\ ToSet(<<>>) = {} /\ Sorted(<<>>)
    <2>1. EmptyBuf.files = <<>> /\ EmptyBuf.arr = <<>> /\ EmptyBuf.pending = <<>>
      BY DEF EmptyBuf
    <2>2. Contents(EmptyBuf) = <<>>
      BY <2>1, FlattenEmpty DEF Contents
    <2> QED
      BY <2>2 DEF ToSet, Sorted
  <1>4. InSequence
    BY <1>3 DEF SpillInit, SpillEmpty, InSequence
  <1>5. ASSUME NEW p \in Pairs PROVE Passed(p) /\ Forgotten(p) /\ AllCounted(p)
    <2>1. released[p[1]] = {} /\ drained[p[2]] = {}
      BY PairChannels DEF SpillInit, SpillEmpty
    <2> QED
      BY <2>1 DEF Passed, Forgotten, AllCounted, Coincidences
  <1> QED
    BY <1>1, <1>2, <1>4, <1>5 DEF OrderInv, Retained

LEMMA TickOrders == ASSUME OrderInv, SpillTick PROVE OrderInv'
  <1>1. SpillInv'
    BY TickKeeps DEF OrderInv
  <1>2. UNCHANGED <<last_ts, buf, exclusion_history, released, drained, tallied, inOrder>>
    BY DEF SpillTick, StallTick
  <1> QED
    BY <1>1, <1>2 DEF OrderInv, Newest, InSequence, Retained, Spared, Passed, Forgotten, AllCounted

\* A drained event is newer than all the channel has had.
LEMMA DrainOrders == ASSUME OrderInv, NEW d \in Channels, Drain(d) PROVE OrderInv'
  <1>1. SpillInv /\ Newest /\ SpillInv'
    BY DrainKeeps DEF OrderInv
  <1>2. PICK t \in Photons[d] :
            /\ NextPhoton(d, drained[d], t)
            /\ StallDrained([e \in Channels |-> IF e = d THEN {t} ELSE {}])
            /\ buf' = [buf EXCEPT ![d].pending = Append(@, t)]
            /\ drained' = [drained EXCEPT ![d] = @ \cup {t}]
            /\ UNCHANGED <<exclusion_history, released, tallied, inOrder>>
    BY DEF Drain
  <1>3. t \in Nat /\ \A u \in drained[d] : u < t
    BY <1>2, GraphAssumption DEF NextPhoton
  <1>4. \A e \in Channels : last_ts'[e] = IF e = d THEN t ELSE last_ts[e]
    BY <1>2, <1>3, WatermarkMoves
  <1>5. \A e \in Channels : /\ buf[e] \in Buffers /\ drained[e] \in SUBSET Nat
                            /\ ToSet(Contents(buf[e])) \subseteq drained[e]
                            /\ last_ts[e] \in Nat \cup {None}
    BY <1>1 DEF SpillInv, BuffersTyped, HistoryTyped, StallTyped
  <1> DEFINE c == [buf[d] EXCEPT !.pending = Append(@, t)]
  <1>6. c \in Buffers /\ ToSet(Contents(c)) = ToSet(Contents(buf[d])) \cup {t}
        /\ Contents(c) = Cat(Contents(buf[d]), <<t>>)
    BY <1>3, <1>5, DrainAdds, DrainOrder
  <1>7. /\ \A e \in Channels : buf'[e] = IF e = d THEN c ELSE buf[e]
        /\ \A e \in Channels : drained'[e] = IF e = d THEN drained[d] \cup {t} ELSE drained[e]
    BY <1>1, <1>2 DEF SpillInv, BuffersTyped, HistoryTyped
  <1> HIDE DEF c
  <1>8. Newest'
    <2> SUFFICES ASSUME NEW e \in Channels
                 PROVE  /\ last_ts'[e] = None => drained'[e] = {}
                        /\ last_ts'[e] # None => /\ last_ts'[e] \in drained'[e]
                                                 /\ \A u \in drained'[e] : u =< last_ts'[e]
      BY DEF Newest
    <2>1. CASE e = d
      <3>1. t # None /\ \A u \in drained[d] \cup {t} : u =< t
        BY <1>3, <1>5 DEF None
      <3> QED
        BY <1>4, <1>7, <2>1, <3>1
    <2>2. CASE e # d
      BY <1>1, <1>4, <1>7, <2>2 DEF Newest
    <2> QED
      BY <2>1, <2>2
  <1>9. ASSUME inOrder PROVE InSequence'
    <2> SUFFICES ASSUME NEW e \in Channels PROVE Sorted(Contents(buf'[e]))
      BY DEF InSequence
    <2>1. Sorted(Contents(buf[e]))
      BY <1>9 DEF OrderInv, InSequence
    <2>2. CASE e = d
      <3> DEFINE s == Contents(buf[d])
                 one == <<t>>
      <3>1. s \in Seq(Nat)
        BY <1>5, ContentsAre
      <3>2. one \in Seq(Nat) /\ Sorted(one) /\ ToSet(one) = {t}
        <4>1. one \in Seq(Nat) /\ Len(one) = 1 /\ DOMAIN one = {1} /\ one[1] = t
          BY <1>3
        <4> HIDE DEF one
        <4> QED
          BY <1>3, <4>1 DEF Sorted, ToSet
      <3>3. \A u \in ToSet(s) : u =< t
        BY <1>3, <1>5
      <3> HIDE DEF s, one
      <3>4. Sorted(Cat(s, one))
        BY <2>1, <2>2, <3>1, <3>2, <3>3, CatSorted DEF s
      <3> QED
        BY <1>6, <1>7, <2>2, <3>4 DEF s, one
    <2>3. CASE e # d
      BY <1>7, <2>1, <2>3
    <2> QED
      BY <2>2, <2>3
  <1>10. ASSUME inOrder, NEW p \in Pairs, Spared(p)
         PROVE  (Passed(p) /\ Forgotten(p) /\ AllCounted(p))'
    <2> DEFINE p1 == p[1]
               p2 == p[2]
    <2>1. p1 \in Px1 /\ p1 \in Channels /\ p2 \in Channels
      BY PairChannels
    <2>2. Passed(p) /\ Forgotten(p) /\ AllCounted(p)
      BY <1>10 DEF OrderInv, Retained
    <2>3. /\ \A u \in released[p1] : last_ts[p2] # None /\ u + Tmax =< last_ts[p2]
          /\ \A u \in drained[p2] \ ToSet(Contents(buf[p2])) :
                /\ last_ts[p1] # None /\ u + Tmax < last_ts[p1]
                /\ \A v \in ToSet(Contents(buf[p1])) : u + Tmax < v
          /\ Coincidences(released[p1], drained[p2]) \subseteq tallied[p]
      BY <2>2 DEF Passed, Forgotten, AllCounted
    <2> HIDE DEF p1, p2
    <2>4. released' = released /\ tallied' = tallied /\ Tmax \in Nat
      BY <1>2, GraphAssumption
    <2>5. released[p1] \in SUBSET Nat
      BY <1>1, <2>1 DEF SpillInv, HistoryTyped
    <2>6. \A e \in Channels : last_ts[e] # None =>
              last_ts'[e] # None /\ last_ts[e] =< last_ts'[e] /\ last_ts[e] \in Nat /\ last_ts'[e] \in Nat
      <3>1. ASSUME NEW e \in Channels, last_ts[e] # None, e = d PROVE last_ts[e] < t
        BY <1>1, <1>3, <3>1 DEF Newest
      <3>2. t # None
        BY <1>3 DEF None
      <3> QED
        BY <1>3, <1>4, <1>5, <3>1, <3>2
    <2>7. \A e \in Channels : \A u \in ToSet(Contents(buf'[e])) :
              u \in ToSet(Contents(buf[e])) \/ (last_ts[e] # None => last_ts[e] < u /\ u \in Nat)
      <3>1. last_ts[d] # None => last_ts[d] < t
        BY <1>1, <1>3 DEF Newest
      <3> QED
        BY <1>3, <1>6, <1>7, <3>1
    <2>8. \A u \in drained'[p2] \ ToSet(Contents(buf'[p2])) :
              u \in drained[p2] \ ToSet(Contents(buf[p2])) /\ u \in Nat
      <3>1. ASSUME NEW u \in drained'[p2], u \notin ToSet(Contents(buf'[p2]))
            PROVE  u \in drained[p2] /\ u \notin ToSet(Contents(buf[p2]))
        BY <1>6, <1>7, <2>1, <3>1
      <3> QED
        BY <1>5, <2>1, <3>1
    <2>9. \A u \in released[p1] : last_ts'[p2] # None /\ u + Tmax =< last_ts'[p2]
      BY <2>1, <2>3, <2>4, <2>5, <2>6
    <2>10. ASSUME NEW u \in drained'[p2] \ ToSet(Contents(buf'[p2]))
           PROVE  /\ last_ts'[p1] # None /\ u + Tmax < last_ts'[p1]
                  /\ \A v \in ToSet(Contents(buf'[p1])) : u + Tmax < v
      <3>1. u \in Nat /\ last_ts[p1] # None /\ u + Tmax < last_ts[p1]
            /\ \A v \in ToSet(Contents(buf[p1])) : u + Tmax < v
        BY <2>3, <2>8
      <3>2. last_ts'[p1] # None /\ u + Tmax < last_ts'[p1]
        BY <2>1, <2>4, <2>6, <3>1
      <3>3. ASSUME NEW v \in ToSet(Contents(buf'[p1])) PROVE u + Tmax < v
        <4>1. v \in ToSet(Contents(buf[p1])) \/ (last_ts[p1] < v /\ v \in Nat)
          BY <2>1, <2>7, <3>1
        <4>2. last_ts[p1] \in Nat
          BY <2>1, <2>6, <3>1
        <4> QED
          BY <2>4, <3>1, <4>1, <4>2
      <3> QED
        BY <3>2, <3>3
    <2>11. Coincidences(released[p1], drained'[p2]) \subseteq tallied[p]
      <3> SUFFICES ASSUME NEW x \in Coincidences(released[p1], drained'[p2]) PROVE x \in tallied[p]
        OBVIOUS
      <3>1. x = <<x[1], x[2]>> /\ x[1] \in released[p1] /\ x[2] \in drained'[p2] /\ Near(x[1], x[2])
        BY DEF Coincidences
      <3>2. x[1] \in Nat /\ last_ts[p2] # None /\ last_ts[p2] \in Nat /\ x[1] + Tmax =< last_ts[p2]
        BY <1>5, <2>1, <2>3, <2>5, <3>1
      <3>3. x[2] \in drained[p2]
        <4>1. SUFFICES ASSUME x[2] \notin drained[p2] PROVE FALSE
          OBVIOUS
        <4>2. p2 = d /\ x[2] = t
          BY <1>7, <2>1, <3>1, <4>1
        <4>3. last_ts[p2] < t
          BY <1>1, <1>3, <2>1, <3>2, <4>2 DEF Newest
        <4> QED
          BY <1>3, <2>4, <3>1, <3>2, <4>2, <4>3 DEF Near
      <3>4. x \in Coincidences(released[p1], drained[p2])
        BY <3>1, <3>3 DEF Coincidences
      <3> QED
        BY <2>3, <3>4
    <2> QED
      BY <2>4, <2>9, <2>10, <2>11 DEF Passed, Forgotten, AllCounted, p1, p2
  <1>11. inOrder' = inOrder /\ exclusion_history' = exclusion_history
    BY <1>2
  <1>12. inOrder' => InSequence' /\ Retained'
    <2> SUFFICES ASSUME inOrder, NEW p \in Pairs, Spared(p)'
                 PROVE  (Passed(p) /\ Forgotten(p) /\ AllCounted(p))'
      BY <1>9, <1>11 DEF Retained
    <2>1. Spared(p)
      BY <1>11 DEF Spared
    <2> QED
      BY <1>10, <2>1
  <1> QED
    BY <1>1, <1>8, <1>12 DEF OrderInv

\* What release() hands over the live partners have passed and the kernel has
\* seen with all of their events that can meet it, and what it trims of a
\* partner is before all that is left.
LEMMA ReleaseOrders == ASSUME OrderInv, SpillRelease PROVE OrderInv'
  <1> DEFINE Taken(B, cut, p1) == ToSet(SubSeq(B[p1].arr, 1, cut[p1]))
  <1>1. SpillInv /\ Newest /\ SpillInv' /\ BuffersTyped
    BY ReleaseKeeps DEF OrderInv, SpillInv
  <1>2. PICK ready, B, cut, t2, left :
            /\ ready = Reloaded /\ B = Merged(ready) /\ cut = Cuts(B, WouldReleaseOf(ready))
            /\ t2 = Seen(B, cut) /\ left = Rest(B, cut, t2)
            /\ buf' = [c \in Channels |-> SpillOverflow(c, left[c])]
            /\ exclusion_history' = exclusion_history \cup DeadNow
            /\ released' = [p1 \in Px1 |-> released[p1] \cup Taken(B, cut, p1)]
            /\ tallied' = [p \in Pairs |-> tallied[p] \cup
                              Coincidences(Taken(B, cut, p[1]), ToSet(t2[p[2]].arr))]
            /\ inOrder' = (inOrder /\ \A c \in Channels : Chronological(buf'[c]))
            /\ UNCHANGED <<last_ts, quiet, since_start, drained>>
    BY DEF SpillRelease, HandsOver, Seen, Rest
  <1> DEFINE taken(p1) == Taken(B, cut, p1)
  <1>3. /\ \A p1 \in Px1 : /\ HoldsTheSame(buf[p1], B[p1]) /\ cut[p1] \in 0 .. Len(B[p1].arr)
                           /\ left[p1] = [B[p1] EXCEPT !.arr = Drop(@, cut[p1])]
        /\ \A p2 \in Px2 : left[p2] \in Buffers /\ NoEmptyFile(left[p2])
    BY <1>1, <1>2, Stages
  <1>4. ASSUME NEW p1 \in Px1
        PROVE  /\ left[p1] \in Buffers /\ NoEmptyFile(left[p1])
               /\ ToSet(Contents(buf[p1])) = ToSet(Contents(left[p1])) \cup taken(p1)
               /\ cut[p1] = 0 => taken(p1) = {}
    <2> DEFINE b == B[p1]
               n == cut[p1]
    <2>1. NoEmptyFile(buf[p1])
      BY <1>1, PixelsApart DEF BuffersTyped
    <2>2. b \in Buffers /\ NoEmptyFile(b) /\ n \in 0 .. Len(b.arr)
          /\ ToSet(Contents(b)) = ToSet(Contents(buf[p1]))
      BY <1>3, <2>1 DEF HoldsTheSame
    <2>3. LET c == [b EXCEPT !.arr = Drop(@, n)]
          IN  /\ c \in Buffers /\ (NoEmptyFile(b) => NoEmptyFile(c))
              /\ ToSet(Contents(b)) = ToSet(Contents(c)) \cup ToSet(SubSeq(b.arr, 1, n))
      <3> HIDE DEF b, n
      <3> QED
        BY <2>2, DropLeaves
    <2>4. SubSeq(b.arr, 1, 0) = <<>> /\ ToSet(<<>>) = {}
      <3>1. b.arr \in Seq(Nat)
        BY <2>2 DEF Buffers
      <3> QED
        BY <3>1 DEF ToSet
    <2> QED
      BY <1>3, <2>2, <2>3, <2>4
  <1>5. \A c \in Channels : Contents(buf'[c]) = Contents(left[c])
    <2>1. \A c \in Channels : left[c] \in Buffers
      BY <1>3, <1>4 DEF Channels
    <2>2. \A c \in Channels : buf'[c] = SpillOverflow(c, left[c])
      BY <1>2
    <2> QED
      BY <2>1, <2>2, SpillOverflowOrder
  <1>6. Newest'
    BY <1>1, <1>2 DEF Newest
  <1>7. SUFFICES ASSUME inOrder' PROVE InSequence' /\ Retained'
    BY <1>1, <1>6 DEF OrderInv
  <1>8. inOrder /\ \A c \in Channels : Chronological(buf'[c])
    BY <1>2, <1>7
  <1>9. InSequence /\ Retained
    BY <1>8 DEF OrderInv
  <1>10. InSequence'
    <2>1. \A c \in Channels : buf'[c] \in Buffers
      BY <1>1 DEF SpillInv, BuffersTyped
    <2> QED
      BY <1>8, <2>1, ChronologicalIs DEF InSequence
  <1>11. ASSUME NEW p \in Pairs, Spared(p)' PROVE (Passed(p) /\ Forgotten(p) /\ AllCounted(p))'
    <2> DEFINE p1 == p[1]
               p2 == p[2]
    <2>1. p1 \in Px1 /\ p1 \in Channels /\ p2 \in Px2 /\ p2 \in Channels
      BY PairChannels
    <2>2. Spared(p) /\ p1 \notin DeadNow /\ p2 \notin DeadNow
      BY <1>2, <1>11 DEF Spared
    <2>3. Passed(p) /\ Forgotten(p) /\ AllCounted(p)
      BY <1>9, <2>2 DEF Retained
    <2>4. /\ \A t \in taken(p1) : last_ts[p2] # None /\ t + Tmax =< last_ts[p2]
          /\ cut[p1] # 0 => ToSet(t2[p2].arr) = ToSet(Contents(buf[p2]))
          /\ \A t \in ToSet(Contents(buf[p2])) \ ToSet(Contents(left[p2])) :
                /\ next_needed(p1, left[p1]) # None
                /\ t + Tmax < next_needed(p1, left[p1])
      BY <1>1, <1>2, <1>9, <2>2, OrderedStages
    <2>5. /\ released'[p1] = released[p1] \cup taken(p1)
          /\ tallied'[p] = tallied[p] \cup Coincidences(taken(p1), ToSet(t2[p2].arr))
          /\ last_ts' = last_ts /\ drained' = drained
      BY <1>2, <2>1
    <2>6. /\ left[p1] \in Buffers /\ NoEmptyFile(left[p1])
          /\ ToSet(Contents(buf[p1])) = ToSet(Contents(left[p1])) \cup taken(p1)
          /\ cut[p1] = 0 => taken(p1) = {}
      BY <1>4, <2>1
    <2>7. /\ Contents(buf'[p1]) = Contents(left[p1]) /\ Contents(buf'[p2]) = Contents(left[p2])
          /\ Sorted(Contents(left[p1]))
      BY <1>5, <1>10, <2>1 DEF InSequence
    <2>8. /\ \A t \in released[p1] : last_ts[p2] # None /\ t + Tmax =< last_ts[p2]
          /\ \A t \in drained[p2] \ ToSet(Contents(buf[p2])) :
                /\ last_ts[p1] # None /\ t + Tmax < last_ts[p1]
                /\ \A v \in ToSet(Contents(buf[p1])) : t + Tmax < v
          /\ Coincidences(released[p1], drained[p2]) \subseteq tallied[p]
      BY <2>3 DEF Passed, Forgotten, AllCounted
    <2>9. /\ drained[p1] \in SUBSET Nat /\ drained[p2] \in SUBSET Nat
          /\ ToSet(Contents(buf[p1])) \subseteq drained[p1]
          /\ last_ts[p1] \in Nat \cup {None} /\ Tmax \in Nat
      BY <1>1, <2>1, GraphAssumption DEF SpillInv, BuffersTyped, HistoryTyped, StallTyped
    <2>10. \A t \in drained[p1] : last_ts[p1] # None /\ t =< last_ts[p1]
      BY <1>1, <2>1 DEF Newest
    <2> HIDE DEF p1, p2, taken, Taken
    <2>11. \A t \in released'[p1] : last_ts'[p2] # None /\ t + Tmax =< last_ts'[p2]
      BY <2>4, <2>5, <2>8
    <2>12. ASSUME NEW t \in drained[p2], t \notin ToSet(Contents(left[p2]))
           PROVE  /\ last_ts[p1] # None /\ t + Tmax < last_ts[p1]
                  /\ \A v \in ToSet(Contents(left[p1])) : t + Tmax < v
      <3>1. CASE t \notin ToSet(Contents(buf[p2]))
        BY <2>6, <2>8, <2>12, <3>1
      <3>2. CASE t \in ToSet(Contents(buf[p2]))
        <4> DEFINE next == next_needed(p1, left[p1])
        <4>1. next # None /\ t + Tmax < next
          BY <2>4, <2>12, <3>2
        <4>2. t \in Nat /\ \A v \in ToSet(Contents(left[p1])) : v \in Nat /\ v \in drained[p1]
          BY <2>6, <2>9
        <4>3. CASE earliest(left[p1]) = None
          <5>1. ToSet(Contents(left[p1])) = {}
            BY <2>6, <4>3, EarliestIs
          <5>2. next = last_ts[p1]
            BY <4>3 DEF next_needed
          <5> QED
            BY <4>1, <5>1, <5>2
        <4>4. CASE earliest(left[p1]) # None
          <5>1. next = earliest(left[p1])
            BY <4>4 DEF next_needed
          <5>2. /\ next \in ToSet(Contents(left[p1])) /\ next \in Nat
                /\ \A v \in ToSet(Contents(left[p1])) : next =< v
            BY <2>6, <2>7, <4>4, <5>1, EarliestIs
          <5> HIDE DEF next
          <5>3. last_ts[p1] # None /\ next =< last_ts[p1] /\ last_ts[p1] \in Nat
            BY <2>9, <2>10, <4>2, <5>2
          <5>4. \A v \in ToSet(Contents(left[p1])) : t + Tmax < v
            BY <2>9, <4>1, <4>2, <5>2
          <5> QED
            BY <2>9, <4>1, <4>2, <5>2, <5>3, <5>4
        <4> QED
          BY <4>3, <4>4
      <3> QED
        BY <3>1, <3>2
    <2>13. \A t \in drained'[p2] \ ToSet(Contents(buf'[p2])) :
              /\ last_ts'[p1] # None /\ t + Tmax < last_ts'[p1]
              /\ \A v \in ToSet(Contents(buf'[p1])) : t + Tmax < v
      BY <2>5, <2>7, <2>12
    <2>14. ASSUME NEW x \in Coincidences(released'[p1], drained'[p2]) PROVE x \in tallied'[p]
      <3>1. /\ x = <<x[1], x[2]>> /\ x[1] \in released[p1] \cup taken(p1) /\ x[2] \in drained[p2]
            /\ Near(x[1], x[2])
        BY <2>5 DEF Coincidences
      <3>2. CASE x[1] \in released[p1]
        <4>1. x \in Coincidences(released[p1], drained[p2])
          BY <3>1, <3>2 DEF Coincidences
        <4> QED
          BY <2>5, <2>8, <4>1
      <3>3. CASE x[1] \in taken(p1)
        <4>1. x[1] \in ToSet(Contents(buf[p1])) /\ x[1] \in Nat /\ x[2] \in Nat
          BY <2>6, <2>9, <3>1, <3>3
        <4>2. x[2] \in ToSet(Contents(buf[p2]))
          <5>1. ~(x[2] + Tmax < x[1])
            BY <2>9, <3>1, <4>1 DEF Near
          <5> QED
            BY <2>8, <3>1, <4>1, <5>1
        <4>3. x[2] \in ToSet(t2[p2].arr)
          BY <2>4, <2>6, <3>3, <4>2
        <4>4. x \in Coincidences(taken(p1), ToSet(t2[p2].arr))
          BY <3>1, <3>3, <4>3 DEF Coincidences
        <4> QED
          BY <2>5, <4>4
      <3> QED
        BY <3>1, <3>2, <3>3
    <2> QED
      BY <2>11, <2>13, <2>14 DEF Passed, Forgotten, AllCounted, p1, p2
  <1> QED
    BY <1>10, <1>11 DEF Retained

LEMMA OrderStep == OrderInv /\ [SpillNext]_spillvars => OrderInv'
  <1> SUFFICES ASSUME OrderInv, [SpillNext]_spillvars PROVE OrderInv'
    OBVIOUS
  <1>1. CASE SpillTick
    BY <1>1, TickOrders
  <1>2. CASE \E c \in Channels : Drain(c)
    BY <1>2, DrainOrders
  <1>3. CASE SpillRelease
    BY <1>3, ReleaseOrders
  <1>4. CASE UNCHANGED spillvars
    <2>1. SpillInv'
      BY StepKeeps DEF OrderInv
    <2> QED
      BY <1>4, <2>1 DEF spillvars, OrderInv, Newest, InSequence, Retained, Spared, Passed, Forgotten, AllCounted
  <1> QED
    BY <1>1, <1>2, <1>3, <1>4 DEF SpillNext

LEMMA InvImplies == SpillInv => SpillTypeOK /\ Conserved
  <1> SUFFICES ASSUME SpillInv PROVE SpillTypeOK
    BY DEF SpillInv
  <1>1. ASSUME NEW c \in Channels
        PROVE  /\ DOMAIN buf[c] = {"files", "arr", "pending"}
               /\ \A i \in DOMAIN buf[c].files : buf[c].files[i] # <<>>
               /\ ToSet(Contents(buf[c])) \subseteq Photons[c]
    <2>1. buf[c] \in Buffers /\ NoEmptyFile(buf[c]) /\ ToSet(Contents(buf[c])) \subseteq drained[c]
      BY DEF SpillInv, BuffersTyped
    <2>2. drained[c] \subseteq Photons[c]
      BY DEF SpillInv, HistoryTyped
    <2>3. DOMAIN buf[c] = {"files", "arr", "pending"} /\ DOMAIN buf[c].files = 1 .. Len(buf[c].files)
      BY <2>1 DEF Buffers
    <2> QED
      BY <2>1, <2>2, <2>3 DEF NoEmptyFile
  <1> QED
    BY <1>1 DEF SpillTypeOK, SpillInv, StallTyped, HistoryTyped
-----------------------------------------------------------------------------
\* Every buffer is typed, no file is empty, and a channel holds events of its own.
THEOREM BuffersAreTyped == SpillSpec => []SpillTypeOK
  BY InitHolds, StepKeeps, InvImplies, PTL DEF SpillSpec

\* Spilling, reloading, the capped drain of a dead partner's backlog and the
\* release neither lose nor double an event of a node-1 channel, whatever the
\* order their reloads leave the buffers in.
THEOREM NothingLostOnDisk == SpillSpec => []Conserved
  BY InitHolds, StepKeeps, InvImplies, PTL DEF SpillSpec

\* After every release a channel with a lagging partner has at most the tail in RAM.
THEOREM TailIsCapped == SpillSpec => RamCapped
  <1> DEFINE Capped == \A c \in Channels :
            InRam(buf'[c]) > Chunk =>
                (IF c \in Px1 THEN partners1(c) ELSE partners2(c)) \cap LaggingNow = {}
             Still == UNCHANGED <<last_ts, quiet, since_start, drained>>
  <1>1. ASSUME SpillInv, SpillRelease PROVE Capped
    <2>1. BuffersTyped'
      BY <1>1, ReleaseKeeps DEF SpillInv
    <2>2. SUFFICES ASSUME NEW c \in Channels
                   PROVE  InRam(buf'[c]) > Chunk =>
                             (IF c \in Px1 THEN partners1(c) ELSE partners2(c)) \cap LaggingNow = {}
      OBVIOUS
    <2> DEFINE b == buf'[c]
               lags == (IF c \in Px1 THEN partners1(c) ELSE partners2(c)) \cap LaggingNow # {}
    <2>3. lags => InRam(b) =< Chunk
      BY <1>1, ReleaseKeeps
    <2>4. b.arr \in Seq(Nat) /\ b.pending \in Seq(Nat)
      BY <2>1 DEF BuffersTyped, Buffers
    <2> HIDE DEF b
    <2>5. Len(b.arr) \in Nat /\ Len(b.pending) \in Nat
      BY <2>4
    <2>6. \A x, y \in Nat : x + y \in Nat
      OBVIOUS
    <2>7. InRam(b) \in Nat
      BY <2>5, <2>6, Zenon DEF InRam
    <2>8. InRam(b) =< Chunk => ~(InRam(b) > Chunk)
      BY <2>7, GraphAssumption
    <2> QED
      BY <2>3, <2>8 DEF b
  <1>2. SpillTick /\ Still => UNCHANGED spillvars
    BY DEF SpillTick, spillvars
  <1>3. ASSUME SpillInv, NEW c \in Channels, Drain(c) PROVE ~Still
    <2>1. PICK t \in Photons[c] : NextPhoton(c, drained[c], t)
                                 /\ drained' = [drained EXCEPT ![c] = @ \cup {t}]
      BY <1>3 DEF Drain
    <2>2. t \in Nat /\ t \notin drained[c]
      BY <2>1, GraphAssumption DEF NextPhoton
    <2>3. drained'[c] = drained[c] \cup {t}
      BY <1>3, <2>1 DEF SpillInv, HistoryTyped
    <2> QED
      BY <2>2, <2>3
  <1>4. SpillInv /\ [SpillNext]_spillvars => [Still => Capped]_spillvars
    BY <1>1, <1>2, <1>3 DEF SpillNext
  <1> QED
    BY <1>4, InitHolds, StepKeeps, PTL DEF SpillSpec, RamCapped

\* As long as the buffers have been in order, a released event of a pair never
\* reported dead has all its coincidences counted, whatever went through the
\* spill files on the way: reloading before use keeps the retention promise.
THEOREM KeepsPromiseInOrder == SpillSpec => []NothingLostInOrder
  <1>1. OrderInv => NothingLostInOrder
    BY DEF OrderInv, NothingLostInOrder, Retained, Spared, AllCounted
  <1> QED
    BY <1>1, InitOrders, OrderStep, PTL DEF SpillSpec
=============================================================================
