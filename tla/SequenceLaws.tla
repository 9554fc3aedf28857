----------------------------- MODULE SequenceLaws -----------------------------
(***************************************************************************)
(* What the proofs about sequences share: concatenation, FlattenSeq, and   *)
(* least elements in place of an induction.                                *)
(***************************************************************************)
EXTENDS Integers, SequencesExt, WellFoundedInduction, TLAPS

LEMMA Joining ==
    ASSUME NEW S, NEW s \in Seq(S), NEW t \in Seq(S), NEW u \in Seq(S)
    PROVE  /\ s \o t \in Seq(S) /\ (s \o t) \o u = s \o (t \o u)
           /\ s \o <<>> = s /\ <<>> \o s = s
  OBVIOUS

\* Concatenation and Append as operators the provers do not look into.
Cat(s, t) == s \o t
Plus(s, e) == Append(s, e)

LEMMA CatTyped == ASSUME NEW S PROVE \A s, t \in Seq(S) : Cat(s, t) \in Seq(S)
  BY DEF Cat

LEMMA CatGroups ==
    ASSUME NEW S PROVE \A s, t, u \in Seq(S) : Cat(Cat(s, t), u) = Cat(s, Cat(t, u))
  BY DEF Cat

LEMMA CatEmpty ==
    ASSUME NEW S
    PROVE  <<>> \in Seq(S) /\ \A s \in Seq(S) : Cat(s, <<>>) = s /\ Cat(<<>>, s) = s
  BY DEF Cat

LEMMA CatAppends ==
    ASSUME NEW S
    PROVE  \A s, t \in Seq(S), e \in S : Cat(s, Plus(t, e)) = Plus(Cat(s, t), e)
  BY DEF Cat, Plus

LEMMA AppendAt ==
    ASSUME NEW S, NEW s \in Seq(S), NEW e \in S
    PROVE  /\ Len(s) \in Nat /\ Append(s, e) \in Seq(S) /\ Len(Append(s, e)) = Len(s) + 1
           /\ \A i \in 1 .. Len(s) + 1 : Append(s, e)[i] = IF i = Len(s) + 1 THEN e ELSE s[i]
  OBVIOUS

LEMMA Least ==
    ASSUME NEW B \in SUBSET Nat, B # {}
    PROVE  \E n \in B : \A i \in B : n =< i
  <1>1. PICK n \in B : \A i \in B : ~(<<i, n>> \in OpToRel(<, Nat))
    BY WFMin, NatLessThanWellFounded
  <1>2. ASSUME NEW i \in B PROVE n =< i
    <2>1. <<i, n>> \in Nat \X Nat /\ i \in Nat /\ n \in Nat
      OBVIOUS
    <2>2. ~(i < n)
      BY <1>1, <2>1, Zenon DEF OpToRel
    <2> QED
      BY <2>1, <2>2
  <1> QED
    BY <1>2

\* The concatenations of the first 0, 1, ..., n sequences of s.
SumsTo(S, s, n, f) ==
    /\ f \in [0 .. n -> Seq(S)] /\ f[0] = <<>>
    /\ \A i \in 1 .. n : f[i] = f[i - 1] \o s[i]

LEMMA SumsExist ==
    ASSUME NEW S, NEW s \in Seq(Seq(S)) PROVE \E f : SumsTo(S, s, Len(s), f)
  <1> DEFINE B == {n \in 0 .. Len(s) : ~\E f : SumsTo(S, s, n, f)}
  <1>0. Len(s) \in Nat /\ Len(s) \in 0 .. Len(s)
    OBVIOUS
  <1>1. SUFFICES ASSUME B # {} PROVE FALSE
    BY <1>0
  <1>2. B \in SUBSET Nat
    OBVIOUS
  <1>3. PICK n \in B : \A i \in B : n =< i
    BY <1>1, <1>2, Least
  <1>4. n # 0
    <2> DEFINE f == [i \in 0 .. 0 |-> <<>>]
    <2>1. SumsTo(S, s, 0, f)
      BY DEF SumsTo
    <2> QED
      BY <1>3, <2>1
  <1>5. n - 1 \in 0 .. Len(s) /\ n - 1 \notin B /\ n \in 1 .. Len(s)
    <2>1. n \in Nat /\ n =< Len(s) /\ n - 1 \in 0 .. Len(s) /\ n \in 1 .. Len(s)
      BY <1>0, <1>3, <1>4
    <2>2. ~(n =< n - 1)
      BY <2>1
    <2> QED
      BY <1>3, <2>1, <2>2
  <1>6. PICK f : SumsTo(S, s, n - 1, f)
    BY <1>5
  <1> DEFINE g == [i \in 0 .. n |-> IF i = n THEN f[n - 1] \o s[n] ELSE f[i]]
  <1>7. f[n - 1] \o s[n] \in Seq(S)
    <2>1. f[n - 1] \in Seq(S) /\ s[n] \in Seq(S)
      BY <1>5, <1>6 DEF SumsTo
    <2> QED
      BY <2>1, Joining
  <1>8. SumsTo(S, s, n, g)
    <2>1. g \in [0 .. n -> Seq(S)]
      <3>1. \A i \in 0 .. n : i # n => i \in 0 .. n - 1
        BY <1>5
      <3> QED
        BY <1>6, <1>7, <3>1 DEF SumsTo
    <2>2. g[0] = <<>>
      BY <1>4, <1>5, <1>6 DEF SumsTo
    <2>3. ASSUME NEW i \in 1 .. n PROVE g[i] = g[i - 1] \o s[i]
      <3>1. i \in 0 .. n /\ i - 1 \in 0 .. n /\ i - 1 # n /\ g[i - 1] = f[i - 1]
        BY <1>5
      <3>2. CASE i = n
        BY <3>1, <3>2
      <3>3. CASE i # n
        <4>1. i \in 1 .. n - 1
          BY <1>5, <3>3
        <4> QED
          BY <1>6, <3>1, <3>3, <4>1 DEF SumsTo
      <3> QED
        BY <3>2, <3>3
    <2> QED
      BY <2>1, <2>2, <2>3 DEF SumsTo
  <1> HIDE DEF g
  <1> QED
    BY <1>3, <1>8

\* They are determined by the sequences they sum.
LEMMA SumsAgree ==
    ASSUME NEW S, NEW n \in Nat, NEW s, NEW t, \A i \in 1 .. n : s[i] = t[i],
           NEW f, NEW g, SumsTo(S, s, n, f), SumsTo(S, t, n, g)
    PROVE  \A i \in 0 .. n : f[i] = g[i]
  <1> DEFINE B == {i \in 0 .. n : f[i] # g[i]}
  <1>1. SUFFICES ASSUME B # {} PROVE FALSE
    OBVIOUS
  <1>2. B \in SUBSET Nat
    OBVIOUS
  <1>3. PICK i \in B : \A j \in B : i =< j
    BY <1>1, <1>2, Least
  <1>4. i # 0
    BY <1>3 DEF SumsTo
  <1>5. i \in 1 .. n /\ i - 1 \in 0 .. n /\ i - 1 \notin B
    BY <1>3, <1>4
  <1>6. f[i] = f[i - 1] \o s[i] /\ g[i] = g[i - 1] \o t[i] /\ f[i - 1] = g[i - 1]
    BY <1>5 DEF SumsTo
  <1> QED
    BY <1>3, <1>5, <1>6

\* FlattenSeq is the last of them.
LEMMA FlattenSum ==
    ASSUME NEW S, NEW s \in Seq(Seq(S)), NEW f, SumsTo(S, s, Len(s), f)
    PROVE  FlattenSeq(s) = f[Len(s)]
  <1>1. CASE Len(s) = 0
    <2>1. s = <<>>
      BY <1>1
    <2> QED
      BY <1>1, <2>1 DEF FlattenSeq, SumsTo
  <1>2. CASE Len(s) # 0
    <2> DEFINE n == Len(s)
               Unfolds(g) == g = [i \in 1 .. n |-> IF i = 1 THEN s[i] ELSE g[i - 1] \o s[i]]
               h == [i \in 1 .. n |-> f[i]]
    <2>0. n \in Nat /\ n # 0
      BY <1>2
    <2>1. FlattenSeq(s) = (CHOOSE g : Unfolds(g))[n]
      BY <1>2 DEF FlattenSeq
    <2>2. Unfolds(h)
      <3>1. ASSUME NEW i \in 1 .. n PROVE f[i] = IF i = 1 THEN s[i] ELSE h[i - 1] \o s[i]
        <4>1. CASE i = 1
          <5>1. f[1] = f[0] \o s[1] /\ f[0] = <<>> /\ s[1] \in Seq(S)
            <6>1. 1 \in 1 .. n /\ 1 - 1 = 0
              BY <2>0
            <6>2. f[0] = <<>> /\ \A k \in 1 .. n : f[k] = f[k - 1] \o s[k]
              BY DEF SumsTo
            <6>3. f[1] = f[1 - 1] \o s[1]
              BY <6>1, <6>2
            <6>4. s[1] \in Seq(S)
              BY <6>1
            <6> QED
              BY <6>1, <6>2, <6>3, <6>4
          <5>2. <<>> \o s[1] = s[1]
            BY <5>1, Joining
          <5> QED
            BY <4>1, <5>1, <5>2
        <4>2. CASE i # 1
          <5>1. i - 1 \in 1 .. n
            BY <2>0, <4>2
          <5>2. h[i - 1] = f[i - 1]
            BY <5>1
          <5> QED
            BY <4>2, <5>2 DEF SumsTo
        <4> QED
          BY <4>1, <4>2
      <3> QED
        BY <3>1
    <2> DEFINE g == CHOOSE x : Unfolds(x)
    <2>3. Unfolds(g)
      BY <2>2
    <2>4. \A i \in 1 .. n : g[i] = IF i = 1 THEN s[i] ELSE g[i - 1] \o s[i]
      BY <2>3
    <2>5. \A i \in 1 .. n : f[i] = IF i = 1 THEN s[i] ELSE f[i - 1] \o s[i]
      <3>1. \A i \in 1 .. n : h[i] = IF i = 1 THEN s[i] ELSE h[i - 1] \o s[i]
        BY <2>2
      <3>2. \A i \in 1 .. n : i # 1 => i - 1 \in 1 .. n
        BY <2>0
      <3> QED
        BY <3>1, <3>2
    <2> HIDE DEF g, Unfolds
    <2>6. g[n] = f[n]
      <3> DEFINE B == {i \in 1 .. n : f[i] # g[i]}
      <3>1. SUFFICES ASSUME B # {} PROVE FALSE
        BY <2>0
      <3>2. B \in SUBSET Nat
        OBVIOUS
      <3>3. PICK i \in B : \A j \in B : i =< j
        BY <3>1, <3>2, Least
      <3>4. i # 1
        BY <2>4, <2>5, <3>3
      <3>5. i \in 1 .. n /\ i - 1 \in 1 .. n /\ i - 1 \notin B
        BY <2>0, <3>3, <3>4
      <3>6. f[i] = f[i - 1] \o s[i] /\ g[i] = g[i - 1] \o s[i] /\ f[i - 1] = g[i - 1]
        BY <2>4, <2>5, <3>4, <3>5
      <3> QED
        BY <3>3, <3>6
    <2> QED
      BY <2>1, <2>6 DEF g
  <1> QED
    BY <1>1, <1>2

LEMMA FlattenEmpty == FlattenSeq(<<>>) = <<>>
  BY DEF FlattenSeq

LEMMA FlattenType ==
    ASSUME NEW S, NEW s \in Seq(Seq(S)) PROVE FlattenSeq(s) \in Seq(S)
  <1>1. PICK f : SumsTo(S, s, Len(s), f)
    BY SumsExist
  <1>2. FlattenSeq(s) = f[Len(s)]
    BY <1>1, FlattenSum
  <1>3. Len(s) \in 0 .. Len(s)
    OBVIOUS
  <1> QED
    BY <1>1, <1>2, <1>3 DEF SumsTo

LEMMA FlattenAppend ==
    ASSUME NEW S, NEW s \in Seq(Seq(S)), NEW x \in Seq(S)
    PROVE  FlattenSeq(Append(s, x)) = FlattenSeq(s) \o x
  <1> DEFINE n == Len(s)
             t == Append(s, x)
  <1>1. n \in Nat /\ t \in Seq(Seq(S)) /\ Len(t) = n + 1 /\ t[n + 1] = x
        /\ \A i \in 1 .. n : t[i] = s[i]
    OBVIOUS
  <1> HIDE DEF t
  <1>2. PICK f : SumsTo(S, s, n, f)
    BY SumsExist
  <1>3. PICK g : SumsTo(S, t, n + 1, g)
    BY <1>1, SumsExist
  <1> DEFINE h == [i \in 0 .. n |-> g[i]]
  <1>4. SumsTo(S, t, n, h)
    <2>1. h \in [0 .. n -> Seq(S)] /\ h[0] = <<>>
      BY <1>1, <1>3 DEF SumsTo
    <2>2. ASSUME NEW i \in 1 .. n PROVE h[i] = h[i - 1] \o t[i]
      <3>1. i \in 1 .. n + 1 /\ i \in 0 .. n /\ i - 1 \in 0 .. n
        BY <1>1
      <3> QED
        BY <1>3, <3>1 DEF SumsTo
    <2> QED
      BY <2>1, <2>2 DEF SumsTo
  <1>5. g[n] = f[n]
    <2>1. n \in 0 .. n
      BY <1>1
    <2>2. f[n] = h[n]
      <3>1. n \in Nat /\ \A i \in 1 .. n : s[i] = t[i]
        BY <1>1
      <3>2. \A i \in 0 .. n : f[i] = h[i]
        <4> HIDE DEF n, h
        <4> QED
          BY <1>2, <1>4, <3>1, SumsAgree
      <3> QED
        BY <2>1, <3>2
    <2> QED
      BY <2>1, <2>2
  <1>6. g[n + 1] = g[n] \o x
    <2>1. n + 1 \in 1 .. n + 1 /\ (n + 1) - 1 = n
      BY <1>1
    <2>2. \A i \in 1 .. n + 1 : g[i] = g[i - 1] \o t[i]
      BY <1>3 DEF SumsTo
    <2>3. g[n + 1] = g[(n + 1) - 1] \o t[n + 1]
      BY <2>1, <2>2
    <2> QED
      BY <1>1, <2>1, <2>3
  <1>7. FlattenSeq(s) = f[n] /\ FlattenSeq(t) = g[n + 1]
    BY <1>1, <1>2, <1>3, FlattenSum
  <1> QED
    BY <1>5, <1>6, <1>7 DEF t

LEMMA FlattenHead ==
    ASSUME NEW S, NEW s \in Seq(Seq(S)), s # <<>>
    PROVE  FlattenSeq(s) = Head(s) \o FlattenSeq(Tail(s))
  <1>r. \A x, y, z \in Seq(S) : (x \o y) \o z = x \o (y \o z)
    OBVIOUS
  <1> DEFINE n == Len(s)
             t == Tail(s)
  <1>1. /\ n \in Nat \ {0} /\ t \in Seq(Seq(S)) /\ Len(t) = n - 1 /\ Head(s) = s[1] /\ s[1] \in Seq(S)
        /\ \A i \in 1 .. n - 1 : t[i] = s[i + 1] /\ s[i + 1] \in Seq(S)
    OBVIOUS
  <1>2. PICK f : SumsTo(S, s, n, f)
    BY SumsExist
  <1>0. n = Len(s) /\ t = Tail(s)
    OBVIOUS
  <1> HIDE DEF n, t
  <1>3. PICK g : SumsTo(S, t, n - 1, g)
    BY <1>1, SumsExist
  <1>4. f[0] = <<>> /\ g[0] = <<>> /\ \A i \in 1 .. n : f[i] = f[i - 1] \o s[i]
    BY <1>2, <1>3 DEF SumsTo
  <1>5. \A i \in 0 .. n - 1 : f[i + 1] = s[1] \o g[i]
    <2> DEFINE B == {i \in 0 .. n - 1 : f[i + 1] # s[1] \o g[i]}
    <2>1. SUFFICES ASSUME B # {} PROVE FALSE
      OBVIOUS
    <2>2. B \in SUBSET Nat
      <3>1. \A i \in 0 .. n - 1 : i \in Nat
        BY <1>1
      <3> QED
        BY <3>1
    <2>3. PICK i \in B : \A j \in B : i =< j
      BY <2>1, <2>2, Least
    <2>4. i # 0
      <3>1. 1 \in 1 .. n /\ 1 - 1 = 0 /\ 0 + 1 = 1
        BY <1>1
      <3>2. f[1] = f[1 - 1] \o s[1]
        BY <1>4, <3>1
      <3>3. f[1] = s[1]
        <4>1. f[1] = <<>> \o s[1]
          BY <1>4, <3>1, <3>2
        <4> QED
          BY <1>1, <4>1, Joining
      <3>4. f[0 + 1] = s[1] \o g[0]
        BY <1>1, <1>4, <3>1, <3>3, Joining
      <3> QED
        BY <2>3, <3>4
    <2>5. /\ i \in 1 .. n - 1 /\ i - 1 \in 0 .. n - 1 /\ i - 1 \notin B /\ i + 1 \in 1 .. n
          /\ (i - 1) + 1 = i /\ (i + 1) - 1 = i
      <3>1. i \in 0 .. n - 1 /\ n \in Nat
        BY <1>1, <2>3
      <3>2. i \in 1 .. n - 1 /\ i - 1 \in 0 .. n - 1 /\ i + 1 \in 1 .. n
        BY <2>4, <3>1
      <3>3. (i - 1) + 1 = i /\ (i + 1) - 1 = i /\ ~(i =< i - 1)
        BY <3>1
      <3>4. i - 1 \notin B
        BY <2>3, <3>3
      <3> HIDE DEF B
      <3> QED
        BY <3>2, <3>3, <3>4
    <2>6. f[(i - 1) + 1] = s[1] \o g[i - 1]
      BY <2>5
    <2>7. f[i] = s[1] \o g[i - 1]
      BY <2>5, <2>6
    <2>8. f[i + 1] = f[i] \o s[i + 1]
      <3>1. f[i + 1] = f[(i + 1) - 1] \o s[i + 1]
        BY <1>4, <2>5
      <3> QED
        BY <2>5, <3>1
    <2>9. g[i] = g[i - 1] \o s[i + 1] /\ g[i - 1] \in Seq(S)
      BY <1>1, <1>3, <2>5 DEF SumsTo
    <2>10. f[i + 1] = s[1] \o g[i]
      <3>1. s[i + 1] \in Seq(S) /\ t[i] = s[i + 1] /\ s[1] \in Seq(S)
        BY <1>1, <2>5
      <3>2. (s[1] \o g[i - 1]) \o s[i + 1] = s[1] \o (g[i - 1] \o s[i + 1])
        BY <1>r, <2>9, <3>1, Zenon
      <3> QED
        BY <2>7, <2>8, <2>9, <3>2
    <2> QED
      BY <2>3, <2>10
  <1>6. n - 1 \in 0 .. n - 1 /\ (n - 1) + 1 = n
    BY <1>1
  <1>7. f[n] = s[1] \o g[n - 1]
    <2>1. f[(n - 1) + 1] = s[1] \o g[n - 1]
      BY <1>5, <1>6
    <2> QED
      BY <1>6, <2>1
  <1>8. FlattenSeq(s) = f[n] /\ FlattenSeq(t) = g[n - 1]
    BY <1>0, <1>1, <1>2, <1>3, FlattenSum
  <1> QED
    BY <1>0, <1>1, <1>7, <1>8

LEMMA FlattenCat ==
    ASSUME NEW S, NEW s \in Seq(Seq(S)), NEW t \in Seq(Seq(S))
    PROVE  FlattenSeq(s \o t) = Cat(FlattenSeq(s), FlattenSeq(t))
  <1> DEFINE n == Len(t)
             p(i) == SubSeq(t, 1, i)
             B == {i \in 0 .. n : FlattenSeq(s \o p(i)) # Cat(FlattenSeq(s), FlattenSeq(p(i)))}
  <1>1. n \in Nat /\ p(n) = t
    OBVIOUS
  <1>2. SUFFICES ASSUME B # {} PROVE FALSE
    <2>1. n \in 0 .. n
      BY <1>1
    <2>2. n \notin B => FlattenSeq(s \o p(n)) = Cat(FlattenSeq(s), FlattenSeq(p(n)))
      <3> HIDE DEF n, p
      <3> QED
        BY <2>1
    <2> HIDE DEF p
    <2> QED
      BY <1>1, <2>2, Zenon
  <1>3. B \in SUBSET Nat
    OBVIOUS
  <1>4. PICK i \in B : \A j \in B : i =< j
    BY <1>2, <1>3, Least
  <1>5. i # 0
    <2>1. s \o p(0) = s /\ p(0) = <<>>
      OBVIOUS
    <2>2. Cat(FlattenSeq(s), <<>>) = FlattenSeq(s)
      BY FlattenType, CatEmpty
    <2>3. FlattenSeq(s \o p(0)) = Cat(FlattenSeq(s), FlattenSeq(p(0)))
      BY <2>1, <2>2, FlattenEmpty
    <2> QED
      BY <1>4, <2>3
  <1>6. i \in 1 .. n /\ i - 1 \in 0 .. n /\ ~(i =< i - 1)
    BY <1>1, <1>4, <1>5
  <1>7. i - 1 \notin B
    BY <1>4, <1>6
  <1>8. FlattenSeq(s \o p(i - 1)) = Cat(FlattenSeq(s), FlattenSeq(p(i - 1)))
    BY <1>6, <1>7
  <1> DEFINE q == p(i - 1)
             x == t[i]
  <1>9. q \in Seq(Seq(S)) /\ x \in Seq(S) /\ s \o q \in Seq(Seq(S))
    <2>1. q \in Seq(Seq(S)) /\ x \in Seq(S)
      BY <1>6
    <2> QED
      BY <2>1, Joining
  <1>10. p(i) = Append(q, x)
    BY <1>6
  <1>11. i \in B
    BY <1>4
  <1>12. FlattenSeq(s \o Append(q, x)) # Cat(FlattenSeq(s), FlattenSeq(Append(q, x)))
    BY <1>10, <1>11
  <1>13. FlattenSeq(s \o q) = Cat(FlattenSeq(s), FlattenSeq(q))
    BY <1>8
  <1> HIDE DEF q, x, B, p
  <1>14. s \o Append(q, x) = Append(s \o q, x)
    BY <1>9
  <1>15. FlattenSeq(Append(s \o q, x)) = Cat(Cat(FlattenSeq(s), FlattenSeq(q)), x)
    <2>1. FlattenSeq(Append(s \o q, x)) = FlattenSeq(s \o q) \o x
      <3> DEFINE y == s \o q
      <3>1. y \in Seq(Seq(S))
        BY <1>9
      <3> HIDE DEF y
      <3>2. FlattenSeq(Append(y, x)) = FlattenSeq(y) \o x
        BY <1>9, <3>1, FlattenAppend
      <3> QED
        BY <3>2 DEF y
    <2> QED
      BY <1>13, <2>1 DEF Cat
  <1>16. Cat(FlattenSeq(s), FlattenSeq(Append(q, x))) = Cat(FlattenSeq(s), Cat(FlattenSeq(q), x))
    BY <1>9, FlattenAppend DEF Cat
  <1>17. Cat(Cat(FlattenSeq(s), FlattenSeq(q)), x) = Cat(FlattenSeq(s), Cat(FlattenSeq(q), x))
    BY <1>9, FlattenType, CatGroups
  <1> QED
    BY <1>12, <1>14, <1>15, <1>16, <1>17

LEMMA FlattenOne == ASSUME NEW S, NEW x \in Seq(S) PROVE FlattenSeq(<<x>>) = x
  <1>1. <<>> \in Seq(Seq(S)) /\ Append(<<>>, x) = <<x>>
    OBVIOUS
  <1>2. FlattenSeq(Append(<<>>, x)) = FlattenSeq(<<>>) \o x
    BY <1>1, FlattenAppend
  <1> QED
    BY <1>1, <1>2, FlattenEmpty, Joining

\* The elements of a concatenation, and whether one comes twice.
LEMMA CatSet ==
    ASSUME NEW S, NEW s \in Seq(S), NEW t \in Seq(S)
    PROVE  ToSet(Cat(s, t)) = ToSet(s) \cup ToSet(t)
  <1> DEFINE c == Cat(s, t)
  <1>1. /\ Len(s) \in Nat /\ Len(t) \in Nat /\ Len(c) = Len(s) + Len(t)
        /\ DOMAIN c = 1 .. Len(s) + Len(t)
        /\ \A i \in 1 .. Len(s) : c[i] = s[i]
        /\ \A i \in 1 .. Len(t) : c[Len(s) + i] = t[i]
        /\ \A i \in DOMAIN c : i > Len(s) => i - Len(s) \in 1 .. Len(t) /\ c[i] = t[i - Len(s)]
    BY DEF Cat
  <1>2. DOMAIN s = 1 .. Len(s) /\ DOMAIN t = 1 .. Len(t)
    OBVIOUS
  <1> HIDE DEF c
  <1>3. ASSUME NEW i \in DOMAIN c PROVE c[i] \in ToSet(s) \cup ToSet(t)
    <2>1. CASE i =< Len(s)
      BY <1>1, <1>2, <2>1 DEF ToSet
    <2>2. CASE i > Len(s)
      BY <1>1, <1>2, <2>2 DEF ToSet
    <2> QED
      BY <1>1, <2>1, <2>2
  <1>4. ASSUME NEW i \in DOMAIN s PROVE s[i] \in ToSet(c)
    <2>1. i \in DOMAIN c /\ c[i] = s[i]
      BY <1>1, <1>2
    <2> QED
      BY <2>1 DEF ToSet
  <1>5. ASSUME NEW i \in DOMAIN t PROVE t[i] \in ToSet(c)
    <2>1. Len(s) + i \in DOMAIN c /\ c[Len(s) + i] = t[i]
      BY <1>1, <1>2
    <2> QED
      BY <2>1 DEF ToSet
  <1> QED
    BY <1>3, <1>4, <1>5 DEF ToSet, c

LEMMA CatInjective ==
    ASSUME NEW S, NEW s \in Seq(S), NEW t \in Seq(S)
    PROVE  IsInjective(Cat(s, t)) <=> /\ IsInjective(s) /\ IsInjective(t)
                                      /\ ToSet(s) \cap ToSet(t) = {}
  <1> DEFINE c == Cat(s, t)
  <1>1. /\ Len(s) \in Nat /\ Len(t) \in Nat /\ DOMAIN c = 1 .. Len(s) + Len(t)
        /\ \A i \in 1 .. Len(s) : c[i] = s[i]
        /\ \A i \in 1 .. Len(t) : c[Len(s) + i] = t[i]
        /\ \A i \in DOMAIN c : i > Len(s) => i - Len(s) \in 1 .. Len(t) /\ c[i] = t[i - Len(s)]
    BY DEF Cat
  <1>2. DOMAIN s = 1 .. Len(s) /\ DOMAIN t = 1 .. Len(t)
    OBVIOUS
  <1>3. c = Cat(s, t)
    OBVIOUS
  <1> HIDE DEF c
  <1>4. ASSUME IsInjective(c) PROVE IsInjective(s) /\ IsInjective(t) /\ ToSet(s) \cap ToSet(t) = {}
    <2>1. \A i, j \in DOMAIN c : c[i] = c[j] => i = j
      BY <1>4 DEF IsInjective
    <2>2. ASSUME NEW i \in DOMAIN s, NEW j \in DOMAIN s, s[i] = s[j] PROVE i = j
      BY <1>1, <1>2, <2>1, <2>2
    <2>3. ASSUME NEW i \in DOMAIN t, NEW j \in DOMAIN t, t[i] = t[j] PROVE i = j
      <3>1. Len(s) + i \in DOMAIN c /\ Len(s) + j \in DOMAIN c
            /\ c[Len(s) + i] = t[i] /\ c[Len(s) + j] = t[j]
        BY <1>1, <1>2
      <3>2. Len(s) + i = Len(s) + j
        BY <2>1, <2>3, <3>1
      <3> QED
        BY <1>1, <1>2, <3>2
    <2>4. ASSUME NEW i \in DOMAIN s, NEW j \in DOMAIN t PROVE s[i] # t[j]
      <3>1. i \in DOMAIN c /\ Len(s) + j \in DOMAIN c /\ i # Len(s) + j
            /\ c[i] = s[i] /\ c[Len(s) + j] = t[j]
        BY <1>1, <1>2
      <3> QED
        BY <2>1, <3>1
    <2> QED
      BY <2>2, <2>3, <2>4 DEF IsInjective, ToSet
  <1>5. ASSUME IsInjective(s), IsInjective(t), ToSet(s) \cap ToSet(t) = {} PROVE IsInjective(c)
    <2>1. \A i, j \in DOMAIN s : s[i] = s[j] => i = j
      BY <1>5 DEF IsInjective
    <2>2. \A i, j \in DOMAIN t : t[i] = t[j] => i = j
      BY <1>5 DEF IsInjective
    <2>3. \A i \in DOMAIN s, j \in DOMAIN t : s[i] # t[j]
      BY <1>5 DEF ToSet
    <2>4. ASSUME NEW i \in DOMAIN c, NEW j \in DOMAIN c, c[i] = c[j] PROVE i = j
      <3>1. CASE i =< Len(s) /\ j =< Len(s)
        BY <1>1, <1>2, <2>1, <2>4, <3>1
      <3>2. CASE i > Len(s) /\ j > Len(s)
        <4>1. i - Len(s) = j - Len(s)
          BY <1>1, <1>2, <2>2, <2>4, <3>2
        <4> QED
          BY <1>1, <4>1
      <3>3. CASE i =< Len(s) /\ j > Len(s)
        BY <1>1, <1>2, <2>3, <2>4, <3>3
      <3>4. CASE i > Len(s) /\ j =< Len(s)
        BY <1>1, <1>2, <2>3, <2>4, <3>4
      <3> QED
        BY <1>1, <3>1, <3>2, <3>3, <3>4
    <2> QED
      BY <2>4 DEF IsInjective
  <1> QED
    BY <1>3, <1>4, <1>5

LEMMA CutInTwo ==
    ASSUME NEW S, NEW s \in Seq(S), NEW n \in 0 .. Len(s)
    PROVE  /\ SubSeq(s, 1, n) \in Seq(S) /\ Len(SubSeq(s, 1, n)) = n
           /\ SubSeq(s, n + 1, Len(s)) \in Seq(S) /\ Len(SubSeq(s, n + 1, Len(s))) = Len(s) - n
           /\ s = Cat(SubSeq(s, 1, n), SubSeq(s, n + 1, Len(s)))
  <1> DEFINE a == SubSeq(s, 1, n)
             b == SubSeq(s, n + 1, Len(s))
             c == Cat(a, b)
  <1>1. Len(s) \in Nat /\ n \in Nat /\ n =< Len(s)
    OBVIOUS
  <1>2. a \in Seq(S) /\ Len(a) = n /\ \A i \in 1 .. n : a[i] = s[i]
    BY <1>1
  <1>3. b \in Seq(S) /\ Len(b) = Len(s) - n /\ \A i \in 1 .. Len(s) - n : b[i] = s[n + i]
    BY <1>1
  <1> HIDE DEF a, b
  <1>4. c \in Seq(S) /\ Len(c) = Len(s) /\ \A i \in 1 .. Len(s) : c[i] = s[i]
    <2>1. c \in Seq(S) /\ Len(c) = Len(s)
      BY <1>1, <1>2, <1>3 DEF Cat
    <2>2. ASSUME NEW i \in 1 .. Len(s) PROVE c[i] = s[i]
      <3>1. CASE i =< n
        BY <1>1, <1>2, <1>3, <3>1 DEF Cat
      <3>2. CASE i > n
        <4>1. c[i] = b[i - n] /\ i - n \in 1 .. Len(s) - n /\ n + (i - n) = i
          BY <1>1, <1>2, <1>3, <3>2 DEF Cat
        <4> QED
          BY <1>3, <4>1
      <3> QED
        BY <1>1, <3>1, <3>2
    <2> QED
      BY <2>1, <2>2
  <1> HIDE DEF c
  <1>5. s = c
    BY <1>4
  <1> QED
    BY <1>2, <1>3, <1>5 DEF a, b, c

\* The elements of s are in order.
Sorted(s) == \A i, j \in 1 .. Len(s) : i =< j => s[i] =< s[j]

LEMMA NeighboursSort ==
    ASSUME NEW s \in Seq(Nat) PROVE Sorted(s) <=> \A i \in 1 .. Len(s) - 1 : s[i] =< s[i + 1]
  <1>0. Len(s) \in Nat /\ \A i \in 1 .. Len(s) : s[i] \in Nat
    OBVIOUS
  <1>1. ASSUME Sorted(s), NEW i \in 1 .. Len(s) - 1 PROVE s[i] =< s[i + 1]
    <2>1. i \in 1 .. Len(s) /\ i + 1 \in 1 .. Len(s) /\ i =< i + 1
      BY <1>0
    <2> QED
      BY <1>1, <2>1 DEF Sorted
  <1>2. ASSUME \A i \in 1 .. Len(s) - 1 : s[i] =< s[i + 1], NEW i \in 1 .. Len(s)
        PROVE  \A j \in 1 .. Len(s) : i =< j => s[i] =< s[j]
    <2> DEFINE B == {j \in 1 .. Len(s) : i =< j /\ ~(s[i] =< s[j])}
    <2>1. SUFFICES ASSUME B # {} PROVE FALSE
      OBVIOUS
    <2>2. B \in SUBSET Nat
      OBVIOUS
    <2>3. PICK j \in B : \A k \in B : j =< k
      BY <2>1, <2>2, Least
    <2>4. j # i
      BY <1>0, <2>3
    <2>5. /\ j - 1 \in 1 .. Len(s) /\ i =< j - 1 /\ j - 1 \in 1 .. Len(s) - 1 /\ (j - 1) + 1 = j
          /\ ~(j =< j - 1)
      BY <1>0, <2>3, <2>4
    <2>6. s[i] =< s[j - 1]
      BY <2>3, <2>5
    <2>7. s[j - 1] =< s[j]
      <3>1. s[j - 1] =< s[(j - 1) + 1]
        BY <1>2, <2>5
      <3> QED
        BY <2>5, <3>1
    <2>8. s[i] \in Nat /\ s[j] \in Nat /\ s[j - 1] \in Nat
      BY <1>0, <2>3, <2>5
    <2>9. ~(s[i] =< s[j])
      BY <2>3
    <2> QED
      BY <2>6, <2>7, <2>8, <2>9
  <1> QED
    BY <1>1, <1>2 DEF Sorted

LEMMA CatSorted ==
    ASSUME NEW s \in Seq(Nat), NEW t \in Seq(Nat)
    PROVE  Sorted(Cat(s, t)) <=> /\ Sorted(s) /\ Sorted(t)
                                 /\ \A a \in ToSet(s), b \in ToSet(t) : a =< b
  <1> DEFINE c == Cat(s, t)
             n == Len(s)
             m == Len(t)
  <1>1. /\ n \in Nat /\ m \in Nat /\ Len(c) = n + m
        /\ \A i \in 1 .. n : c[i] = s[i]
        /\ \A i \in 1 .. m : c[n + i] = t[i]
    BY DEF Cat
  <1>2. ToSet(s) = {s[i] : i \in 1 .. n} /\ ToSet(t) = {t[i] : i \in 1 .. m}
    BY DEF ToSet
  <1>3. Sorted(s) <=> \A i, j \in 1 .. n : i =< j => s[i] =< s[j]
    BY DEF Sorted
  <1>4. Sorted(t) <=> \A i, j \in 1 .. m : i =< j => t[i] =< t[j]
    BY DEF Sorted
  <1>5. Sorted(c) <=> \A i, j \in 1 .. n + m : i =< j => c[i] =< c[j]
    BY <1>1 DEF Sorted
  <1> HIDE DEF c, n, m
  <1>6. ASSUME Sorted(c)
        PROVE  Sorted(s) /\ Sorted(t) /\ \A a \in ToSet(s), b \in ToSet(t) : a =< b
    <2>1. ASSUME NEW i \in 1 .. n, NEW j \in 1 .. n, i =< j PROVE s[i] =< s[j]
      BY <1>1, <1>5, <1>6, <2>1
    <2>2. ASSUME NEW i \in 1 .. m, NEW j \in 1 .. m, i =< j PROVE t[i] =< t[j]
      <3>1. n + i \in 1 .. n + m /\ n + j \in 1 .. n + m /\ n + i =< n + j
        BY <1>1, <2>2
      <3> QED
        BY <1>1, <1>5, <1>6, <3>1
    <2>3. ASSUME NEW i \in 1 .. n, NEW j \in 1 .. m PROVE s[i] =< t[j]
      <3>1. i \in 1 .. n + m /\ n + j \in 1 .. n + m /\ i =< n + j
        BY <1>1
      <3> QED
        BY <1>1, <1>5, <1>6, <3>1
    <2> QED
      BY <1>2, <1>3, <1>4, <2>1, <2>2, <2>3
  <1>7. ASSUME Sorted(s), Sorted(t), \A a \in ToSet(s), b \in ToSet(t) : a =< b PROVE Sorted(c)
    <2> SUFFICES ASSUME NEW i \in 1 .. n + m, NEW j \in 1 .. n + m, i =< j PROVE c[i] =< c[j]
      BY <1>5
    <2>1. i \in 1 .. n \/ (i - n \in 1 .. m /\ i = n + (i - n))
      BY <1>1
    <2>2. j \in 1 .. n \/ (j - n \in 1 .. m /\ j = n + (j - n))
      BY <1>1
    <2>3. CASE i \in 1 .. n /\ j \in 1 .. n
      BY <1>1, <1>3, <1>7, <2>3
    <2>4. CASE i \in 1 .. n /\ j - n \in 1 .. m
      <3>1. c[j] = t[j - n]
        BY <1>1, <2>4
      <3>2. s[i] \in ToSet(s) /\ t[j - n] \in ToSet(t)
        BY <1>2, <2>4
      <3> QED
        BY <1>1, <1>7, <2>4, <3>1, <3>2
    <2>5. CASE i - n \in 1 .. m /\ j - n \in 1 .. m
      <3>1. \A k \in 1 .. n + m : k - n \in 1 .. m => c[k] = t[k - n]
        <4>1. \A k \in 1 .. n + m : k = n + (k - n)
          BY <1>1
        <4> QED
          BY <1>1, <4>1
      <3>2. c[i] = t[i - n] /\ c[j] = t[j - n]
        BY <2>5, <3>1
      <3>3. i - n =< j - n
        BY <1>1
      <3> QED
        BY <1>4, <1>7, <2>5, <3>2, <3>3
    <2> QED
      BY <1>1, <2>1, <2>2, <2>3, <2>4, <2>5
  <1> QED
    BY <1>6, <1>7 DEF c
=============================================================================
