------------------------- MODULE ChannelGraph_proofs -------------------------
(***************************************************************************)
(* The retention engine, for every set of channels and pairs, every        *)
(* pattern of detections and every threshold: the coincidences counted     *)
(* from the trimmed buffers are those of an engine that keeps everything,  *)
(* except on channels it has reported dead.                                *)
(***************************************************************************)
EXTENDS ChannelGraph, FiniteSetTheorems, WellFoundedInduction, TLAPS

\* What a channel knows of its own stream.
Watermarks ==
    \A c \in Channels :
        /\ held[c] \subseteq delivered[c]
        /\ last_ts[c] = None => delivered[c] = {}
        /\ last_ts[c] # None => /\ last_ts[c] \in delivered[c]
                                /\ \A t \in delivered[c] : t =< last_ts[c]
        /\ \A t \in queue[c], u \in delivered[c] : u < t
        /\ queue[c] # {} => \E m \in queue[c] : \A u \in queue[c] : u =< m

\* Counted coincidences are of settled events and delivered ones.
CountedSettled ==
    \A p \in Pairs :
        allCounted[p] \subseteq Coincidences(settled[p[1]], delivered[p[2]])

IInv == /\ TypeOK /\ Watermarks /\ SafeToForget
        /\ CountedSettled /\ CountedOnce /\ NothingLostSilently
-----------------------------------------------------------------------------
LEMMA PairChannels ==
    ASSUME NEW p \in Pairs
    PROVE  /\ p = <<p[1], p[2]>> /\ p[1] \in Px1 /\ p[2] \in Px2
           /\ p[1] \in Channels /\ p[2] \in Channels
           /\ p[2] \in partners1(p[1]) /\ p[1] \in partners2(p[2])
  BY GraphAssumption DEF Channels, partners1, partners2

LEMMA DeadSubset == DeadNow \subseteq Channels
  BY DEF DeadNow

LEMMA CapNat == AgeCap \in Nat
  BY GraphAssumption DEF AgeCap

\* What drain_all() adds to channel c, and where it leaves the watermark.
LEMMA DrainedTop ==
    ASSUME TypeOK, Watermarks, NEW c \in Channels, NEW S, S = queue[c] \/ S = {},
           S # {}
    PROVE  LET m == CHOOSE t \in S : \A u \in S : u =< t
           IN  m \in S /\ m \in Nat /\ \A u \in S : u =< m
  <1>1. \E t \in S : \A u \in S : u =< t
    BY DEF Watermarks
  <1>2. S \subseteq Nat
    BY DEF TypeOK
  <1> QED
    BY <1>1, <1>2

LEMMA InitInv == Init => IInv
  <1> SUFFICES ASSUME Init PROVE IInv
    OBVIOUS
  <1> USE DEF Init, GraphEmpty, StallInit, Nowhere, None
  <1>1. TypeOK
    <2>1. quiet \in [Channels -> 0 .. AgeCap]
      BY CapNat
    <2> QED
      BY <2>1 DEF TypeOK
  <1>2. Watermarks
    BY DEF Watermarks
  <1>3. SafeToForget
    BY PairChannels DEF SafeToForget
  <1>4. CountedSettled /\ CountedOnce
    BY PairChannels DEF CountedSettled, CountedOnce, allCounted
  <1>5. NothingLostSilently
    BY PairChannels DEF NothingLostSilently, settled, allCounted, Coincidences
  <1> QED
    BY <1>1, <1>2, <1>3, <1>4, <1>5 DEF IInv

\* Steps that leave the buffers, the watermarks and the histograms alone.
LEMMA QuietInv ==
    ASSUME IInv, TypeOK', 
           UNCHANGED <<last_ts, held, exclusion_history, batch, delivered, counted>>,
           \A c \in Channels : \A t \in queue'[c], u \in delivered[c] : u < t,
           \A c \in Channels :
              queue'[c] # {} => \E m \in queue'[c] : \A u \in queue'[c] : u =< m
    PROVE  IInv'
  <1>1. Watermarks'
    BY DEF IInv, Watermarks
  <1>2. settled' = settled /\ allCounted' = allCounted
    BY DEF settled, allCounted
  <1>3. SafeToForget' /\ CountedOnce'
    BY DEF IInv, SafeToForget, CountedOnce
  <1>4. CountedSettled' /\ NothingLostSilently'
    BY <1>2 DEF IInv, CountedSettled, NothingLostSilently
  <1> QED
    BY <1>1, <1>3, <1>4 DEF IInv

LEMMA ArriveInv == ASSUME IInv, NEW c \in Channels, Arrive(c) PROVE IInv'
  <1>1. PICK t \in Photons[c] : /\ NextPhoton(c, queue[c] \cup delivered[c], t)
                                /\ queue' = [queue EXCEPT ![c] = @ \cup {t}]
    BY DEF Arrive
  <1>2. t \in Nat
    BY GraphAssumption
  <1>3. UNCHANGED <<last_ts, quiet, since_start, held, accumulating,
                    exclusion_history, batch, delivered, counted>>
    BY DEF Arrive
  <1>4. TypeOK'
    BY <1>1, <1>2, <1>3 DEF IInv, TypeOK
  <1>5. /\ queue'[c] = queue[c] \cup {t}
        /\ \A d \in Channels : d # c => queue'[d] = queue[d]
    BY <1>1 DEF IInv, TypeOK
  <1>6. \A u \in queue[c] \cup delivered[c] : u < t
    BY <1>1 DEF NextPhoton
  <1>7. \A d \in Channels : \A v \in queue'[d], u \in delivered[d] : u < v
    BY <1>5, <1>6 DEF IInv, Watermarks
  <1>8. \A u \in queue'[c] : u =< t
    BY <1>2, <1>5, <1>6 DEF IInv, TypeOK
  <1>9. \A d \in Channels :
           queue'[d] # {} => \E m \in queue'[d] : \A u \in queue'[d] : u =< m
    BY <1>5, <1>8 DEF IInv, Watermarks
  <1> QED
    BY <1>3, <1>4, <1>7, <1>9, QuietInv

LEMMA TickInv == ASSUME IInv, Tick PROVE IInv'
  <1>1. UNCHANGED <<last_ts, queue, held, accumulating, exclusion_history, batch,
                    delivered, counted>>
    BY DEF Tick, StallTick
  <1>2. since_start' \in 0 .. AgeCap \cup {None}
    BY CapNat DEF Tick, StallTick, IInv, TypeOK, None
  <1>3. quiet' \in [Channels -> 0 .. AgeCap]
    BY CapNat DEF Tick, StallTick, IInv, TypeOK
  <1>4. since_start # None => since_start' # None
    BY CapNat DEF Tick, StallTick, IInv, TypeOK, None
  <1>5. TypeOK'
    BY <1>1, <1>2, <1>3, <1>4 DEF IInv, TypeOK
  <1> QED
    BY <1>1, <1>5, QuietInv DEF IInv, Watermarks

LEMMA StopInv == ASSUME IInv, Stop PROVE IInv'
  <1>1. TypeOK'
    BY DEF Stop, IInv, TypeOK
  <1> QED
    BY <1>1, QuietInv DEF Stop, IInv, Watermarks

LEMMA StartInv == ASSUME IInv, Start PROVE IInv'
  <1> USE DEF Start, StallReset, Nowhere, None
  <1>1. quiet' \in [Channels -> 0 .. AgeCap] /\ since_start' \in 0 .. AgeCap \cup {None}
    BY CapNat
  <1>2. TypeOK'
    BY <1>1 DEF TypeOK
  <1>3. Watermarks'
    BY DEF Watermarks
  <1>4. SafeToForget'
    BY PairChannels DEF SafeToForget
  <1>5. CountedSettled' /\ CountedOnce'
    BY PairChannels DEF CountedSettled, CountedOnce, allCounted
  <1>6. NothingLostSilently'
    BY PairChannels DEF NothingLostSilently, settled, allCounted, Coincidences
  <1> QED
    BY <1>2, <1>3, <1>4, <1>5, <1>6 DEF IInv

\* What drain_all() does to one channel.
LEMMA DrainOne ==
    ASSUME IInv, DrainAll, NEW c \in Channels
    PROVE  \E new \in SUBSET Nat :
             /\ held'[c] = held[c] \cup new
             /\ delivered'[c] = delivered[c] \cup new
             /\ \A t \in new, u \in delivered[c] : u < t
             /\ new = {} => last_ts'[c] = last_ts[c] /\ quiet'[c] = quiet[c]
             /\ new # {} => /\ last_ts'[c] \in new
                            /\ \A u \in new : u =< last_ts'[c]
                            /\ quiet'[c] = 0
  <1> DEFINE new(d) == IF accumulating THEN queue[d] ELSE {}
  <1>1. new(c) \in SUBSET Nat /\ \A t \in new(c), u \in delivered[c] : u < t
    BY DEF IInv, TypeOK, Watermarks
  <1>2. /\ held'[c] = held[c] \cup new(c)
        /\ delivered'[c] = delivered[c] \cup new(c)
        /\ quiet'[c] = IF new(c) # {} THEN 0 ELSE quiet[c]
        /\ last_ts'[c] = IF new(c) # {} THEN CHOOSE t \in new(c) : \A u \in new(c) : u =< t
                         ELSE last_ts[c]
    BY DEF DrainAll, StallDrained
  <1>3. new(c) # {} => LET m == CHOOSE t \in new(c) : \A u \in new(c) : u =< t
                       IN  m \in new(c) /\ m \in Nat /\ \A u \in new(c) : u =< m
    <2> SUFFICES ASSUME new(c) # {}
                 PROVE  LET m == CHOOSE t \in new(c) : \A u \in new(c) : u =< t
                        IN  m \in new(c) /\ m \in Nat /\ \A u \in new(c) : u =< m
      OBVIOUS
    <2>1. new(c) = queue[c] \/ new(c) = {}
      OBVIOUS
    <2> HIDE DEF new
    <2> QED
      BY <2>1, DrainedTop DEF IInv
  <1> QED
    BY <1>1, <1>2, <1>3

LEMMA DrainInv == ASSUME IInv, DrainAll PROVE IInv'
  <1>1. UNCHANGED <<since_start, accumulating, exclusion_history, batch, counted>>
    BY DEF DrainAll, StallDrained
  <1>2. /\ DOMAIN last_ts' = Channels /\ DOMAIN quiet' = Channels
        /\ held' = [c \in Channels |-> held'[c]]
        /\ delivered' = [c \in Channels |-> delivered'[c]]
        /\ last_ts' = [c \in Channels |-> last_ts'[c]]
        /\ quiet' = [c \in Channels |-> quiet'[c]]
        /\ queue' = [c \in Channels |-> {}]
    BY DEF DrainAll, StallDrained
  <1>3. TypeOK'
    <2>1. ASSUME NEW c \in Channels
          PROVE  /\ held'[c] \in SUBSET Nat /\ delivered'[c] \in SUBSET Nat
                 /\ last_ts'[c] \in Nat \cup {None}
                 /\ quiet'[c] \in 0 .. AgeCap
      <3>1. PICK new \in SUBSET Nat :
               /\ held'[c] = held[c] \cup new
               /\ delivered'[c] = delivered[c] \cup new
               /\ new = {} => last_ts'[c] = last_ts[c] /\ quiet'[c] = quiet[c]
               /\ new # {} => last_ts'[c] \in new /\ quiet'[c] = 0
        BY DrainOne
      <3>2. /\ held[c] \in SUBSET Nat /\ delivered[c] \in SUBSET Nat
            /\ last_ts[c] \in Nat \cup {None} /\ quiet[c] \in 0 .. AgeCap
        BY DEF IInv, TypeOK
      <3>3. 0 \in 0 .. AgeCap
        BY CapNat
      <3>4. CASE new = {}
        BY <3>1, <3>2, <3>4
      <3>5. CASE new # {}
        BY <3>1, <3>2, <3>3, <3>5
      <3> QED
        BY <3>4, <3>5
    <2> QED
      BY <1>1, <1>2, <2>1 DEF IInv, TypeOK
  <1>4. Watermarks'
    <2> SUFFICES ASSUME NEW c \in Channels
                 PROVE  /\ held'[c] \subseteq delivered'[c]
                        /\ last_ts'[c] = None => delivered'[c] = {}
                        /\ last_ts'[c] # None =>
                              /\ last_ts'[c] \in delivered'[c]
                              /\ \A t \in delivered'[c] : t =< last_ts'[c]
                        /\ queue'[c] = {}
      BY DEF Watermarks
    <2>1. PICK new \in SUBSET Nat :
             /\ held'[c] = held[c] \cup new
             /\ delivered'[c] = delivered[c] \cup new
             /\ \A t \in new, u \in delivered[c] : u < t
             /\ new = {} => last_ts'[c] = last_ts[c]
             /\ new # {} => last_ts'[c] \in new /\ \A u \in new : u =< last_ts'[c]
      BY DrainOne
    <2>2. CASE new = {}
      BY <1>2, <2>1, <2>2 DEF IInv, Watermarks
    <2>3. CASE new # {}
      <3>1. \A t \in delivered[c] : t < last_ts'[c] /\ t \in Nat
        BY <2>1, <2>3 DEF IInv, TypeOK
      <3> QED
        BY <1>2, <2>1, <2>3, <3>1 DEF IInv, Watermarks, None
    <2> QED
      BY <2>2, <2>3
  <1>5. ASSUME NEW c \in Channels
        PROVE  /\ delivered'[c] \ held'[c] = delivered[c] \ held[c]
               /\ last_ts[c] # None => last_ts'[c] # None /\ last_ts[c] =< last_ts'[c]
               /\ \A t \in delivered'[c] :
                     t \in delivered[c] \/ (last_ts[c] # None => last_ts[c] < t)
               /\ \A t \in held'[c] : t \in held[c] \/ (last_ts[c] # None => last_ts[c] < t)
    <2>1. PICK new \in SUBSET Nat :
             /\ held'[c] = held[c] \cup new
             /\ delivered'[c] = delivered[c] \cup new
             /\ \A t \in new, u \in delivered[c] : u < t
             /\ new = {} => last_ts'[c] = last_ts[c]
             /\ new # {} => last_ts'[c] \in new /\ \A u \in new : u =< last_ts'[c]
      BY DrainOne
    <2>2. \A t \in new : t \notin delivered[c] /\ (last_ts[c] # None => last_ts[c] < t)
      <3>1. \A t \in new : ~(t < t)
        OBVIOUS
      <3> QED
        BY <2>1, <3>1 DEF IInv, Watermarks
    <2>3. last_ts[c] \in Nat \cup {None}
      BY DEF IInv, TypeOK
    <2>4. last_ts[c] # None => last_ts'[c] # None /\ last_ts[c] =< last_ts'[c]
      <3>1. CASE new = {}
        BY <2>1, <2>3, <3>1 DEF None
      <3>2. CASE new # {}
        <4>1. last_ts'[c] \in Nat /\ (last_ts[c] # None => last_ts[c] < last_ts'[c])
          BY <2>1, <2>2, <3>2
        <4> QED
          BY <2>3, <4>1 DEF None
      <3> QED
        BY <3>1, <3>2
    <2>5. delivered'[c] \ held'[c] = delivered[c] \ held[c]
      BY <2>1, <2>2
    <2> QED
      BY <2>1, <2>2, <2>4, <2>5
  <1>6. settled' = settled /\ allCounted' = allCounted
    <2>1. \A p \in Px1 : delivered'[p] \ held'[p] = delivered[p] \ held[p]
      BY <1>5 DEF Channels
    <2> QED
      BY <1>1, <2>1 DEF settled, allCounted
  <1>7. SafeToForget'
    <2> SUFFICES ASSUME NEW p \in Pairs,
                        p[1] \notin exclusion_history, p[2] \notin exclusion_history
                 PROVE  /\ \A t \in delivered[p[1]] \ held[p[1]] :
                             last_ts'[p[2]] # None /\ t + Tmax =< last_ts'[p[2]]
                        /\ \A t \in delivered[p[2]] \ held[p[2]] :
                             /\ last_ts'[p[1]] # None /\ t + Tmax < last_ts'[p[1]]
                             /\ \A u \in held'[p[1]] : t + Tmax < u
      BY <1>1, <1>5, PairChannels DEF SafeToForget
    <2>1. \A t \in delivered[p[1]] \cup delivered[p[2]] : t \in Nat
      BY PairChannels DEF IInv, TypeOK
    <2>2. /\ last_ts[p[1]] \in Nat \cup {None} /\ last_ts[p[2]] \in Nat \cup {None}
          /\ last_ts'[p[1]] \in Nat \cup {None} /\ last_ts'[p[2]] \in Nat \cup {None}
          /\ held'[p[1]] \subseteq Nat
      BY <1>3, PairChannels DEF IInv, TypeOK
    <2>3. \A t \in delivered[p[1]] \ held[p[1]] :
             last_ts[p[2]] # None /\ t + Tmax =< last_ts[p[2]]
      BY DEF IInv, SafeToForget
    <2>4. \A t \in delivered[p[2]] \ held[p[2]] :
             /\ last_ts[p[1]] # None /\ t + Tmax < last_ts[p[1]]
             /\ \A u \in held[p[1]] : t + Tmax < u
      BY DEF IInv, SafeToForget
    <2>5. \A t \in delivered[p[1]] \ held[p[1]] :
             last_ts'[p[2]] # None /\ t + Tmax =< last_ts'[p[2]]
      BY <1>5, <2>1, <2>2, <2>3, PairChannels, GraphAssumption DEF None
    <2>6. \A t \in delivered[p[2]] \ held[p[2]] :
             last_ts'[p[1]] # None /\ t + Tmax < last_ts'[p[1]]
      BY <1>5, <2>1, <2>2, <2>4, PairChannels, GraphAssumption DEF None
    <2>7. \A t \in delivered[p[2]] \ held[p[2]] : \A u \in held'[p[1]] : t + Tmax < u
      BY <1>5, <2>1, <2>2, <2>4, PairChannels, GraphAssumption DEF None
    <2> QED
      BY <2>5, <2>6, <2>7
  <1>8. CountedOnce'
    BY <1>1 DEF IInv, CountedOnce
  <1>9. CountedSettled'
    <2> SUFFICES ASSUME NEW p \in Pairs
                 PROVE  allCounted[p] \subseteq Coincidences(settled[p[1]], delivered'[p[2]])
      BY <1>6 DEF CountedSettled
    <2>1. delivered[p[2]] \subseteq delivered'[p[2]]
      BY DrainOne, PairChannels
    <2> QED
      BY <2>1 DEF IInv, CountedSettled, Coincidences
  <1>10. NothingLostSilently'
    <2> SUFFICES ASSUME NEW p \in Pairs,
                        p[1] \notin exclusion_history, p[2] \notin exclusion_history,
                        NEW x \in Coincidences(settled[p[1]], delivered'[p[2]])
                 PROVE  x \in allCounted[p]
      BY <1>1, <1>6 DEF NothingLostSilently
    <2>1. /\ x = <<x[1], x[2]>> /\ x[1] \in settled[p[1]] /\ x[2] \in delivered'[p[2]]
          /\ Near(x[1], x[2])
      BY DEF Coincidences
    <2>2. settled[p[1]] = delivered[p[1]] \ held[p[1]]
      BY PairChannels DEF settled
    <2>3. x[1] \in Nat /\ x[2] \in Nat /\ last_ts[p[2]] \in Nat \cup {None}
      BY <1>3, <2>1, <2>2, PairChannels DEF IInv, TypeOK
    <2>4. last_ts[p[2]] # None /\ x[1] + Tmax =< last_ts[p[2]]
      BY <2>1, <2>2 DEF IInv, SafeToForget
    <2>5. x[2] \in delivered[p[2]]
      BY <1>5, <2>1, <2>3, <2>4, PairChannels, GraphAssumption DEF Near, None
    <2> QED
      BY <2>1, <2>5 DEF IInv, NothingLostSilently, Coincidences
  <1> QED
    BY <1>3, <1>4, <1>7, <1>8, <1>9, <1>10 DEF IInv

LEMMA ReleaseInv == ASSUME IInv, Release PROVE IInv'
  <1> DEFINE cut == [p1 \in Px1 |-> IF WouldRelease THEN Cut(p1) ELSE {}]
             out == \E p1 \in Px1 : cut[p1] # {}
  <1>1. /\ exclusion_history' = exclusion_history \cup DeadNow
        /\ held' = [c \in Channels |->
               IF c \in Px1 THEN held[c] \ cut[c]
               ELSE IF out THEN Keep(c, cut) ELSE held[c]]
        /\ batch' = [p \in Pairs |-> Coincidences(cut[p[1]], held[p[2]])]
        /\ counted' = [p \in Pairs |-> counted[p] \cup batch[p]]
        /\ UNCHANGED <<last_ts, quiet, since_start, queue, accumulating, delivered>>
    BY DEF Release, Rest
  <1>2. ASSUME NEW p1 \in Px1
        PROVE  /\ p1 \in Channels /\ cut[p1] \subseteq held[p1]
               /\ held'[p1] = held[p1] \ cut[p1]
    BY <1>1 DEF Cut, Oldest, Channels
  <1>3. ASSUME NEW p2 \in Px2
        PROVE  /\ p2 \in Channels /\ held'[p2] \subseteq held[p2]
               /\ held'[p2] = IF out THEN Keep(p2, cut) ELSE held[p2]
    BY <1>1, GraphAssumption DEF Keep, Channels
  <1>4. ASSUME NEW c \in Channels PROVE held'[c] \subseteq held[c]
    BY <1>2, <1>3 DEF Channels
  <1>5. ASSUME NEW p \in Pairs
        PROVE  /\ batch'[p] = Coincidences(cut[p[1]], held[p[2]])
               /\ counted'[p] = allCounted[p]
               /\ allCounted'[p] = allCounted[p] \cup batch'[p]
    BY <1>1 DEF allCounted
  <1> HIDE DEF cut, out
  <1>6. ASSUME NEW c \in Channels
        PROVE  held[c] \subseteq Nat /\ delivered[c] \subseteq Nat /\ last_ts[c] \in Nat \cup {None}
    BY DEF IInv, TypeOK
  <1>7. TypeOK'
    <2>1. held' \in [Channels -> SUBSET Nat]
      BY <1>1, <1>4, <1>6
    <2>2. \A p \in Pairs : batch'[p] \subseteq Nat \X Nat
      BY <1>2, <1>5, <1>6, PairChannels DEF Coincidences
    <2>3. \A p \in Pairs : counted'[p] \subseteq Nat \X Nat
      BY <1>5 DEF IInv, TypeOK, allCounted
    <2>4. /\ batch' \in [Pairs -> SUBSET (Nat \X Nat)]
          /\ counted' \in [Pairs -> SUBSET (Nat \X Nat)]
      BY <1>1, <2>2, <2>3
    <2> QED
      BY <1>1, <2>1, <2>4, DeadSubset DEF IInv, TypeOK
  <1>8. Watermarks'
    BY <1>1, <1>4 DEF IInv, Watermarks
  <1>9. ASSUME NEW p \in Pairs, p[2] \notin exclusion_history', NEW t \in cut[p[1]]
        PROVE  last_ts[p[2]] # None /\ t + Tmax =< last_ts[p[2]]
    <2>1. p[2] \in LivePartners1(p[1])
      BY <1>1, <1>9, PairChannels DEF LivePartners1
    <2>2. WithinLimit(p[1], t)
      BY <1>9, <2>1, PairChannels DEF cut, Cut
    <2> QED
      BY <1>2, <1>6, <1>9, <2>1, <2>2, PairChannels, GraphAssumption DEF WithinLimit, None
  <1>10. ASSUME NEW p \in Pairs, p[1] \notin exclusion_history',
                NEW t \in held[p[2]], t \notin held'[p[2]]
         PROVE  /\ last_ts[p[1]] # None /\ t + Tmax < last_ts[p[1]]
                /\ \A u \in held'[p[1]] : t + Tmax < u
    <2>1. p[1] \in LivePartners2(p[2])
      BY <1>1, <1>10, PairChannels DEF LivePartners2
    <2>2. t \notin Keep(p[2], cut)
      BY <1>3, <1>10, PairChannels
    <2>3. ~StillNeeds(p[1], held'[p[1]], t)
      <3>1. ~StillNeeds(p[1], held[p[1]] \ cut[p[1]], t)
        BY <1>10, <2>1, <2>2 DEF Keep, Rest
      <3>2. held'[p[1]] = held[p[1]] \ cut[p[1]]
        BY <1>2, PairChannels
      <3> QED
        BY <3>1, <3>2
    <2>4. t \in Nat /\ held'[p[1]] \subseteq Nat /\ last_ts[p[1]] \in Nat \cup {None}
      BY <1>2, <1>6, <1>10, PairChannels
    <2>5. CASE held'[p[1]] = {}
      BY <2>3, <2>4, <2>5, GraphAssumption DEF StillNeeds, None
    <2>6. CASE held'[p[1]] # {}
      <3>1. \A u \in held'[p[1]] : t + Tmax < u
        BY <2>3, <2>4, <2>6, GraphAssumption DEF StillNeeds
      <3>2. PICK u \in held'[p[1]] : TRUE
        BY <2>6
      <3>3. u \in delivered[p[1]]
        BY <1>2, <3>2, PairChannels DEF IInv, Watermarks
      <3>4. last_ts[p[1]] # None /\ u =< last_ts[p[1]]
        BY <3>3, PairChannels DEF IInv, Watermarks
      <3> QED
        BY <2>4, <3>1, <3>4, GraphAssumption DEF None
    <2> QED
      BY <2>5, <2>6
  <1>11. SafeToForget'
    <2> SUFFICES ASSUME NEW p \in Pairs,
                        p[1] \notin exclusion_history', p[2] \notin exclusion_history'
                 PROVE  /\ \A t \in delivered[p[1]] \ held'[p[1]] :
                             last_ts[p[2]] # None /\ t + Tmax =< last_ts[p[2]]
                        /\ \A t \in delivered[p[2]] \ held'[p[2]] :
                             /\ last_ts[p[1]] # None /\ t + Tmax < last_ts[p[1]]
                             /\ \A u \in held'[p[1]] : t + Tmax < u
      BY <1>1 DEF SafeToForget
    <2>1. p[1] \notin exclusion_history /\ p[2] \notin exclusion_history
      BY <1>1
    <2>2. \A t \in delivered[p[1]] \ held'[p[1]] :
             last_ts[p[2]] # None /\ t + Tmax =< last_ts[p[2]]
      BY <1>2, <1>9, <2>1, PairChannels DEF IInv, SafeToForget
    <2>3. \A t \in delivered[p[2]] \ held'[p[2]] :
             /\ last_ts[p[1]] # None /\ t + Tmax < last_ts[p[1]]
             /\ \A u \in held'[p[1]] : t + Tmax < u
      BY <1>4, <1>10, <2>1, PairChannels DEF IInv, SafeToForget
    <2> QED
      BY <2>2, <2>3
  <1>12. ASSUME NEW p \in Pairs
         PROVE  /\ settled[p[1]] = delivered[p[1]] \ held[p[1]]
                /\ settled'[p[1]] = settled[p[1]] \cup cut[p[1]]
                /\ cut[p[1]] \cap settled[p[1]] = {}
    BY <1>1, <1>2, PairChannels DEF settled, IInv, Watermarks
  <1>13. CountedSettled'
    <2> SUFFICES ASSUME NEW p \in Pairs
                 PROVE  allCounted'[p] \subseteq Coincidences(settled'[p[1]], delivered[p[2]])
      BY <1>1 DEF CountedSettled
    <2>1. allCounted[p] \subseteq Coincidences(settled[p[1]], delivered[p[2]])
      BY DEF IInv, CountedSettled
    <2>2. held[p[2]] \subseteq delivered[p[2]]
      BY PairChannels DEF IInv, Watermarks
    <2> QED
      BY <1>5, <1>12, <2>1, <2>2 DEF Coincidences
  <1>14. CountedOnce'
    <2> SUFFICES ASSUME NEW p \in Pairs, NEW x \in batch'[p], x \in allCounted[p]
                 PROVE  FALSE
      BY <1>5 DEF CountedOnce
    <2>1. x[1] \in cut[p[1]]
      BY <1>5 DEF Coincidences
    <2>2. x[1] \in settled[p[1]]
      BY DEF IInv, CountedSettled, Coincidences
    <2> QED
      BY <1>12, <2>1, <2>2
  <1>15. NothingLostSilently'
    <2> SUFFICES ASSUME NEW p \in Pairs,
                        p[1] \notin exclusion_history', p[2] \notin exclusion_history',
                        NEW x \in Coincidences(settled'[p[1]], delivered[p[2]])
                 PROVE  x \in allCounted'[p]
      BY <1>1 DEF NothingLostSilently
    <2>1. p[1] \notin exclusion_history /\ p[2] \notin exclusion_history
      BY <1>1
    <2>2. /\ x = <<x[1], x[2]>> /\ x[1] \in settled'[p[1]] /\ x[2] \in delivered[p[2]]
          /\ Near(x[1], x[2])
      BY DEF Coincidences
    <2>3. CASE x[1] \in settled[p[1]]
      BY <1>5, <2>1, <2>2, <2>3 DEF IInv, NothingLostSilently, Coincidences
    <2>4. CASE x[1] \in cut[p[1]]
      <3>1. x[1] \in held[p[1]] /\ x[1] \in Nat /\ x[2] \in Nat
        BY <1>2, <1>6, <2>2, <2>4, PairChannels
      <3>2. x[2] \in held[p[2]]
        <4> SUFFICES ASSUME x[2] \notin held[p[2]] PROVE FALSE
          OBVIOUS
        <4>1. x[2] + Tmax < x[1]
          BY <2>1, <2>2, <3>1 DEF IInv, SafeToForget
        <4> QED
          BY <2>2, <3>1, <4>1, GraphAssumption DEF Near
      <3> QED
        BY <1>5, <2>2, <2>4, <3>2 DEF Coincidences
    <2> QED
      BY <1>12, <2>2, <2>3, <2>4
  <1> QED
    BY <1>7, <1>8, <1>11, <1>13, <1>14, <1>15 DEF IInv
-----------------------------------------------------------------------------
LEMMA NextInv == ASSUME IInv, [Next]_vars PROVE IInv'
  <1>1. ASSUME NEW c \in Channels, Arrive(c) PROVE IInv'
    BY <1>1, ArriveInv
  <1>2. CASE UNCHANGED vars
    <2>1. TypeOK'
      BY <1>2 DEF vars, IInv, TypeOK
    <2> QED
      BY <1>2, <2>1, QuietInv DEF vars, IInv, Watermarks
  <1> QED
    BY <1>1, <1>2, TickInv, DrainInv, ReleaseInv, StartInv, StopInv DEF Next

LEMMA Invariance == Spec => []IInv
  BY InitInv, NextInv, PTL DEF Spec

\* Every variable of the retention engine keeps its type.
THEOREM TypeCorrect == Spec => []TypeOK
  BY Invariance, PTL DEF IInv

\* No coincidence reaches a histogram through two releases.
THEOREM OnceOnly == Spec => []CountedOnce
  BY Invariance, PTL DEF IInv

\* The engine forgets an event only when nothing can need it any more.
THEOREM ForgetsSafely == Spec => []SafeToForget
  BY Invariance, PTL DEF IInv

\* A coincidence can be missing from a histogram only on a channel that
\* exclusion_history names.
THEOREM LosesNothingSilently == Spec => []NothingLostSilently
  BY Invariance, PTL DEF IInv
-----------------------------------------------------------------------------
\* Each step of the engine is a step of the abstract correlation or a stutter.
LEMMA AbstractInit == Init => Abstract!AInit
  BY PairChannels DEF Init, GraphEmpty, Nowhere, Abstract!AInit, Abstract!Channels, Channels,
                      settled, allCounted

LEMMA AbstractStart == ASSUME Start PROVE Abstract!ARestart
  BY DEF Start, Nowhere, Abstract!ARestart, Abstract!Channels, Channels, settled, allCounted

LEMMA AbstractStutter ==
    ASSUME UNCHANGED <<held, exclusion_history, batch, delivered, counted>>
    PROVE  UNCHANGED Abstract!avars
  BY DEF Abstract!avars, settled, allCounted

LEMMA AbstractDrain == ASSUME IInv, DrainAll PROVE Abstract!ADeliver
  <1>1. ASSUME NEW c \in Channels
        PROVE  /\ delivered[c] \subseteq delivered'[c]
               /\ \A t \in delivered'[c] \ delivered[c], u \in delivered[c] : u < t
               /\ delivered'[c] \ held'[c] = delivered[c] \ held[c]
    <2>1. PICK new \in SUBSET Nat :
             /\ held'[c] = held[c] \cup new
             /\ delivered'[c] = delivered[c] \cup new
             /\ \A t \in new, u \in delivered[c] : u < t
      BY DrainOne
    <2>2. \A t \in new : t \notin delivered[c]
      <3>1. \A t \in new : ~(t < t)
        OBVIOUS
      <3> QED
        BY <2>1, <3>1
    <2> QED
      BY <2>1, <2>2
  <1>2. settled' = settled
    BY <1>1 DEF settled, Channels
  <1>3. UNCHANGED <<exclusion_history, allCounted>>
    BY DEF DrainAll, allCounted
  <1> QED
    BY <1>1, <1>2, <1>3 DEF Abstract!ADeliver, Abstract!Channels, Channels

LEMMA AbstractRelease == ASSUME IInv, IInv', Release PROVE Abstract!ASettle
  <1>1. /\ exclusion_history \subseteq exclusion_history'
        /\ UNCHANGED <<delivered, last_ts>>
        /\ \A p \in Pairs : allCounted'[p] = allCounted[p] \cup batch'[p]
    BY DEF Release, allCounted
  <1>2. ASSUME NEW p1 \in Px1
        PROVE  /\ settled[p1] \subseteq settled'[p1] /\ settled'[p1] \subseteq delivered[p1]
    <2>1. held'[p1] \subseteq held[p1]
      BY DEF Release, Rest, Channels
    <2> QED
      BY <1>1, <2>1 DEF settled
  <1>3. ASSUME NEW p \in Pairs
        PROVE  LET fresh == settled'[p[1]] \ settled[p[1]]
                   all == Coincidences(fresh, delivered[p[2]])
               IN  /\ allCounted[p] \subseteq allCounted'[p]
                   /\ allCounted'[p] \subseteq allCounted[p] \cup all
                   /\ ~(p[1] \in exclusion_history' \/ p[2] \in exclusion_history') =>
                        /\ allCounted'[p] = allCounted[p] \cup all
                        /\ \A t \in fresh : \E u \in delivered[p[2]] : t + Tmax =< u
    <2> DEFINE fresh == settled'[p[1]] \ settled[p[1]]
               all == Coincidences(fresh, delivered[p[2]])
    <2>1. batch'[p] \subseteq Coincidences(settled'[p[1]], delivered[p[2]])
      BY <1>1 DEF IInv, CountedSettled
    <2>2. batch'[p] \subseteq all
      <3> SUFFICES ASSUME NEW x \in batch'[p], x[1] \in settled[p[1]] PROVE FALSE
        BY <2>1 DEF Coincidences
      <3>1. x[1] \in held[p[1]]
        BY PairChannels DEF Release, Coincidences, Cut, Oldest
      <3> QED
        BY <3>1, PairChannels DEF settled
    <2>3. ASSUME p[1] \notin exclusion_history', p[2] \notin exclusion_history'
          PROVE  /\ all \subseteq allCounted'[p]
                 /\ \A t \in fresh : \E u \in delivered[p[2]] : t + Tmax =< u
      <3>1. all \subseteq allCounted'[p]
        BY <1>1, <2>3 DEF IInv, NothingLostSilently, Coincidences
      <3>2. fresh \subseteq delivered[p[1]] \ held'[p[1]]
        BY <1>1, PairChannels DEF settled
      <3>3. \A t \in fresh : last_ts[p[2]] # None /\ t + Tmax =< last_ts[p[2]]
        BY <1>1, <2>3, <3>2 DEF IInv, SafeToForget
      <3>4. last_ts[p[2]] # None => last_ts[p[2]] \in delivered[p[2]]
        BY PairChannels DEF IInv, Watermarks
      <3> QED
        BY <3>1, <3>3, <3>4
    <2> QED
      BY <1>1, <2>2, <2>3
  <1> QED
    BY <1>1, <1>2, <1>3 DEF Abstract!ASettle, Abstract!Fresh, Abstract!Excused,
         Abstract!Passed, Abstract!Coincidences, Abstract!Near, Coincidences, Near

\* The engine with its trimmed buffers implements the correlation that keeps
\* every event.
THEOREM Refinement == Spec => Implements
  <1>1. IInv /\ IInv' /\ [Next]_vars => [Abstract!ANext]_(Abstract!avars)
    <2> SUFFICES ASSUME IInv, IInv', [Next]_vars
                 PROVE  [Abstract!ANext]_(Abstract!avars)
      OBVIOUS
    <2>1. ASSUME NEW c \in Channels, Arrive(c) PROVE UNCHANGED Abstract!avars
      BY <2>1, AbstractStutter DEF Arrive
    <2>2. ASSUME Tick \/ Stop PROVE UNCHANGED Abstract!avars
      BY <2>2, AbstractStutter DEF Tick, Stop
    <2>3. ASSUME DrainAll \/ Release \/ Start PROVE Abstract!ANext
      BY <2>3, AbstractDrain, AbstractRelease, AbstractStart DEF Abstract!ANext
    <2>4. CASE UNCHANGED vars
      BY <2>4, AbstractStutter DEF vars
    <2> QED
      BY <2>1, <2>2, <2>3, <2>4 DEF Next
  <1> QED
    BY <1>1, AbstractInit, Invariance, PTL DEF Spec, Implements, Abstract!ASpec
-----------------------------------------------------------------------------
\* A buffer that holds something has an oldest event.
LEMMA OldestExists ==
    ASSUME NEW S \in SUBSET Nat, S # {}
    PROVE  \E t \in S : \A u \in S : t =< u
  <1>1. PICK t \in S : \A u \in S : ~(<<u, t>> \in OpToRel(<, Nat))
    BY WFMin, NatLessThanWellFounded
  <1>2. ASSUME NEW u \in S PROVE t =< u
    <2>1. <<u, t>> \in Nat \X Nat /\ u \in Nat /\ t \in Nat
      OBVIOUS
    <2>2. ~(u < t)
      BY <1>1, <2>1, Zenon DEF OpToRel
    <2> QED
      BY <2>1, <2>2
  <1> QED
    BY <1>2

\* The test that spares a merge is exact in every reachable state: it says a
\* release is due exactly when some cut would hand an event over.
LEMMA ReleaseDue == ASSUME TypeOK PROVE WouldReleaseExact
  <1>1. ASSUME NEW p1 \in Px1, NEW first \in held[p1],
               \A t \in held[p1] : first =< t, WithinLimit(p1, first)
        PROVE  Cut(p1) # {}
    <2>1. CASE LivePartners1(p1) = {}
      <3>1. {u \in held[p1] : u < first} = {}
        BY <1>1, GraphAssumption DEF TypeOK, Channels
      <3>2. first \in Oldest(held[p1])
        BY <1>1, <3>1, FS_EmptySet, GraphAssumption DEF Oldest
      <3> QED
        BY <2>1, <3>2 DEF Cut
    <2>2. CASE LivePartners1(p1) # {}
      BY <1>1, <2>2 DEF Cut
    <2> QED
      BY <2>1, <2>2
  <1>2. ASSUME NEW p1 \in Px1, Cut(p1) # {}
        PROVE  \E first \in held[p1] :
                   (\A t \in held[p1] : first =< t) /\ WithinLimit(p1, first)
    <2>1. PICK t \in held[p1] : t \in Cut(p1)
      BY <1>2 DEF Cut, Oldest
    <2>2. held[p1] \in SUBSET Nat
      BY DEF TypeOK, Channels
    <2>3. PICK first \in held[p1] : \A u \in held[p1] : first =< u
      BY <2>1, <2>2, OldestExists
    <2>4. WithinLimit(p1, first)
      <3> SUFFICES ASSUME NEW p2 \in LivePartners1(p1)
                   PROVE  last_ts[p2] # None /\ first =< last_ts[p2] - Tmax
        BY DEF WithinLimit
      <3>1. t =< last_ts[p2] - Tmax /\ last_ts[p2] # None
        BY <2>1 DEF Cut, WithinLimit
      <3>2. last_ts[p2] \in Nat
        BY <3>1 DEF TypeOK, LivePartners1, partners1, Channels
      <3> QED
        BY <3>1, <3>2, <2>1, <2>2, <2>3, GraphAssumption
    <2> QED
      BY <2>3, <2>4
  <1> QED
    BY <1>1, <1>2 DEF WouldReleaseExact, WouldRelease

THEOREM MergeFreeTest == Spec => []WouldReleaseExact
  BY Invariance, ReleaseDue, PTL DEF IInv
=============================================================================
