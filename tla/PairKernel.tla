------------------------------ MODULE PairKernel ------------------------------
(***************************************************************************)
(* The pair kernel of correlate_kernel.py: the two-pointer sweep over the  *)
(* neighbours of each node-1 event, the binning, and the cut of a pair     *)
(* into chunks.  Arrays are sequences of integers in rising order; the     *)
(* histogram of a pair is a function from its bins to counts.              *)
(***************************************************************************)
EXTENDS Integers, Sequences, FiniteSets
LOCAL INSTANCE SequencesExt

CONSTANTS BinWidth, Tmax, NShift,
          ChunkEvents     \* t1 events per task of the pool

KernelAssumption ==
    /\ BinWidth \in Nat \ {0} /\ Tmax \in Nat /\ NShift \in Nat \ {0}
    /\ ChunkEvents \in Nat \ {0}

\* len(bin_edges(bin_width, tmax)) - 1
NBins == ((2 * Tmax + BinWidth - 1) \div BinWidth) + 1
Bins == 0 .. NBins - 1
BinOf(tau) == (tau + Tmax) \div BinWidth
NoCounts == [b \in Bins |-> 0]
Count(h, taus) == [b \in Bins |-> h[b] + Cardinality({k \in DOMAIN taus : BinOf(taus[k]) = b})]
-----------------------------------------------------------------------------
\* The sweep's pointer: the number of t2 events before ti, never moving back.
Sweep(j, ti, t2) ==
    CHOOSE k \in j .. Len(t2) : (k = Len(t2) \/ ~(t2[k + 1] < ti))
                                /\ \A i \in j + 1 .. k : t2[i] < ti

\* The neighbours j - n_shift .. j + n_shift - 1 whose tau falls in a bin.
Stops(j, ti, t2) ==
    SelectSeq([s \in 1 .. 2 * NShift |-> LET k == j + s - NShift
                                         IN  IF k \in DOMAIN t2 THEN t2[k] - ti ELSE -Tmax - 1],
              LAMBDA tau : BinOf(tau) \in Bins)

\* The differences _pair_kernel_diffs returns; both kernels bin them.
PairKernel(t1, t2) ==
    LET sweep[i \in 0 .. Len(t1)] ==
            IF i = 0 THEN [j |-> 0, taus |-> <<>>]
            ELSE LET before == sweep[i - 1]
                     j == Sweep(before.j, t1[i], t2)
                 IN  [j |-> j, taus |-> before.taus \o Stops(j, t1[i], t2)]
    IN  sweep[Len(t1)].taus

\* The t2 events a chunk is given: within ceil(tmax) + 1 of its ends.
Slice(c1, t2) ==
    SelectSeq(t2, LAMBDA t : c1[1] - (Tmax + 1) =< t /\ t =< c1[Len(c1)] + Tmax + 1)

Chunks(t1, t2) ==
    IF Len(t1) =< ChunkEvents THEN <<[t1 |-> t1, t2 |-> t2]>>
    ELSE [c \in 1 .. (Len(t1) + ChunkEvents - 1) \div ChunkEvents |->
            LET first == (c - 1) * ChunkEvents + 1
                last == IF c * ChunkEvents =< Len(t1) THEN c * ChunkEvents ELSE Len(t1)
                c1 == SubSeq(t1, first, last)
            IN  [t1 |-> c1, t2 |-> Slice(c1, t2)]]

\* _pair_kernel; the pool adds up the histograms of a pair's chunks.
Histogram(t1, t2) == Count(NoCounts, PairKernel(t1, t2))
=============================================================================
