------------------------------- MODULE PairPool -------------------------------
(***************************************************************************)
(* The pool of correlate_kernel.py that runs the pair kernel: the chunks   *)
(* of all pairs in a bounded window, which the workers finish in any order *)
(* and the caller consumes in the order of submission.                     *)
(***************************************************************************)
EXTENDS PairKernel
LOCAL INSTANCE SequencesExt

CONSTANTS Keys,           \* the pairs of a batch, as <<1, 2, ...>>
          Batches,        \* the batches tried: [key -> [t1, t2]]
          Workers         \* threads of the pool

PoolAssumption == Workers \in Nat \ {0}

VARIABLES batch,      \* what run_with_diffs was called with
          todo,       \* tasks not yet submitted
          pending,    \* submitted and not yet consumed; done: the result is there
          hists,
          diffs,      \* kept, or handed to the sink of the caller
          returned

vars == <<batch, todo, pending, hists, diffs, returned>>

Window == 2 * Workers
-----------------------------------------------------------------------------
\* Mutants of definitions below.
AnyFinished == {i \in DOMAIN pending : pending[i].done}
-----------------------------------------------------------------------------
Task(key, c) == [key |-> key, t1 |-> c.t1, t2 |-> c.t2, done |-> FALSE]

Tasks(b) ==
    FlattenSeq([i \in DOMAIN Keys |->
                  LET cs == Chunks(b[Keys[i]].t1, b[Keys[i]].t2)
                  IN  [c \in DOMAIN cs |-> Task(Keys[i], cs[c])]])
-----------------------------------------------------------------------------
Init ==
    /\ batch \in Batches
    /\ todo = Tasks(batch)
    /\ pending = <<>>
    /\ hists = [k \in {} |-> NoCounts]
    /\ diffs = [k \in {} |-> <<>>]
    /\ returned = FALSE

Full == Len(pending) >= Window

Submit ==
    /\ todo # <<>> /\ ~Full
    /\ pending' = Append(pending, Head(todo))
    /\ todo' = Tail(todo)
    /\ UNCHANGED <<batch, hists, diffs, returned>>

\* A worker takes tasks in the order of submission; they end in any order.
Running(i) == /\ ~pending[i].done
              /\ Cardinality({k \in 1 .. i - 1 : ~pending[k].done}) < Workers

Work ==
    /\ \E i \in DOMAIN pending :
         /\ Running(i)
         /\ pending' = [pending EXCEPT ![i].done = TRUE]
    /\ UNCHANGED <<batch, todo, hists, diffs, returned>>

Merged(key, taus) ==
    Count(IF key \in DOMAIN hists THEN hists[key] ELSE NoCounts, taus)

With(f, key, v) == [k \in DOMAIN f \cup {key} |-> IF k = key THEN v ELSE f[k]]

\* f.result() waits for the oldest.
NextResult == {i \in DOMAIN pending : i = 1 /\ pending[i].done}
\* The window is full, or everything has been submitted.
MustConsume == Full \/ todo = <<>>

Consume ==
    /\ MustConsume
    /\ \E i \in NextResult : \E taus \in {PairKernel(pending[i].t1, pending[i].t2)} :
         LET key == pending[i].key
             had == IF key \in DOMAIN diffs THEN diffs[key] ELSE <<>>
         IN  /\ hists' = With(hists, key, Merged(key, taus))
             /\ diffs' = With(diffs, key, had \o taus)
             /\ pending' = RemoveAt(pending, i)
    /\ UNCHANGED <<batch, todo, returned>>

Return ==
    /\ todo = <<>> /\ pending = <<>> /\ ~returned
    /\ returned' = TRUE
    /\ UNCHANGED <<batch, todo, pending, hists, diffs>>

Caller == Submit \/ Consume \/ Return

Next == Caller \/ Work

\* The caller runs, and so does a thread of the pool with a task.
Spec == Init /\ [][Next]_vars /\ WF_vars(Caller) /\ WF_vars(Work)
-----------------------------------------------------------------------------
\* The differences a pair's events have, each with the next n_shift events of
\* the other channel on either side: node-2 event k is neighbour k - i of the
\* place where the event would be inserted.
Neighbours(t1, t2) ==
    {<<i, k>> \in (DOMAIN t1) \X (DOMAIN t2) :
        LET before == Cardinality({n \in DOMAIN t2 : t2[n] < t1[i]})
        IN  /\ k - before \in 1 - NShift .. NShift
            /\ BinOf(t2[k] - t1[i]) \in Bins}

Whole(key) == PairKernel(batch[key].t1, batch[key].t2)
Inside(taus) == SelectSeq(taus, LAMBDA tau : tau =< Tmax)

\* The bins go on up to BinWidth past Tmax; the slice of a chunk ends Tmax + 1
\* after its last event.
ChunkEnd(t1, i) ==
    LET last == ((i + ChunkEvents - 1) \div ChunkEvents) * ChunkEvents
    IN  t1[IF last =< Len(t1) THEN last ELSE Len(t1)]
CutOff(t1, i, tau) == Len(t1) > ChunkEvents /\ t1[i] + tau > ChunkEnd(t1, i) + Tmax + 1

\* What the whole arrays have, less what the slices cut off.
LessCutOff(t1, t2) ==
    FlattenSeq([i \in DOMAIN t1 |->
        SelectSeq(Stops(Cardinality({n \in DOMAIN t2 : t2[n] < t1[i]}), t1[i], t2),
                  LAMBDA tau : ~CutOff(t1, i, tau))])

TypeOK ==
    /\ Len(pending) =< Window
    /\ DOMAIN hists = DOMAIN diffs /\ DOMAIN hists \subseteq {Keys[i] : i \in DOMAIN Keys}
    /\ \A key \in DOMAIN hists : hists[key] \in [Bins -> Nat]
    /\ returned => todo = <<>> /\ pending = <<>>

\* Whatever the order in which the workers finish, a pair comes out of the pool
\* as if its arrays had been one task, in the order of node 1: every difference
\* up to tmax, and of those beyond it, which the last bins still count, the ones
\* within the slice of their chunk and no others (correlate_kernel.py:225-244,
\* 263-283; DiffsRebin says the same of the histograms).  That the whole result
\* is "identical to the whole-array run" (226-230) is not so.
PoolIsWholeArray ==
    returned => \A i \in DOMAIN Keys :
        LET key == Keys[i]
        IN  /\ Inside(diffs[key]) = Inside(Whole(key))
            /\ diffs[key] = LessCutOff(batch[key].t1, batch[key].t2)

\* The saved differences bin to the histogram next to them, at every moment
\* (rebin_diffs, correlate_kernel.py:196-215).
DiffsRebin == \A key \in DOMAIN hists : hists[key] = Count(NoCounts, diffs[key])

\* The sweep takes every difference of the neighbours on either side, and takes
\* it once, with equal time stamps on either side (_multistart_multistop is the
\* same sum, shift by shift).
SweepIsSearch ==
    returned => \A i \in DOMAIN Keys :
        LET t1 == batch[Keys[i]].t1
            t2 == batch[Keys[i]].t2
            taus == Whole(Keys[i])
        IN  \A b \in Bins :
              Cardinality({k \in DOMAIN taus : BinOf(taus[k]) = b})
                = Cardinality({x \in Neighbours(t1, t2) : BinOf(t2[x[2]] - t1[x[1]]) = b})

\* The call returns: the window empties at the end of the tasks.
Returned == returned
PoolReturns == <>Returned
=============================================================================
