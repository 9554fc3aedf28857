--------------------------- MODULE CorrelatorWindow ---------------------------
(***************************************************************************)
(* MultiCorrelateWindow of correlate_multi.py: the Tk thread polls the     *)
(* channel graph, a worker thread correlates one released batch at a time, *)
(* its result comes back through a queue and is merged into the histograms *)
(* by another poll, while the user enables, disables, resets and edits and *)
(* the receiver starts sessions.  With diff capture on, the worker also    *)
(* appends each chunk's time differences to the session's files.           *)
(*                                                                         *)
(* The graph (module ChannelGraph) appears as the set `held` of units of   *)
(* data it has not released; unit <<e, n>> is the n-th that arrives in era *)
(* e, the time between two clearings of the histograms.                    *)
(***************************************************************************)
EXTENDS Integers, Sequences, FiniteSets

CONSTANTS MaxEra, MaxUnits,    \* bounds: clearings, units per era
          Editing              \* whether the user edits bw, tmax or n_shift

ASSUME WindowAssumption ==
    MaxEra \in Nat /\ MaxUnits \in Nat /\ Editing \in BOOLEAN

VARIABLES enabled,             \* _active, and _graph is not None
          accumulating,
          params_ok,           \* _get_params() would not raise
          era, arrived,        \* units of this era that have arrived
          held,                \* what the graph holds
          correlating,
          worker,              \* the worker threads: batch, chunks to do, sink, stage
          result_q,
          polling,             \* _poll_results is due again: no redraw has raised
          hist,                \* [unit -> how often it is in _hist]
          bins_set,            \* _bins is not None
          diff_files,          \* the session's diff files are open
          diffs,               \* the units whose differences they hold
          dropped,             \* ledger of the era: released, then dropped by _tick
          failed,              \* ledger: reported as a correlation error
          discarded            \* ledger: in the graph an Enable replaced

user == <<enabled, params_ok>>
capture == <<diff_files, diffs>>
ledger == <<dropped, failed, discarded>>
vars == <<user, accumulating, era, arrived, held, correlating, worker, result_q,
          polling, hist, bins_set, capture, ledger>>

Eras == 0 .. MaxEra
Units == Eras \X (1 .. MaxUnits)
NoHist == [u \in Units |-> 0]
InHist == {u \in Units : hist[u] > 0}
-----------------------------------------------------------------------------
\* Mutants of definitions below.
ReleaseKeeps(batch) == held' = held
MergedLast ==
    hist' = [u \in Units |-> hist[u] + IF u \in result_q[Len(result_q)].batch THEN 1 ELSE 0]
FinallyMissing(w) == UNCHANGED correlating

\* `if self._correlating: return`
Busy == correlating

\* What release() hands over leaves the graph.
Released(batch) == held' = held \ batch

\* Every queued result joins the histograms.
Merged ==
    hist' = [u \in Units |->
        hist[u] + Cardinality({i \in 1 .. Len(result_q) :
                                  result_q[i].ok /\ u \in result_q[i].batch})]

\* The worker's finally clause.
Finally(w) == correlating' = FALSE
-----------------------------------------------------------------------------
Init ==
    /\ enabled = FALSE /\ accumulating = FALSE /\ params_ok = TRUE
    /\ era = 0 /\ arrived = 0 /\ held = {}
    /\ correlating = FALSE /\ worker = {} /\ result_q = <<>> /\ polling = TRUE
    /\ hist = NoHist /\ bins_set = FALSE
    /\ diff_files = FALSE /\ diffs = {}
    /\ dropped = {} /\ failed = {} /\ discarded = {}

\* A pixel's data reaches a graph that accumulates.
Arrive ==
    /\ accumulating /\ arrived < MaxUnits
    /\ arrived' = arrived + 1
    /\ held' = held \cup {<<era, arrived + 1>>}
    /\ UNCHANGED <<user, polling, accumulating, era, correlating, worker, result_q, hist, bins_set,
                   capture, ledger>>

\* The user is in the middle of an entry box, or done with it.
EditParams ==
    /\ Editing /\ params_ok' = ~params_ok
    /\ UNCHANGED <<enabled, polling, accumulating, era, arrived, held, correlating, worker,
                   result_q, hist, bins_set, capture, ledger>>

\* _enable: a new graph, nothing accumulated yet.
Enable ==
    /\ params_ok
    /\ enabled' = TRUE /\ accumulating' = FALSE
    /\ held' = {} /\ discarded' = discarded \cup held
    /\ UNCHANGED <<params_ok, polling, era, arrived, correlating, worker, result_q, hist, bins_set,
                   capture, dropped, failed>>

\* _stop_diff_capture closes the files ...
StopDiffCapture == diff_files' = FALSE /\ diffs' = {}

\* ... and if some were open saves histogram and diffs in one .npz (_save_npz
\* has nothing to save after a reset).
Consolidates == diff_files /\ ~diff_files' /\ InHist # {} /\ bins_set /\ hist' = hist

Disable ==
    /\ enabled' = FALSE /\ accumulating' = FALSE
    /\ StopDiffCapture
    /\ UNCHANGED <<params_ok, polling, era, arrived, held, correlating, worker, result_q, hist,
                   bins_set, ledger>>

\* "Data cleared": a new era, the worker left alone.
Clear ==
    /\ era < MaxEra
    /\ era' = era + 1 /\ arrived' = 0
    /\ held' = {} /\ hist' = NoHist /\ bins_set' = FALSE
    /\ dropped' = {} /\ failed' = {} /\ discarded' = {}
    /\ UNCHANGED <<user, polling, correlating, worker, result_q>>

\* _reset
Reset ==
    /\ Clear /\ accumulating' = FALSE
    /\ StopDiffCapture

\* start_with_offset: a session begins, with its own diff files.
StartWithOffset ==
    /\ enabled
    /\ Clear /\ accumulating' = TRUE
    /\ diff_files' = TRUE /\ diffs' = {}

\* _tick: while a worker runs nothing is released; otherwise what the graph
\* releases goes to a new worker, if the parameters can be read.
Tick ==
    /\ accumulating /\ ~Busy
    /\ \E batch \in SUBSET held \ {{}} :
          /\ Released(batch)
          /\ IF params_ok
             THEN /\ correlating' = TRUE /\ bins_set' = TRUE
                  /\ worker' = worker \cup {[batch |-> batch, todo |-> batch, sink |-> FALSE,
                                             stage |-> "started"]}
                  /\ UNCHANGED dropped
             ELSE /\ dropped' = dropped \cup batch
                  /\ UNCHANGED <<correlating, bins_set, worker>>
    /\ UNCHANGED <<user, polling, accumulating, era, arrived, result_q, hist, capture, failed,
                   discarded>>

\* _correlate_bg looks whether there are diff files.
WorkerBegins(w) ==
    /\ w.stage = "started"
    /\ worker' = (worker \ {w}) \cup {[w EXCEPT !.stage = "kernel", !.sink = diff_files]}
    /\ UNCHANGED <<user, polling, accumulating, era, arrived, held, correlating, result_q, hist,
                   bins_set, capture, ledger>>

\* One chunk is correlated; _write_diffs appends to the files open by now.
KernelChunk(w) ==
    /\ w.stage = "kernel"
    /\ \E u \in w.todo :
          /\ worker' = (worker \ {w}) \cup {[w EXCEPT !.todo = @ \ {u}]}
          /\ diffs' = IF w.sink /\ diff_files THEN diffs \cup {u} ELSE diffs
    /\ UNCHANGED <<user, polling, accumulating, era, arrived, held, correlating, result_q, hist,
                   bins_set, diff_files, ledger>>

\* The result, or the exception of a kernel or a write, is queued.
WorkerPosts(w) ==
    /\ w.stage = "kernel"
    /\ \E ok \in BOOLEAN :
          /\ ok => w.todo = {}
          /\ result_q' = Append(result_q, [ok |-> ok, batch |-> w.batch])
          /\ failed' = IF ok THEN failed ELSE failed \cup w.batch
    /\ worker' = (worker \ {w}) \cup {[w EXCEPT !.stage = "posted", !.batch = {}, !.todo = {}]}
    /\ UNCHANGED <<user, polling, accumulating, era, arrived, held, correlating, hist, bins_set,
                   capture, dropped, discarded>>

WorkerEnds(w) ==
    /\ w.stage = "posted"
    /\ worker' = worker \ {w}
    /\ Finally(w)
    /\ UNCHANGED <<user, polling, accumulating, era, arrived, held, result_q, hist, bins_set,
                   capture, ledger>>

WorkerStep(w) == WorkerBegins(w) \/ KernelChunk(w) \/ WorkerPosts(w) \/ WorkerEnds(w)

\* _poll_results: an exception of _redraw leaves it without its after(250, ...),
\* and nothing starts it again.
Redraws == bins_set /\ \E i \in 1 .. Len(result_q) : result_q[i].ok

PollResults ==
    /\ polling /\ result_q # <<>> /\ result_q' = <<>>
    /\ Merged
    /\ \/ UNCHANGED polling
       \/ Redraws /\ polling' = FALSE
    /\ UNCHANGED <<user, accumulating, era, arrived, held, correlating, worker, bins_set,
                   capture, ledger>>

Next ==
    \/ Arrive \/ EditParams \/ Enable \/ Disable \/ Reset \/ StartWithOffset
    \/ Tick \/ PollResults
    \/ \E w \in worker : WorkerStep(w)

Spec == Init /\ [][Next]_vars
Works == \E w \in worker : WorkerStep(w)
FairSpec == Spec /\ WF_vars(Works) /\ WF_vars(PollResults) /\ WF_vars(Tick)
-----------------------------------------------------------------------------
Workers == [batch : SUBSET Units, todo : SUBSET Units, sink : BOOLEAN,
            stage : {"started", "kernel", "posted"}]

\* One worker at a time, announced by _correlating.
TypeOK ==
    /\ enabled \in BOOLEAN /\ accumulating \in BOOLEAN /\ params_ok \in BOOLEAN
    /\ era \in Eras /\ arrived \in 0 .. MaxUnits /\ held \subseteq Units
    /\ correlating \in BOOLEAN /\ bins_set \in BOOLEAN /\ polling \in BOOLEAN
    /\ worker \subseteq Workers /\ \A w \in worker : w.todo \subseteq w.batch
    /\ result_q \in Seq([ok : BOOLEAN, batch : SUBSET Units]) /\ hist \in [Units -> Nat]
    /\ correlating = (worker # {}) /\ Cardinality(worker) =< 1
    /\ diff_files \in BOOLEAN /\ diffs \subseteq Units
    /\ dropped \cup failed \cup discarded \subseteq Units

\* Where a unit can be that is not in the histograms.
Places == {"held", "worker", "queued", "failed", "dropped", "discarded"}
IsIn(u, x) ==
    \/ x = "held" /\ u \in held
    \/ x = "worker" /\ \E w \in worker : u \in w.batch
    \/ x = "queued" /\ \E i \in 1 .. Len(result_q) : result_q[i].ok /\ u \in result_q[i].batch
    \/ x = "failed" /\ u \in failed /\ \A w \in worker : u \notin w.batch
    \/ x = "dropped" /\ u \in dropped
    \/ x = "discarded" /\ u \in discarded

\* Every unit that arrived in this era is in exactly one place: in the graph,
\* with the worker, in the result queue, in the histogram once, or on the
\* ledger of what was reported failed or dropped.
EachUnitInOnePlace ==
    \A n \in 1 .. arrived :
        hist[<<era, n>>] + Cardinality({x \in Places : IsIn(<<era, n>>, x)}) = 1

\* MultiCorrelateWindow (correlate_multi.py:1060-1140), whatever is enabled,
\* edited, cleared and restarted meanwhile.
WindowSound == TypeOK /\ EachUnitInOnePlace

\* A batch is in the hands of the worker and then of the result queue, until it
\* is in the histogram or its error is reported: no restart, clearing or second
\* result makes a released batch disappear ...
InFlight(u) == \/ \E w \in worker : u \in w.batch
               \/ \E i \in 1 .. Len(result_q) : result_q[i].ok /\ u \in result_q[i].batch
Landed(u) == hist[u] > 0 \/ u \in failed
Lands == \A u \in Units : InFlight(u) /\ ~InFlight(u)' => Landed(u)'
BatchesLand == [][Lands]_vars

\* ... and neither holds it for ever: the next release waits for the worker no
\* longer, and what is queued is taken while the poll lives.
Waiting == correlating
Queued == result_q # <<>> /\ polling

\* "entry box mid-edit; retry next poll": what a poll finds unreadable
\* parameters for is correlated by a later one.
MidEditRetries == dropped = {}

\* "Data cleared": what arrived before a clearing is not in the histograms.
ClearedStaysCleared == \A u \in InHist : u[1] = era

\* "rebin_diffs on the saved diffs_ps must reproduce each pair's histogram
\* row": the .npz saved when a session is disabled holds the same events in
\* its histogram and in its diffs.
SavedDiffsReproduce == [][Consolidates => InHist = diffs]_vars
=============================================================================
