------------------------ MODULE CorrelatorWindow_proofs ------------------------
(***************************************************************************)
(* The correlator window, for any number of sessions, resets and units of  *)
(* data: a unit that has arrived since the histograms were cleared is in   *)
(* one place, and a batch in flight lands.  And the trackers of the chips' *)
(* dwell offsets, for any nodes, inputs, sessions and markers: one that is *)
(* made for a run knows markers of that run's session only.                *)
(***************************************************************************)
EXTENDS CorrelatorPrograms, FiniteSetTheorems, SequenceLaws

OneWorker == \A v, w \in worker : v = w
PostedIsEmpty == \A w \in worker : w.stage = "posted" => w.batch = {}

AtWorker(u) == \E w \in worker : u \in w.batch
QueuedAt(u, i) == result_q[i].ok /\ u \in result_q[i].batch
Queues(u) == \E i \in 1 .. Len(result_q) : QueuedAt(u, i)

\* The graph and its ledgers hold what arrived in this era only ...
OfNow == held \cup dropped \cup discarded \subseteq {era} \X (1 .. arrived)

\* ... and what has not arrived is nowhere; units of earlier eras may still be
\* with the worker, in the queue, and after that in the histograms.
Absent(u) == hist[u] = 0 /\ u \notin failed /\ ~AtWorker(u) /\ ~Queues(u)
ToCome == \A u \in Units : u[1] > era \/ (u[1] = era /\ u[2] > arrived) => Absent(u)

\* A unit of this era is in the histogram, once, or in one of the places.
Apart(u) ==
    /\ hist[u] \in {0, 1}
    /\ hist[u] = 1 => \A x \in Places : ~IsIn(u, x)
    /\ hist[u] = 0 => \E x \in Places : IsIn(u, x) /\ \A y \in Places : IsIn(u, y) => y = x
    /\ \A i, j \in 1 .. Len(result_q) : QueuedAt(u, i) /\ QueuedAt(u, j) => i = j
    /\ u \in failed => ~AtWorker(u)
OnePlace == \A u \in Units : u[1] = era /\ u[2] =< arrived => Apart(u)

IInv == TypeOK /\ OneWorker /\ PostedIsEmpty /\ OfNow /\ ToCome /\ OnePlace
-----------------------------------------------------------------------------
LEMMA AtMostOne ==
    ASSUME NEW W, \A v, w \in W : v = w
    PROVE  Cardinality(W) =< 1
  <1>1. CASE W = {}
    BY <1>1, FS_EmptySet
  <1>2. CASE W # {}
    <2>1. PICK w \in W : W = {w}
      BY <1>2
    <2>2. Cardinality({w}) = 1
      BY FS_Singleton
    <2> QED
      BY <2>1, <2>2
  <1> QED
    BY <1>1, <1>2

\* The one worker goes on as v.
LEMMA Replaced ==
    ASSUME OneWorker, NEW w \in worker, NEW v, worker' = (worker \ {w}) \cup {v}
    PROVE  worker = {w} /\ worker' = {v} /\ OneWorker'
  BY DEF OneWorker

LEMMA InitInv == Init => IInv
  <1> SUFFICES ASSUME Init PROVE IInv
    OBVIOUS
  <1>1. Cardinality(worker) =< 1
    BY FS_EmptySet DEF Init
  <1>2. result_q = <<>> /\ Len(result_q) = 0
    BY DEF Init
  <1>3. TypeOK
    <2>1. era \in Eras /\ arrived \in 0 .. MaxUnits
      BY WindowAssumption DEF Init, Eras
    <2>2. hist \in [Units -> Nat]
      BY DEF Init, NoHist
    <2>3. result_q \in Seq([ok : BOOLEAN, batch : SUBSET Units])
      BY <1>2
    <2>4. /\ enabled \in BOOLEAN /\ accumulating \in BOOLEAN /\ params_ok \in BOOLEAN
          /\ correlating \in BOOLEAN /\ bins_set \in BOOLEAN /\ diff_files \in BOOLEAN
          /\ correlating = (worker # {})
      BY DEF Init
    <2> QED
      BY <1>1, <2>1, <2>2, <2>3, <2>4 DEF Init, TypeOK
  <1>4. OneWorker /\ PostedIsEmpty /\ OfNow /\ OnePlace
    BY WindowAssumption DEF Init, OneWorker, PostedIsEmpty, OfNow, OnePlace, Units
  <1>5. ToCome
    BY <1>2 DEF Init, ToCome, Absent, AtWorker, Queues, NoHist
  <1> QED
    BY <1>3, <1>4, <1>5 DEF IInv

\* No unit changes its place.
LEMMA StillInv ==
    ASSUME IInv, TypeOK', OneWorker', PostedIsEmpty',
           UNCHANGED <<era, arrived, held, result_q, hist, ledger>>,
           \A u \in Units : AtWorker(u)' <=> AtWorker(u)
    PROVE  IInv'
  <1>1. OfNow'
    BY DEF IInv, OfNow, ledger
  <1>2. ToCome'
    BY DEF IInv, ToCome, Absent, Queues, QueuedAt, ledger
  <1>3. ASSUME NEW u \in Units, u[1] = era', u[2] =< arrived' PROVE Apart(u)'
    <2>1. Apart(u)
      BY <1>3 DEF IInv, OnePlace
    <2>2. AtWorker(u)' <=> AtWorker(u)
      OBVIOUS
    <2>3. \A x \in Places : IsIn(u, x)' <=> IsIn(u, x)
      BY <2>2 DEF IsIn, AtWorker, ledger
    <2>4. /\ hist'[u] = hist[u] /\ (u \in failed' <=> u \in failed)
          /\ \A i : QueuedAt(u, i)' <=> QueuedAt(u, i)
      BY DEF QueuedAt, ledger
    <2> QED
      BY <2>1, <2>2, <2>3, <2>4 DEF Apart
  <1> QED
    BY <1>1, <1>2, <1>3 DEF IInv, OnePlace

LEMMA UserInv ==
    ASSUME IInv, EditParams \/ Disable \/ UNCHANGED vars
    PROVE  IInv'
  <1>1. /\ UNCHANGED <<polling, era, arrived, held, correlating, worker, result_q, hist, bins_set, ledger>>
        /\ enabled' \in BOOLEAN /\ accumulating' \in BOOLEAN /\ params_ok' \in BOOLEAN
        /\ diff_files' \in BOOLEAN /\ diffs' \subseteq Units
    BY DEF EditParams, Disable, StopDiffCapture, vars, user, capture, IInv, TypeOK
  <1>2. TypeOK'
    BY <1>1 DEF IInv, TypeOK, ledger
  <1> QED
    BY <1>1, <1>2, StillInv DEF IInv, OneWorker, PostedIsEmpty, AtWorker

LEMMA WorkingInv ==
    ASSUME IInv, NEW w \in worker, WorkerBegins(w) \/ KernelChunk(w) \/ WorkerEnds(w)
    PROVE  IInv'
  <1>0. w \in Workers
    BY DEF IInv, TypeOK
  <1>1. CASE WorkerBegins(w) \/ KernelChunk(w)
    <2>1. PICK v \in Workers : /\ worker' = (worker \ {w}) \cup {v}
                               /\ v.batch = w.batch /\ v.todo \subseteq w.todo
                               /\ v.stage = "kernel"
      <3>1. CASE WorkerBegins(w)
        <4> DEFINE v == [w EXCEPT !.stage = "kernel", !.sink = diff_files]
        <4>1. worker' = (worker \ {w}) \cup {v}
          BY <3>1 DEF WorkerBegins
        <4>2. v \in Workers /\ v.batch = w.batch /\ v.todo = w.todo /\ v.stage = "kernel"
          BY <1>0 DEF Workers, IInv, TypeOK
        <4> QED
          BY <4>1, <4>2
      <3>2. CASE KernelChunk(w)
        <4>1. PICK u \in w.todo : worker' = (worker \ {w}) \cup {[w EXCEPT !.todo = @ \ {u}]}
          BY <3>2 DEF KernelChunk
        <4> DEFINE v == [w EXCEPT !.todo = @ \ {u}]
        <4>2. /\ v \in Workers /\ v.batch = w.batch /\ v.todo \subseteq w.todo
              /\ v.stage = w.stage /\ w.stage = "kernel"
          BY <1>0, <3>2 DEF Workers, KernelChunk
        <4> QED
          BY <4>1, <4>2
      <3> QED
        BY <1>1, <3>1, <3>2
    <2>2. worker = {w} /\ worker' = {v} /\ OneWorker'
      BY <2>1, Replaced DEF IInv
    <2>3. Cardinality(worker') =< 1
      BY <2>2, FS_Singleton
    <2>4. /\ UNCHANGED <<user, polling, accumulating, era, arrived, held, correlating, result_q, hist,
                         bins_set, diff_files, ledger>>
          /\ diffs' \subseteq Units
      BY <1>0, <1>1 DEF WorkerBegins, KernelChunk, capture, Workers, IInv, TypeOK
    <2>5. TypeOK'
      BY <2>1, <2>2, <2>3, <2>4 DEF IInv, TypeOK, ledger, user
    <2>6. PostedIsEmpty'
      BY <2>1, <2>2 DEF PostedIsEmpty
    <2> QED
      BY <2>1, <2>2, <2>4, <2>5, <2>6, StillInv DEF AtWorker
  <1>2. CASE WorkerEnds(w)
    <2>1. worker = {w} /\ worker' = {} /\ w.batch = {} /\ correlating' = FALSE
      BY <1>2 DEF WorkerEnds, Finally, IInv, OneWorker, PostedIsEmpty
    <2>2. UNCHANGED <<user, polling, accumulating, era, arrived, held, result_q, hist, bins_set,
                      capture, ledger>>
      BY <1>2 DEF WorkerEnds
    <2>3. Cardinality(worker') =< 1
      BY <2>1, FS_EmptySet
    <2>4. TypeOK'
      BY <2>1, <2>2, <2>3 DEF IInv, TypeOK, ledger, user, capture
    <2> QED
      BY <2>1, <2>2, <2>4, StillInv DEF OneWorker, PostedIsEmpty, AtWorker
  <1> QED
    BY <1>1, <1>2

LEMMA ArriveInv == ASSUME IInv, Arrive PROVE IInv'
  <1> DEFINE new == <<era, arrived + 1>>
  <1>1. /\ arrived < MaxUnits /\ arrived' = arrived + 1 /\ held' = held \cup {new}
        /\ UNCHANGED <<user, polling, accumulating, era, correlating, worker, result_q, hist, bins_set,
                       capture, ledger>>
    BY DEF Arrive
  <1>2. arrived' \in 1 .. MaxUnits /\ new \in Units
    BY <1>1, WindowAssumption DEF IInv, TypeOK, Units
  <1>3. TypeOK'
    BY <1>1, <1>2 DEF IInv, TypeOK, ledger, user, capture
  <1>4. OneWorker' /\ PostedIsEmpty'
    BY <1>1 DEF IInv, OneWorker, PostedIsEmpty
  <1>5. OfNow'
    BY <1>1, <1>2, WindowAssumption DEF IInv, OfNow, TypeOK, ledger
  <1>6. ToCome'
    BY <1>1, <1>2, WindowAssumption
       DEF IInv, TypeOK, Units, Eras, ToCome, Absent, AtWorker, Queues, QueuedAt, ledger
  <1>7. ASSUME NEW u \in Units, u[1] = era', u[2] =< arrived' PROVE Apart(u)'
    <2>1. CASE u[2] = arrived'
      <3>1. u = new /\ Absent(u)
        BY <1>1, <1>2, <1>7, <2>1 DEF IInv, ToCome, TypeOK, Units
      <3>2. u \notin dropped /\ u \notin discarded
        BY <1>1, <1>2, <3>1 DEF IInv, OfNow, TypeOK
      <3>3. hist'[u] = 0 /\ u \notin failed' /\ ~AtWorker(u)' /\ ~Queues(u)' /\ u \in held'
            /\ u \notin dropped' /\ u \notin discarded'
        BY <1>1, <3>1, <3>2 DEF Absent, AtWorker, Queues, QueuedAt, ledger
      <3> QED
        BY <3>3 DEF Apart, IsIn, Places, AtWorker, Queues, QueuedAt
    <2>2. CASE u[2] # arrived'
      <3>1. u[2] =< arrived /\ u # new
        BY <1>1, <1>2, <1>7, <2>2 DEF IInv, TypeOK, Units
      <3>2. Apart(u) /\ u # new
        BY <1>1, <1>7, <3>1 DEF IInv, OnePlace
      <3>3. \A x \in Places : IsIn(u, x)' <=> IsIn(u, x)
        BY <1>1, <3>2 DEF IsIn, ledger
      <3> QED
        BY <1>1, <3>2, <3>3 DEF Apart, QueuedAt, AtWorker, ledger
    <2> QED
      BY <2>1, <2>2
  <1> QED
    BY <1>1, <1>3, <1>4, <1>5, <1>6, <1>7 DEF IInv, OnePlace

LEMMA EnableInv == ASSUME IInv, Enable PROVE IInv'
  <1>1. /\ held' = {} /\ discarded' = discarded \cup held
        /\ enabled' = TRUE /\ accumulating' = FALSE
        /\ UNCHANGED <<params_ok, polling, era, arrived, correlating, worker, result_q, hist, bins_set,
                       capture, dropped, failed>>
    BY DEF Enable
  <1>2. TypeOK'
    BY <1>1 DEF IInv, TypeOK, capture
  <1>3. OneWorker' /\ PostedIsEmpty' /\ OfNow'
    BY <1>1 DEF IInv, OneWorker, PostedIsEmpty, OfNow
  <1>4. ToCome'
    BY <1>1 DEF IInv, ToCome, Absent, AtWorker, Queues, QueuedAt
  <1>5. ASSUME NEW u \in Units, u[1] = era', u[2] =< arrived' PROVE Apart(u)'
    <2>1. Apart(u)
      BY <1>1, <1>5 DEF IInv, OnePlace
    <2>2. /\ \A x \in {"worker", "queued", "failed", "dropped"} : IsIn(u, x)' <=> IsIn(u, x)
          /\ ~IsIn(u, "held")'
          /\ IsIn(u, "discarded")' <=> IsIn(u, "discarded") \/ IsIn(u, "held")
      BY <1>1 DEF IsIn
    <2> QED
      BY <1>1, <2>1, <2>2 DEF Apart, Places, QueuedAt, AtWorker
  <1> QED
    BY <1>1, <1>2, <1>3, <1>4, <1>5 DEF IInv, OnePlace

LEMMA ClearInv ==
    ASSUME IInv, Clear, accumulating' \in BOOLEAN, diff_files' \in BOOLEAN, diffs' \subseteq Units
    PROVE  IInv'
  <1>1. /\ era < MaxEra /\ era' = era + 1 /\ arrived' = 0 /\ held' = {} /\ hist' = NoHist
        /\ bins_set' = FALSE /\ dropped' = {} /\ failed' = {} /\ discarded' = {}
        /\ UNCHANGED <<user, polling, correlating, worker, result_q>>
    BY DEF Clear
  <1>2. era' \in Eras /\ arrived' \in 0 .. MaxUnits /\ hist' \in [Units -> Nat]
    BY <1>1, WindowAssumption DEF IInv, TypeOK, Eras, NoHist
  <1>3. TypeOK'
    BY <1>1, <1>2 DEF IInv, TypeOK, user
  <1>4. OneWorker' /\ PostedIsEmpty' /\ OfNow' /\ OnePlace'
    BY <1>1, WindowAssumption DEF IInv, OneWorker, PostedIsEmpty, OfNow, OnePlace, Units
  <1>5. ToCome'
    <2> SUFFICES ASSUME NEW u \in Units, u[1] >= era + 1 PROVE Absent(u)'
      BY <1>1, WindowAssumption DEF ToCome, IInv, TypeOK, Units, Eras
    <2>1. Absent(u)
      BY WindowAssumption DEF IInv, TypeOK, Units, Eras, ToCome
    <2> QED
      BY <1>1, <2>1 DEF Absent, AtWorker, Queues, QueuedAt, NoHist
  <1> QED
    BY <1>3, <1>4, <1>5 DEF IInv

\* A batch leaves the graph for the worker or, the parameters unreadable, for
\* the ledger.
LEMMA TickInv == ASSUME IInv, Tick PROVE IInv'
  <1>1. PICK batch \in SUBSET held \ {{}} :
          /\ held' = held \ batch
          /\ \/ /\ correlating' = TRUE /\ bins_set' = TRUE /\ dropped' = dropped
                /\ worker' = worker \cup {[batch |-> batch, todo |-> batch, sink |-> FALSE,
                                           stage |-> "started"]}
             \/ /\ dropped' = dropped \cup batch
                /\ UNCHANGED <<correlating, bins_set, worker>>
    BY DEF Tick, Released
  <1>2. /\ worker = {}
        /\ UNCHANGED <<user, polling, accumulating, era, arrived, result_q, hist, capture, failed,
                       discarded>>
    BY DEF Tick, Busy, IInv, TypeOK
  <1>3. batch \subseteq Units
    BY <1>1 DEF IInv, TypeOK
  <1>4. \/ worker' = {} /\ correlating' = FALSE /\ bins_set' = bins_set
        \/ /\ worker' = {[batch |-> batch, todo |-> batch, sink |-> FALSE, stage |-> "started"]}
           /\ correlating' = TRUE /\ bins_set' = TRUE
    BY <1>1, <1>2 DEF Tick, Busy, IInv, TypeOK
  <1>5. OneWorker' /\ PostedIsEmpty' /\ worker' \subseteq Workers
        /\ \A w \in worker' : w.todo \subseteq w.batch
    <2> DEFINE v == [batch |-> batch, todo |-> batch, sink |-> FALSE, stage |-> "started"]
    <2>1. v \in Workers /\ v.todo = v.batch /\ v.stage # "posted"
      BY <1>3 DEF Workers
    <2>2. worker' = {} \/ worker' = {v}
      BY <1>4
    <2> HIDE DEF v
    <2> QED
      BY <2>1, <2>2 DEF OneWorker, PostedIsEmpty
  <1>6. Cardinality(worker') =< 1
    BY <1>5, AtMostOne DEF OneWorker
  <1>7. TypeOK'
    <2>1. held' \subseteq Units /\ dropped' \subseteq Units /\ bins_set' \in BOOLEAN
          /\ correlating' \in BOOLEAN /\ correlating' = (worker' # {})
      BY <1>1, <1>3, <1>4 DEF IInv, TypeOK
    <2> QED
      BY <1>2, <1>5, <1>6, <2>1 DEF IInv, TypeOK, user, capture
  <1>8. OfNow'
    BY <1>1, <1>2 DEF IInv, OfNow
  <1>9. \A u \in Units : AtWorker(u)' => u \in batch
    BY <1>4 DEF AtWorker
  <1>10. ToCome'
    <2> SUFFICES ASSUME NEW u \in Units, u[1] > era \/ (u[1] = era /\ u[2] > arrived)
                 PROVE  Absent(u)'
      BY <1>2 DEF ToCome
    <2>1. Absent(u) /\ u \notin held
      BY WindowAssumption DEF IInv, ToCome, OfNow, TypeOK, Eras
    <2> QED
      BY <1>1, <1>2, <1>9, <2>1 DEF Absent, Queues, QueuedAt
  <1>11. ASSUME NEW u \in Units, u[1] = era', u[2] =< arrived' PROVE Apart(u)'
    <2>1. Apart(u)
      BY <1>2, <1>11 DEF IInv, OnePlace
    <2>2. /\ \A x \in {"queued", "discarded"} : IsIn(u, x)' <=> IsIn(u, x)
          /\ ~IsIn(u, "worker") /\ ~AtWorker(u)
          /\ IsIn(u, "failed") <=> u \in failed
          /\ IsIn(u, "held") <=> u \in held
          /\ IsIn(u, "held")' <=> u \in held /\ u \notin batch
          /\ IsIn(u, "dropped") <=> u \in dropped
          /\ IsIn(u, "dropped")' <=> u \in dropped'
          /\ IsIn(u, "worker")' <=> AtWorker(u)'
          /\ IsIn(u, "failed")' <=> u \in failed' /\ ~AtWorker(u)'
      BY <1>1, <1>2 DEF IsIn, AtWorker
    <2>3. \/ (AtWorker(u)' <=> u \in batch) /\ dropped' = dropped
          \/ ~AtWorker(u)' /\ dropped' = dropped \cup batch
      <3> DEFINE v == [batch |-> batch, todo |-> batch, sink |-> FALSE, stage |-> "started"]
      <3>1. v.batch = batch
        OBVIOUS
      <3>2. \/ worker' = {v} /\ dropped' = dropped
            \/ worker' = {} /\ dropped' = dropped \cup batch
        BY <1>1, <1>2
      <3> HIDE DEF v
      <3> QED
        BY <3>1, <3>2 DEF AtWorker
    <2>4. /\ hist'[u] = hist[u] /\ failed' = failed
          /\ \A i : QueuedAt(u, i)' <=> QueuedAt(u, i)
          /\ Len(result_q') = Len(result_q)
      BY <1>2 DEF QueuedAt
    <2> QED
      BY <1>1, <2>1, <2>2, <2>3, <2>4 DEF Apart, Places
  <1> QED
    BY <1>2, <1>5, <1>7, <1>8, <1>10, <1>11 DEF IInv, OnePlace

\* The worker's batch goes to the queue, or its error is reported.
LEMMA PostsInv ==
    ASSUME IInv, NEW w \in worker, WorkerPosts(w)
    PROVE  IInv'
  <1> DEFINE v == [w EXCEPT !.stage = "posted", !.batch = {}, !.todo = {}]
  <1>1. PICK ok \in BOOLEAN : /\ result_q' = Append(result_q, [ok |-> ok, batch |-> w.batch])
                             /\ failed' = IF ok THEN failed ELSE failed \cup w.batch
    BY DEF WorkerPosts
  <1>2. /\ w \in Workers /\ w.batch \subseteq Units /\ v \in Workers
        /\ v.batch = {} /\ v.todo = {} /\ v.stage = "posted"
    BY DEF IInv, TypeOK, Workers
  <1>3. /\ worker' = (worker \ {w}) \cup {v}
        /\ UNCHANGED <<user, polling, accumulating, era, arrived, held, correlating, hist, bins_set,
                       capture, dropped, discarded>>
    BY DEF WorkerPosts
  <1> HIDE DEF v
  <1>4. worker = {w} /\ worker' = {v} /\ OneWorker'
    BY <1>3, Replaced DEF IInv
  <1>5. Cardinality(worker') =< 1
    BY <1>4, AtMostOne DEF OneWorker
  <1>6. /\ result_q' \in Seq([ok : BOOLEAN, batch : SUBSET Units])
        /\ Len(result_q) \in Nat /\ Len(result_q') = Len(result_q) + 1
        /\ \A i \in 1 .. Len(result_q) : result_q'[i] = result_q[i]
        /\ result_q'[Len(result_q) + 1].ok = ok
        /\ result_q'[Len(result_q) + 1].batch = w.batch
    BY <1>1, <1>2 DEF IInv, TypeOK
  <1>7. TypeOK'
    BY <1>1, <1>2, <1>3, <1>4, <1>5, <1>6 DEF IInv, TypeOK, user, capture
  <1>8. PostedIsEmpty' /\ OfNow'
    BY <1>2, <1>3, <1>4 DEF IInv, PostedIsEmpty, OfNow
  <1>9. \A u : /\ AtWorker(u) <=> u \in w.batch
               /\ ~AtWorker(u)'
               /\ Queues(u)' <=> Queues(u) \/ (ok /\ u \in w.batch)
    BY <1>2, <1>4, <1>6 DEF AtWorker, Queues, QueuedAt
  <1>10. ToCome'
    BY <1>1, <1>3, <1>9 DEF IInv, ToCome, Absent
  <1>11. ASSUME NEW u \in Units, u[1] = era', u[2] =< arrived' PROVE Apart(u)'
    <2>1. Apart(u)
      BY <1>3, <1>11 DEF IInv, OnePlace
    <2>2. /\ \A x \in {"held", "dropped", "discarded"} : IsIn(u, x)' <=> IsIn(u, x)
          /\ IsIn(u, "worker") <=> u \in w.batch
          /\ ~IsIn(u, "worker")'
          /\ IsIn(u, "queued") <=> Queues(u)
          /\ IsIn(u, "queued")' <=> Queues(u) \/ (ok /\ u \in w.batch)
          /\ IsIn(u, "failed") <=> u \in failed /\ u \notin w.batch
          /\ IsIn(u, "failed")' <=> u \in failed \/ (~ok /\ u \in w.batch)
      BY <1>1, <1>3, <1>9 DEF IsIn, AtWorker, Queues, QueuedAt
    <2>3. /\ hist'[u] \in {0, 1}
          /\ hist'[u] = 1 => \A x \in Places : ~IsIn(u, x)'
          /\ hist'[u] = 0 => \E x \in Places : IsIn(u, x)' /\ \A y \in Places : IsIn(u, y)' => y = x
      BY <1>3, <1>9, <2>1, <2>2 DEF Apart, Places
    <2>4. u \in w.batch => ~Queues(u)
      BY <2>1, <2>2 DEF Apart, Places
    <2>5. \A i \in 1 .. Len(result_q') :
             QueuedAt(u, i)' => \/ i \in 1 .. Len(result_q) /\ QueuedAt(u, i)
                                \/ i = Len(result_q) + 1 /\ u \in w.batch
      BY <1>6 DEF QueuedAt
    <2>6. \A i, j \in 1 .. Len(result_q') : QueuedAt(u, i)' /\ QueuedAt(u, j)' => i = j
      BY <2>1, <2>4, <2>5 DEF Apart, Queues
    <2> QED
      BY <1>9, <2>3, <2>6 DEF Apart
  <1> QED
    BY <1>4, <1>7, <1>8, <1>10, <1>11 DEF IInv, OnePlace

\* How many queued results a unit has.
LEMMA QueuedCount ==
    ASSUME TypeOK, NEW u \in Units
    PROVE  LET S == {i \in 1 .. Len(result_q) : result_q[i].ok /\ u \in result_q[i].batch}
           IN  /\ Cardinality(S) \in Nat
               /\ Queues(u) => Cardinality(S) > 0
               /\ ~Queues(u) => Cardinality(S) = 0
               /\ (\A i, j \in 1 .. Len(result_q) : QueuedAt(u, i) /\ QueuedAt(u, j) => i = j)
                      => Cardinality(S) =< 1
  <1> DEFINE S == {i \in 1 .. Len(result_q) : result_q[i].ok /\ u \in result_q[i].batch}
  <1>1. Len(result_q) \in Nat
    BY DEF TypeOK
  <1>2. IsFiniteSet(S) /\ Cardinality(S) \in Nat
    <2>1. IsFiniteSet(1 .. Len(result_q))
      BY <1>1, FS_Interval
    <2>2. IsFiniteSet(S)
      BY <2>1, FS_Subset
    <2> QED
      BY <2>2, FS_CardinalityType
  <1>3. Cardinality(S) = 0 <=> S = {}
    BY <1>2, FS_EmptySet
  <1>4. Queues(u) <=> S # {}
    BY DEF Queues, QueuedAt
  <1>5. (\A i, j \in 1 .. Len(result_q) : QueuedAt(u, i) /\ QueuedAt(u, j) => i = j)
           => Cardinality(S) =< 1
    BY AtMostOne DEF QueuedAt
  <1> QED
    BY <1>2, <1>3, <1>4, <1>5

LEMMA PollInv == ASSUME IInv, PollResults PROVE IInv'
  <1> DEFINE S(u) == {i \in 1 .. Len(result_q) : result_q[i].ok /\ u \in result_q[i].batch}
  <1>1. /\ result_q' = <<>> /\ hist' = [u \in Units |-> hist[u] + Cardinality(S(u))]
        /\ UNCHANGED <<user, accumulating, era, arrived, held, correlating, worker, bins_set,
                       capture, ledger>>
    BY DEF PollResults, Merged
  <1>2. \A u \in Units : Cardinality(S(u)) \in Nat /\ hist[u] \in Nat
                          /\ hist'[u] = hist[u] + Cardinality(S(u))
    BY <1>1, QueuedCount DEF IInv, TypeOK
  <1>3. \A u \in Units : ~Queues(u) => hist'[u] = hist[u]
    <2> SUFFICES ASSUME NEW u \in Units, ~Queues(u) PROVE hist'[u] = hist[u]
      OBVIOUS
    <2>1. Cardinality(S(u)) = 0
      BY QueuedCount DEF IInv
    <2>2. hist'[u] = hist[u] + Cardinality(S(u)) /\ hist[u] \in Nat
      BY <1>2
    <2> HIDE DEF S
    <2> QED
      BY <2>1, <2>2
  <1>4. hist' \in [Units -> Nat]
    BY <1>1, <1>2
  <1>5. TypeOK'
    <2>1. polling' \in BOOLEAN
      BY DEF PollResults, IInv, TypeOK
    <2> QED
      BY <1>1, <1>4, <2>1 DEF IInv, TypeOK, user, capture, ledger
  <1>6. OneWorker' /\ PostedIsEmpty' /\ OfNow'
    BY <1>1 DEF IInv, OneWorker, PostedIsEmpty, OfNow, ledger
  <1>7. \A u : ~Queues(u)'
    BY <1>1 DEF Queues
  <1>8. ToCome'
    BY <1>1, <1>3, <1>7 DEF IInv, ToCome, Absent, AtWorker, ledger
  <1>9. ASSUME NEW u \in Units, u[1] = era', u[2] =< arrived' PROVE Apart(u)'
    <2>1. Apart(u)
      BY <1>1, <1>9 DEF IInv, OnePlace
    <2>2. /\ \A x \in {"held", "worker", "failed", "dropped", "discarded"} :
                IsIn(u, x)' <=> IsIn(u, x)
          /\ IsIn(u, "queued") <=> Queues(u)
          /\ ~IsIn(u, "queued")'
      BY <1>1, <1>7 DEF IsIn, ledger, Queues, QueuedAt
    <2>3. Queues(u) => hist[u] = 0 /\ hist'[u] = 1
      <3>1. Queues(u) => hist[u] = 0 /\ Cardinality(S(u)) =< 1 /\ Cardinality(S(u)) > 0
        BY <2>1, <2>2, QueuedCount DEF Apart, Places, IInv
      <3> QED
        BY <1>2, <3>1
    <2>4. hist'[u] = hist[u] \/ Queues(u)
      BY <1>3
    <2>5. \A i, j \in 1 .. Len(result_q') : FALSE
      BY <1>1
    <2> QED
      BY <1>1, <2>1, <2>2, <2>3, <2>4, <2>5 DEF Apart, Places, AtWorker, ledger
  <1> QED
    BY <1>5, <1>6, <1>8, <1>9 DEF IInv, OnePlace

LEMMA NextInv == ASSUME IInv, [Next]_vars PROVE IInv'
  <1>1. CASE Reset
    BY <1>1, ClearInv DEF Reset, StopDiffCapture
  <1>2. CASE StartWithOffset
    BY <1>2, ClearInv DEF StartWithOffset
  <1>3. ASSUME NEW w \in worker, WorkerStep(w) PROVE IInv'
    BY <1>3, WorkingInv, PostsInv DEF WorkerStep
  <1> QED
    BY <1>1, <1>2, <1>3, UserInv, ArriveInv, EnableInv, TickInv, PollInv DEF Next

LEMMA Invariance == Spec => []IInv
  BY InitInv, NextInv, PTL DEF Spec

LEMMA Counted == IInv => EachUnitInOnePlace
  <1> SUFFICES ASSUME IInv, NEW n \in 1 .. arrived
               PROVE  hist[<<era, n>>] + Cardinality({x \in Places : IsIn(<<era, n>>, x)}) = 1
    BY DEF EachUnitInOnePlace
  <1> DEFINE u == <<era, n>>
             P == {x \in Places : IsIn(u, x)}
  <1>1. u \in Units
    BY WindowAssumption DEF IInv, TypeOK, Units, Eras
  <1>2. Apart(u)
    BY <1>1, WindowAssumption DEF IInv, OnePlace, TypeOK
  <1>3. CASE hist[u] = 1
    <2>1. P = {}
      BY <1>2, <1>3 DEF Apart
    <2> QED
      BY <1>3, <2>1, FS_EmptySet
  <1>4. CASE hist[u] = 0
    <2>1. PICK x \in Places : P = {x}
      BY <1>2, <1>4 DEF Apart
    <2>2. Cardinality(P) = 1
      BY <2>1, FS_Singleton
    <2> HIDE DEF P
    <2>3. hist[u] + Cardinality(P) = 1
      BY <1>4, <2>2
    <2> QED
      BY <2>3 DEF P
  <1> QED
    BY <1>2, <1>3, <1>4 DEF Apart

\* A step from a state of the invariant lets no batch disappear.
LEMMA LandsStep == ASSUME IInv, [Next]_vars PROVE Lands \/ UNCHANGED vars
  <1> SUFFICES ASSUME Next, NEW u \in Units, InFlight(u), ~InFlight(u)' PROVE Landed(u)'
    BY DEF Lands
  <1>1. InFlight(u) <=> AtWorker(u) \/ Queues(u)
    BY DEF InFlight, AtWorker, Queues, QueuedAt
  <1>2. InFlight(u)' <=> AtWorker(u)' \/ Queues(u)'
    BY DEF InFlight, AtWorker, Queues, QueuedAt
  <1>3. CASE worker \subseteq worker' /\ result_q' = result_q
    BY <1>3, <1>1, <1>2 DEF AtWorker, Queues, QueuedAt
  <1>4. CASE PollResults
    <2>1. worker' = worker /\ Queues(u)
      BY <1>4, <1>1, <1>2 DEF PollResults, AtWorker
    <2>2. hist'[u] = hist[u] +
             Cardinality({i \in 1 .. Len(result_q) : result_q[i].ok /\ u \in result_q[i].batch})
      BY <1>4 DEF PollResults, Merged
    <2>3. hist'[u] > 0
      BY <2>1, <2>2, QueuedCount DEF IInv, TypeOK
    <2> QED
      BY <2>3 DEF Landed
  <1>5. ASSUME NEW w \in worker, WorkerBegins(w) \/ KernelChunk(w) \/ WorkerEnds(w) PROVE FALSE
    <2>1. \E v : (v.batch = w.batch \/ w.batch = {}) /\ worker \ {w} \subseteq worker'
                 /\ (w.batch # {} => v \in worker')
      <3>1. CASE WorkerBegins(w)
        <4> DEFINE v == [w EXCEPT !.stage = "kernel", !.sink = diff_files]
        <4>1. v.batch = w.batch /\ v \in worker' /\ worker \ {w} \subseteq worker'
          BY <3>1 DEF WorkerBegins, IInv, TypeOK, Workers
        <4> QED
          BY <4>1
      <3>2. CASE KernelChunk(w)
        <4>1. PICK c \in w.todo : worker' = (worker \ {w}) \cup {[w EXCEPT !.todo = @ \ {c}]}
          BY <3>2 DEF KernelChunk
        <4> DEFINE v == [w EXCEPT !.todo = @ \ {c}]
        <4>2. v.batch = w.batch /\ v \in worker' /\ worker \ {w} \subseteq worker'
          BY <4>1 DEF IInv, TypeOK, Workers
        <4> QED
          BY <4>2
      <3>3. CASE WorkerEnds(w)
        BY <3>3 DEF WorkerEnds, IInv, PostedIsEmpty
      <3> QED
        BY <1>5, <3>1, <3>2, <3>3
    <2>2. result_q' = result_q
      BY <1>5 DEF WorkerBegins, KernelChunk, WorkerEnds
    <2> QED
      BY <1>1, <1>2, <2>1, <2>2 DEF AtWorker, Queues, QueuedAt
  <1>6. ASSUME NEW w \in worker, WorkerPosts(w) PROVE Landed(u)'
    <2>1. PICK ok \in BOOLEAN : /\ result_q' = Append(result_q, [ok |-> ok, batch |-> w.batch])
                               /\ failed' = IF ok THEN failed ELSE failed \cup w.batch
      BY <1>6 DEF WorkerPosts
    <2>2. worker = {w}
      BY <1>6 DEF IInv, OneWorker
    <2>3. /\ Len(result_q) \in Nat /\ Len(result_q') = Len(result_q) + 1
          /\ \A i \in 1 .. Len(result_q) : result_q'[i] = result_q[i]
          /\ result_q'[Len(result_q) + 1].ok = ok
          /\ result_q'[Len(result_q) + 1].batch = w.batch
      BY <2>1 DEF IInv, TypeOK, Workers
    <2>4. ~Queues(u)
      BY <1>2, <2>3 DEF Queues, QueuedAt
    <2>5. u \in w.batch /\ ~ok
      BY <1>1, <1>2, <2>2, <2>3, <2>4 DEF AtWorker, Queues, QueuedAt
    <2> QED
      BY <2>1, <2>5 DEF Landed
  <1>7. CASE Arrive \/ EditParams \/ Enable \/ Disable \/ Reset \/ StartWithOffset \/ Tick
    <2>1. worker \subseteq worker' /\ result_q' = result_q
      BY <1>7 DEF Arrive, EditParams, Enable, Disable, Reset, StartWithOffset, Clear, Tick
    <2> QED
      BY <1>3, <2>1
  <1> QED
    BY <1>4, <1>5, <1>6, <1>7 DEF Next, WorkerStep
-----------------------------------------------------------------------------
\* There is one worker at a time, announced by _correlating, and no poll, reset,
\* restart or failure loses a unit of this era or counts it twice.
THEOREM NothingLostOrDoubled == Spec => []WindowSound
  <1>1. IInv => WindowSound
    BY Counted DEF IInv, WindowSound
  <1> QED
    BY <1>1, Invariance, PTL

\* A batch in the worker's hands or in the queue leaves only for the histogram
\* or for an error report.
THEOREM EveryBatchLands == Spec => BatchesLand
  <1>1. IInv /\ [Next]_vars => [Lands]_vars
    BY LandsStep
  <1> QED
    BY <1>1, Invariance, PTL DEF Spec, BatchesLand
-----------------------------------------------------------------------------
\* Sent before session s, or in it as one of its first n markers.
Known(s, n, a) ==
    /\ a \in Nat \X Nat /\ a[1] \in 1 .. s /\ a[2] > 0
    /\ a[1] = s => a[2] =< n
Before(a, b) == a[1] < b[1] \/ (a[1] = b[1] /\ a[2] < b[2])
InOrder(q) == \A i, k \in 1 .. Len(q) : i < k => Before(q[i], q[k])
ChipQueues ==
    \A x \in Chips!Chips :
        /\ queue[x] \in Seq(Nat \X Nat) /\ InOrder(queue[x])
        /\ \A i \in 1 .. Len(queue[x]) : Known(session, sent[x], queue[x][i])

\* No queue holds markers of an earlier session while the trackers are of this one.
QueuesOfThisRun ==
    run = session => \A x \in Chips!Chips :
                        \A i \in 1 .. Len(queue[x]) : queue[x][i][1] = session
ChipState ==
    /\ told \in Nat /\ queue \in [Chips!Chips -> Seq(Nat \X Nat)]
    /\ DOMAIN tracker = Chips!Chips

ChipsInv == TrackersSound /\ ChipState /\ ChipQueues /\ QueuesOfThisRun

LEMMA Greatest ==
    ASSUME NEW N \in Nat, NEW B \in SUBSET (1 .. N), B # {}
    PROVE  \E n \in B : \A i \in B : i =< n
  <1> DEFINE D == {N - i : i \in B}
  <1>0. \A i \in B : i \in Nat /\ N - i \in Nat
    OBVIOUS
  <1>1. D \in SUBSET Nat /\ D # {}
    BY <1>0
  <1>2. PICK d \in D : \A e \in D : d =< e
    <2> HIDE DEF D
    <2> QED
      BY <1>1, Least
  <1>3. PICK n \in B : d = N - n
    OBVIOUS
  <1>4. ASSUME NEW i \in B PROVE i =< n
    <2>1. N - i \in D
      OBVIOUS
    <2>2. N - n =< N - i
      BY <1>2, <1>3, <2>1
    <2> QED
      BY <2>2, <1>0
  <1> QED
    BY <1>4

LEMMA Multiple ==
    ASSUME NEW m \in Nat, NEW n \in Nat, n > 0 PROVE m * n >= m /\ m * n \in Nat
  OBVIOUS

\* Whatever came before this session goes, where its first marker is in the queue.
LEMMA TailIsOfThisSession ==
    ASSUME Chips!TrackingAssumption, session \in 1 .. MaxSessions,
           NEW n, NEW q \in Seq(Nat \X Nat), InOrder(q),
           \A i \in 1 .. Len(q) : Known(session, n, q[i]),
           <<session, 1>> \in Chips!Elements(q)
    PROVE  \A a \in Chips!Elements(Chips!SessionTail(q)) : a[1] = session
  <1> DEFINE back == {i \in 1 .. Len(q) - 1 : Chips!Stamp(q[i + 1]) < Chips!Stamp(q[i])}
             m == CHOOSE i \in back : \A k \in back : k =< i
  <1>a. MaxSessions \in Nat /\ session \in Nat /\ session > 0 /\ session =< MaxSessions
    BY DEF Chips!TrackingAssumption
  <1>b. Len(q) \in Nat /\ DOMAIN q = 1 .. Len(q)
    OBVIOUS
  <1>1. PICK p \in 1 .. Len(q) : q[p] = <<session, 1>>
    BY <1>b DEF Chips!Elements
  <1>2. ASSUME NEW i \in p .. Len(q) PROVE i \in 1 .. Len(q) /\ q[i][1] = session
    <2>1. i \in 1 .. Len(q) /\ (i = p \/ p < i)
      BY <1>b
    <2>2. q[i][1] \in Nat /\ q[i][1] =< session
      BY <2>1, <1>a DEF Known
    <2>3. q[p][1] = session
      BY <1>1
    <2>4. p < i => q[p][1] < q[i][1] \/ q[p][1] = q[i][1]
      BY <2>1 DEF InOrder, Before
    <2> QED
      BY <2>1, <2>2, <2>3, <2>4, <1>a
  <1>3. ASSUME p > 1 PROVE p - 1 \in back
    <2>1. p - 1 \in 1 .. Len(q) - 1 /\ p - 1 \in 1 .. Len(q) /\ p - 1 < p /\ p - 1 + 1 = p
      BY <1>3, <1>b
    <2>2. Before(q[p - 1], q[p]) /\ Known(session, n, q[p - 1])
      BY <2>1 DEF InOrder
    <2> DEFINE b == q[p - 1]
    <2>3. b \in Nat \X Nat /\ b[1] \in Nat /\ b[2] \in Nat /\ b[2] > 0
      BY <2>2 DEF Known
    <2>4. b[1] < session
      BY <1>1, <2>2, <2>3, <1>a DEF Before
    <2>5. (MaxSessions + 1) * b[2] >= MaxSessions + 1 /\ (MaxSessions + 1) * b[2] \in Nat
      <3>1. MaxSessions + 1 \in Nat
        BY <1>a
      <3> HIDE DEF b
      <3> QED
        BY <2>3, <3>1, Multiple
    <2>6. Chips!Stamp(b) = (MaxSessions + 1) * b[2] - b[1]
      BY DEF Chips!Stamp
    <2>a. Chips!Stamp(q[p]) = MaxSessions + 1 - session
      <3>1. Chips!Stamp(q[p]) = (MaxSessions + 1) * 1 - session
        BY <1>1 DEF Chips!Stamp
      <3>2. (MaxSessions + 1) * 1 = MaxSessions + 1
        BY <1>a
      <3> QED
        BY <3>1, <3>2, <1>a
    <2>7. Chips!Stamp(q[p]) < Chips!Stamp(b)
      <3> HIDE DEF b
      <3> DEFINE w == (MaxSessions + 1) * b[2]
      <3> HIDE DEF w
      <3>2. w >= MaxSessions + 1 /\ w \in Nat
        BY <2>5 DEF w
      <3>3. Chips!Stamp(b) = w - b[1]
        BY <2>6, Zenon DEF w
      <3> QED
        BY <2>3, <2>4, <2>a, <3>2, <3>3, <1>a
    <2> QED
      BY <2>1, <2>7
  <1>4. CASE back = {}
    <2>1. p = 1
      <3> HIDE DEF back
      <3> QED
        BY <1>3, <1>4, <1>b
    <2>2. Chips!SessionTail(q) = q
      BY <1>4 DEF Chips!SessionTail
    <2> QED
      BY <1>2, <1>b, <2>1, <2>2 DEF Chips!Elements
  <1>5. CASE back # {}
    <2>1. m \in back /\ \A k \in back : k =< m
      <3>1. back \in SUBSET (1 .. Len(q))
        BY <1>b
      <3> HIDE DEF back
      <3>2. \E h \in back : \A i \in back : i =< h
        BY <3>1, <1>5, <1>b, Greatest
      <3> QED
        BY <3>2
    <2>2. Chips!SessionTail(q) = SubSeq(q, 1 + m, Len(q))
      BY <1>5 DEF Chips!SessionTail
    <2> HIDE DEF m
    <2>3. m \in 1 .. Len(q) - 1 /\ m >= p - 1
      BY <2>1, <1>3, <1>b
    <2> DEFINE t == SubSeq(q, 1 + m, Len(q))
    <2>4. /\ DOMAIN t = 1 .. Len(q) - m
          /\ \A i \in 1 .. Len(q) - m : t[i] = q[i + m]
      BY <1>b, <2>3
    <2>5. \A i \in 1 .. Len(q) - m : i + m \in p .. Len(q)
      BY <1>b, <2>3
    <2> HIDE DEF t
    <2>6. Chips!SessionTail(q) = t
      BY <2>2 DEF t
    <2>7. \A i \in DOMAIN t : t[i][1] = session
      <3> SUFFICES ASSUME NEW i \in 1 .. Len(q) - m PROVE q[i + m][1] = session
        BY <2>4
      <3>1. i + m \in p .. Len(q)
        BY <2>5
      <3> QED
        BY <1>2, <3>1
    <2> QED
      BY <2>6, <2>7 DEF Chips!Elements
  <1> QED
    BY <1>4, <1>5

LEMMA ChipsInit == ASSUME Chips!TrackingAssumption, Chips!Init PROVE ChipsInv
  <1>1. Chips!TypeOK
    <2>1. session \in 0 .. MaxSessions /\ run \in 0 .. session /\ 0 \in 0 .. MaxMarkers
      BY DEF Chips!TrackingAssumption, Chips!Init
    <2>2. sent \in [Chips!Chips -> 0 .. MaxMarkers]
      BY <2>1 DEF Chips!Init
    <2>3. latched = (told > 0)
      <3>1. told = 0 /\ latched = FALSE
        BY DEF Chips!Init
      <3>2. (told > 0) = FALSE
        BY <3>1
      <3> QED
        BY <3>1, <3>2
    <2> QED
      BY <2>1, <2>2, <2>3 DEF Chips!Init, Chips!TypeOK, Chips!NoMarkers, Chips!Fresh
  <1>2. ChipState /\ ChipQueues /\ QueuesOfThisRun
    BY DEF Chips!Init, ChipState, ChipQueues, QueuesOfThisRun, InOrder, Chips!NoMarkers,
           Chips!Fresh
  <1> QED
    BY <1>1, <1>2 DEF ChipsInv, TrackersSound, Chips!Init, Chips!TrackersOfThisRun,
                      Chips!AskedOnce, Chips!Fresh

\* A step that leaves the queues, the trackers and the ledgers as they are.
LEMMA ChipsSettings ==
    ASSUME ChipsInv, Chips!Enable \/ Chips!Disable \/ Chips!Reset \/ Chips!TimePasses
    PROVE  ChipsInv'
  <1>1. UNCHANGED <<session, sent, queue, tracker, latched, told, run>>
    BY DEF Chips!Enable, Chips!Disable, Chips!Reset, Chips!TimePasses
  <1>2. corr' \subseteq Nodes /\ (chips_accumulating' => active')
    <2>1. corr \subseteq Nodes /\ (chips_accumulating => active)
      BY DEF ChipsInv, TrackersSound, Chips!TypeOK
    <2>2. CASE Chips!Enable \/ Chips!Disable
      BY <2>1, <2>2 DEF Chips!Enable, Chips!Disable
    <2>3. CASE Chips!Reset \/ Chips!TimePasses
      BY <2>1, <2>3 DEF Chips!Reset, Chips!TimePasses, Chips!ofWindow
    <2> QED
      BY <2>2, <2>3
  <1>3. TrackersSound'
    BY <1>1, <1>2 DEF ChipsInv, TrackersSound, Chips!TypeOK, Chips!TrackersOfThisRun,
                      Chips!AskedOnce
  <1>4. ChipState' /\ ChipQueues' /\ QueuesOfThisRun'
    BY <1>1 DEF ChipsInv, ChipState, ChipQueues, QueuesOfThisRun, Known
  <1> QED
    BY <1>3, <1>4 DEF ChipsInv

LEMMA ChipsStill ==
    ASSUME ChipsInv, UNCHANGED chipvars PROVE ChipsInv'
  BY DEF ChipsInv, TrackersSound, Chips!TypeOK, Chips!TrackersOfThisRun, Chips!AskedOnce,
         ChipState, ChipQueues, QueuesOfThisRun, Known, chipvars

LEMMA ChipsSession ==
    ASSUME Chips!TrackingAssumption, ChipsInv, Chips!NewSession PROVE ChipsInv'
  <1>1. /\ session \in Nat /\ session' = session + 1 /\ run \in 0 .. session
        /\ session' \in 0 .. MaxSessions /\ 0 \in 0 .. MaxMarkers
        /\ UNCHANGED <<queue, tracker, latched, told, run, chips_accumulating, active, corr>>
    BY DEF Chips!NewSession, Chips!TrackingAssumption, ChipsInv, TrackersSound, Chips!TypeOK,
           Chips!ofWindow
  <1>2. run' # session' /\ run' \in 0 .. session'
    BY <1>1
  <1>3. sent' \in [Chips!Chips -> 0 .. MaxMarkers]
    BY <1>1 DEF Chips!NewSession
  <1>4. TrackersSound'
    BY <1>1, <1>2, <1>3 DEF ChipsInv, TrackersSound, Chips!TypeOK, Chips!TrackersOfThisRun,
                            Chips!AskedOnce
  <1>5. ASSUME NEW x, NEW a, Known(session, sent[x], a) PROVE Known(session', sent'[x], a)
    BY <1>1, <1>5 DEF Known
  <1>6. ChipState' /\ ChipQueues' /\ QueuesOfThisRun'
    BY <1>1, <1>2, <1>5 DEF ChipsInv, ChipState, ChipQueues, QueuesOfThisRun
  <1> QED
    BY <1>4, <1>6 DEF ChipsInv

LEMMA ChipsMarker ==
    ASSUME Chips!TrackingAssumption, ChipsInv, NEW x \in Chips!Chips, Chips!Marker(x)
    PROVE  ChipsInv'
  <1> DEFINE a == <<session, sent[x] + 1>>
  <1>1. /\ session \in Nat /\ session > 0 /\ sent[x] \in 0 .. MaxMarkers
        /\ sent[x] + 1 \in 0 .. MaxMarkers /\ sent[x] + 1 > 0 /\ x \in Referenced
        /\ sent' = [sent EXCEPT ![x] = sent[x] + 1]
        /\ UNCHANGED <<session, tracker, latched, told, run, chips_accumulating, active, corr>>
    BY DEF Chips!Marker, Chips!TrackingAssumption, ChipsInv, TrackersSound, Chips!TypeOK,
           Chips!ofWindow
  <1>2. a \in Nat \X Nat /\ Known(session', sent'[x], a)
    <2>1. sent[x] + 1 \in Nat /\ sent'[x] = sent[x] + 1
      BY <1>1 DEF ChipsInv, TrackersSound, Chips!TypeOK, Chips!TrackingAssumption
    <2> QED
      BY <1>1, <2>1 DEF Known
  <1>3. ASSUME NEW y \in Chips!Chips, NEW b, Known(session, sent[y], b)
        PROVE  Known(session', sent'[y], b)
    BY <1>1, <1>3 DEF Known, ChipsInv, TrackersSound, Chips!TypeOK
  <1>4. ASSUME NEW b, Known(session, sent[x], b) PROVE Before(b, a)
    BY <1>1, <1>4 DEF Known, Before
  <1>5. queue' = queue \/ queue' = [queue EXCEPT ![x] = Append(queue[x], a)]
    BY DEF Chips!Marker
  <1> HIDE DEF a
  <1>6. a[1] = session
    BY DEF a
  <1>7. CASE queue' = queue
    <2>1. TrackersSound'
      BY <1>1, <1>7 DEF ChipsInv, TrackersSound, Chips!TypeOK, Chips!TrackersOfThisRun,
                        Chips!AskedOnce
    <2>2. ChipState' /\ ChipQueues' /\ QueuesOfThisRun'
      BY <1>1, <1>3, <1>7 DEF ChipsInv, ChipState, ChipQueues, QueuesOfThisRun
    <2> QED
      BY <2>1, <2>2 DEF ChipsInv
  <1>8. CASE queue' = [queue EXCEPT ![x] = Append(queue[x], a)]
    <2> DEFINE q == queue[x]
               r == queue'[x]
    <2>1. /\ q \in Seq(Nat \X Nat) /\ Len(q) \in Nat /\ Len(r) = Len(q) + 1
          /\ r \in Seq(Nat \X Nat)
          /\ \A i \in 1 .. Len(q) + 1 : r[i] = IF i = Len(q) + 1 THEN a ELSE q[i]
          /\ r = Append(q, a) /\ \A y \in Chips!Chips : y # x => queue'[y] = queue[y]
          /\ queue' \in [Chips!Chips -> Seq(Nat \X Nat)]
      <3>1. q \in Seq(Nat \X Nat) /\ r = Append(q, a)
            /\ \A y \in Chips!Chips : y # x => queue'[y] = queue[y]
        BY <1>8 DEF ChipsInv, ChipState
      <3>2. Append(q, a) \in Seq(Nat \X Nat)
        BY <3>1, <1>2
      <3>3. queue' \in [Chips!Chips -> Seq(Nat \X Nat)]
        BY <1>8, <3>2 DEF ChipsInv, ChipState
      <3> HIDE DEF q, r
      <3> QED
        BY <1>2, <3>1, <3>2, <3>3, AppendAt
    <2>2. /\ InOrder(q) /\ \A i \in 1 .. Len(q) : Known(session, sent[x], q[i])
          /\ run = session => \A i \in 1 .. Len(q) : q[i][1] = session
      BY DEF ChipsInv, ChipQueues, QueuesOfThisRun
    <2> HIDE DEF q, r
    <2>3. InOrder(r)
      <3> SUFFICES ASSUME NEW i \in 1 .. Len(r), NEW k \in 1 .. Len(r), i < k
                   PROVE  Before(r[i], r[k])
        BY DEF InOrder
      <3>1. i \in 1 .. Len(q) /\ r[i] = q[i]
        BY <2>1
      <3>2. CASE k = Len(q) + 1
        BY <3>1, <3>2, <2>1, <2>2, <1>4
      <3>3. CASE k # Len(q) + 1
        <4>1. k \in 1 .. Len(q) + 1 /\ k \in 1 .. Len(q)
          BY <3>3, <2>1
        <4>2. r[k] = q[k]
          BY <4>1, <2>1, <3>3
        <4> QED
          BY <3>1, <4>1, <4>2, <2>2 DEF InOrder
      <3> QED
        BY <3>2, <3>3
    <2>4. ASSUME NEW i \in 1 .. Len(r)
          PROVE  Known(session', sent'[x], r[i]) /\ (run = session => r[i][1] = session)
      <3>1. CASE i = Len(q) + 1
        <4>1. r[i] = a
          BY <2>1, <3>1
        <4> QED
          BY <4>1, <1>2, <1>6
      <3>2. CASE i # Len(q) + 1
        <4>1. i \in 1 .. Len(q) + 1 /\ i \in 1 .. Len(q)
          BY <2>1, <3>2
        <4>a. r[i] = q[i]
          BY <4>1, <2>1, <3>2
        <4>2. Known(session', sent'[x], q[i])
          BY <4>1, <2>2, <1>3
        <4> QED
          BY <4>1, <4>a, <4>2, <2>2
      <3> QED
        BY <3>1, <3>2
    <2>5. \A y \in Chips!Chips : queue'[y] # <<>> => y \in Referenced
      BY <2>1, <1>1 DEF ChipsInv, TrackersSound, Chips!TypeOK
    <2>6. TrackersSound'
      BY <1>1, <2>5 DEF ChipsInv, TrackersSound, Chips!TypeOK, Chips!TrackersOfThisRun,
                        Chips!AskedOnce
    <2>7. ChipState'
      BY <1>1, <2>1 DEF ChipsInv, ChipState
    <2>8. ASSUME NEW y \in Chips!Chips
          PROVE  /\ queue'[y] \in Seq(Nat \X Nat) /\ InOrder(queue'[y])
                 /\ \A i \in 1 .. Len(queue'[y]) : Known(session', sent'[y], queue'[y][i])
                 /\ run' = session' => \A i \in 1 .. Len(queue'[y]) : queue'[y][i][1] = session'
      <3>1. CASE y = x
        BY <3>1, <1>1, <2>1, <2>3, <2>4 DEF r
      <3>2. CASE y # x
        <4>1. queue'[y] = queue[y] /\ session' = session /\ run' = run
          BY <3>2, <2>1, <1>1
        <4> QED
          BY <4>1, <1>3 DEF ChipsInv, ChipQueues, QueuesOfThisRun
      <3> QED
        BY <3>1, <3>2
    <2>9. ChipQueues' /\ QueuesOfThisRun'
      BY <2>8 DEF ChipQueues, QueuesOfThisRun
    <2> QED
      BY <2>6, <2>7, <2>9 DEF ChipsInv
  <1> QED
    BY <1>5, <1>7, <1>8

LEMMA ChipsStart ==
    ASSUME Chips!TrackingAssumption, ChipsInv, Chips!StartWithOffset PROVE ChipsInv'
  <1>1. /\ session \in 1 .. MaxSessions /\ active /\ corr \subseteq Nodes
        /\ run' = session /\ told' = 0 /\ latched' = FALSE /\ queue' = Chips!NoMarkers
        /\ UNCHANGED <<session, sent, active, corr>>
    <2>1. session \in 1 .. MaxSessions /\ corr \subseteq Nodes
      <3>1. session > 0
        BY DEF Chips!StartWithOffset, Chips!Calibrated
      <3>2. session \in 0 .. MaxSessions /\ corr \subseteq Nodes /\ MaxSessions \in Nat
        BY DEF ChipsInv, TrackersSound, Chips!TypeOK, Chips!TrackingAssumption
      <3> QED
        BY <3>1, <3>2
    <2> QED
      BY <2>1 DEF Chips!StartWithOffset, Chips!MayStart
  <1>2. /\ DOMAIN tracker' = Chips!Chips
        /\ \A x \in Chips!Chips :
             tracker'[x] = IF x[1] \in corr THEN Chips!Elements(Chips!SessionTail(queue[x]))
                           ELSE {}
    BY DEF Chips!StartWithOffset
  <1>3. ASSUME NEW x \in Chips!Chips, x \notin Referenced PROVE tracker'[x] = {}
    <2>1. queue[x] = <<>>
      BY <1>3 DEF ChipsInv, TrackersSound, Chips!TypeOK
    <2>2. Chips!SessionTail(<<>>) = <<>>
      <3>1. {i \in 1 .. Len(<<>>) - 1 : Chips!Stamp(<<>>[i + 1]) < Chips!Stamp(<<>>[i])} = {}
        OBVIOUS
      <3> QED
        BY <3>1 DEF Chips!SessionTail
    <2>3. Chips!Elements(<<>>) = {}
      BY DEF Chips!Elements
    <2> QED
      BY <1>2, <2>1, <2>2, <2>3
  <1>4. ASSUME NEW x \in Referenced PROVE \A a \in tracker'[x] : a[1] = session
    <2>1. x \in Chips!Chips
      BY <1>4 DEF Chips!TrackingAssumption, Chips!Chips
    <2>2. CASE x[1] \notin corr
      BY <1>2, <2>1, <2>2
    <2>3. CASE x[1] \in corr
      <3>1. <<session, 1>> \in Chips!Elements(queue[x])
        BY <1>1, <1>4, <2>3 DEF Chips!StartWithOffset, Chips!Calibrated, Chips!Hooked
      <3>2. /\ queue[x] \in Seq(Nat \X Nat) /\ InOrder(queue[x])
            /\ \A i \in 1 .. Len(queue[x]) : Known(session, sent[x], queue[x][i])
        BY <2>1 DEF ChipsInv, ChipQueues
      <3>3. \A a \in Chips!Elements(Chips!SessionTail(queue[x])) : a[1] = session
        <4> DEFINE q == queue[x]
        <4> HIDE DEF q
        <4>1. \A a \in Chips!Elements(Chips!SessionTail(q)) : a[1] = session
          BY <1>1, <3>1, <3>2, TailIsOfThisSession DEF q
        <4> QED
          BY <4>1 DEF q
      <3> QED
        BY <1>2, <2>1, <2>3, <3>3
    <2> QED
      BY <2>2, <2>3
  <1>5. TrackersSound'
    <2>1. Chips!TypeOK'
      <3>1. run' \in 0 .. session' /\ session' \in 0 .. MaxSessions
        BY <1>1 DEF Chips!TrackingAssumption
      <3>2. sent' \in [Chips!Chips -> 0 .. MaxMarkers] /\ corr' \subseteq Nodes
        BY <1>1 DEF ChipsInv, TrackersSound, Chips!TypeOK
      <3>3. \A x \in Chips!Chips : queue'[x] = <<>>
        BY <1>1 DEF Chips!NoMarkers
      <3>4. latched' = (told' > 0)
        <4>1. (told' > 0) = FALSE
          BY <1>1
        <4> QED
          BY <1>1, <4>1
      <3> QED
        BY <1>1, <1>3, <3>1, <3>2, <3>3, <3>4 DEF Chips!TypeOK
    <2>2. Chips!TrackersOfThisRun'
      BY <1>1, <1>3, <1>4 DEF Chips!TrackersOfThisRun
    <2> QED
      BY <1>1, <2>1, <2>2 DEF TrackersSound, Chips!AskedOnce
  <1>6. /\ DOMAIN queue' = Chips!Chips
        /\ \A x \in Chips!Chips :
             queue'[x] = <<>> /\ Len(queue'[x]) = 0 /\ queue'[x] \in Seq(Nat \X Nat)
    BY <1>1 DEF Chips!NoMarkers
  <1>7. ChipState'
    BY <1>1, <1>2 DEF ChipState, Chips!NoMarkers
  <1>8. ChipQueues' /\ QueuesOfThisRun'
    BY <1>6 DEF ChipQueues, QueuesOfThisRun, InOrder
  <1> QED
    BY <1>5, <1>7, <1>8 DEF ChipsInv

LEMMA ChipsTick ==
    ASSUME Chips!TrackingAssumption, ChipsInv, Chips!Tick PROVE ChipsInv'
  <1>1. UNCHANGED <<session, sent, active, chips_accumulating, corr, run>>
    BY DEF Chips!Tick, Chips!ofWindow
  <1>2. told' \in Nat /\ told' =< 1 /\ latched' = (told' > 0)
    <2>1. told \in Nat /\ told =< 1 /\ latched = (told > 0)
      BY DEF ChipsInv, ChipState, TrackersSound, Chips!AskedOnce, Chips!TypeOK
    <2>2. (latched' = TRUE /\ told' = told + 1 /\ ~latched) \/ UNCHANGED <<latched, told>>
      BY DEF Chips!Tick, Chips!AlreadyTold
    <2>3. CASE latched' = TRUE /\ told' = told + 1 /\ ~latched
      <3>1. ~(told > 0)
        BY <2>1, <2>3
      <3>2. told' = 1
        BY <2>1, <2>3, <3>1
      <3>3. (told' > 0) = TRUE
        BY <3>2
      <3>4. latched' = (told' > 0)
        BY <2>3, <3>3, Zenon
      <3> QED
        BY <3>2, <3>4
    <2>4. CASE UNCHANGED <<latched, told>>
      BY <2>1, <2>4, Zenon
    <2> QED
      BY <2>2, <2>3, <2>4
  <1>3. /\ DOMAIN queue' = Chips!Chips
        /\ \A x \in Chips!Chips : queue'[x] = <<>> \/ queue'[x] = queue[x]
    BY DEF Chips!Tick
  <1>4. /\ DOMAIN tracker' = Chips!Chips
        /\ \A x \in Chips!Chips : tracker'[x] = tracker[x]
                                 \/ tracker'[x] = tracker[x] \cup Chips!Elements(queue[x])
    BY DEF Chips!Tick
  <1>5. Chips!Elements(<<>>) = {}
    BY DEF Chips!Elements
  <1>6. \A x \in Chips!Chips : tracker'[x] # {} => x \in Referenced
    BY <1>4, <1>5 DEF ChipsInv, TrackersSound, Chips!TypeOK
  <1>7. \A x \in Chips!Chips : queue'[x] # <<>> => x \in Referenced
    BY <1>3 DEF ChipsInv, TrackersSound, Chips!TypeOK
  <1>8. run' = session' => \A x \in Chips!Chips : \A a \in tracker'[x] : a[1] = session'
    <2> SUFFICES ASSUME run = session, NEW x \in Chips!Chips, NEW a \in tracker'[x]
                 PROVE  a[1] = session
      BY <1>1
    <2>1. CASE a \in tracker[x]
      BY <2>1 DEF ChipsInv, TrackersSound, Chips!TrackersOfThisRun
    <2>2. CASE a \in Chips!Elements(queue[x])
      <3>1. queue[x] \in Seq(Nat \X Nat)
        BY DEF ChipsInv, ChipState
      <3>2. DOMAIN queue[x] = 1 .. Len(queue[x])
        BY <3>1
      <3> QED
        BY <2>2, <3>2 DEF Chips!Elements, ChipsInv, QueuesOfThisRun
    <2> QED
      BY <1>4, <2>1, <2>2
  <1>9. TrackersSound'
    BY <1>1, <1>2, <1>6, <1>7, <1>8 DEF ChipsInv, TrackersSound, Chips!TypeOK,
                                        Chips!TrackersOfThisRun, Chips!AskedOnce
  <1>10. Len(<<>>) = 0 /\ <<>> \in Seq(Nat \X Nat) /\ InOrder(<<>>)
    BY DEF InOrder
  <1>11. ASSUME NEW x \in Chips!Chips
         PROVE  /\ queue'[x] \in Seq(Nat \X Nat) /\ InOrder(queue'[x])
                /\ \A i \in 1 .. Len(queue'[x]) : Known(session', sent'[x], queue'[x][i])
                /\ run' = session' => \A i \in 1 .. Len(queue'[x]) : queue'[x][i][1] = session'
    <2>1. CASE queue'[x] = <<>>
      BY <2>1, <1>10
    <2>2. CASE queue'[x] = queue[x]
      BY <2>2, <1>1 DEF ChipsInv, ChipQueues, QueuesOfThisRun, Known
    <2> QED
      BY <1>3, <2>1, <2>2
  <1>12. queue' \in [Chips!Chips -> Seq(Nat \X Nat)]
    <2>1. queue' = [x \in Chips!Chips |-> queue'[x]]
      BY DEF Chips!Tick
    <2> QED
      BY <2>1, <1>11
  <1>13. ChipState' /\ ChipQueues' /\ QueuesOfThisRun'
    BY <1>2, <1>4, <1>11, <1>12 DEF ChipState, ChipQueues, QueuesOfThisRun
  <1> QED
    BY <1>9, <1>13 DEF ChipsInv

LEMMA ChipsNext ==
    ASSUME Chips!TrackingAssumption, ChipsInv, [Chips!Next]_Chips!vars PROVE ChipsInv'
  <1>1. CASE UNCHANGED Chips!vars
    <2>1. UNCHANGED chipvars
      BY <1>1 DEF Chips!vars, Chips!ofWindow, chipvars
    <2> QED
      BY <2>1, ChipsStill
  <1>2. CASE Chips!Next
    BY <1>2, ChipsSession, ChipsMarker, ChipsSettings, ChipsStart, ChipsTick DEF Chips!Next
  <1> QED
    BY <1>1, <1>2
-----------------------------------------------------------------------------
\* The trackers of a run know the markers of its session only, whatever a reset
\* or a disabled window left in the queues, and the receiver is asked about a
\* dead one at most once in a run.
THEOREM TrackersAreSound == ASSUME Chips!TrackingAssumption PROVE Chips!Spec => []TrackersSound
  <1>1. Chips!Init => ChipsInv
    BY ChipsInit
  <1>2. ChipsInv /\ [Chips!Next]_Chips!vars => ChipsInv'
    BY ChipsNext
  <1>3. ChipsInv => TrackersSound
    BY DEF ChipsInv
  <1> QED
    BY <1>1, <1>2, <1>3, PTL DEF Chips!Spec
=============================================================================
