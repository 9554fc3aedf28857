------------------------------ MODULE MasterRun ------------------------------
(***************************************************************************)
(* The run control of master.py above the node panels: START, SOFT STOP,   *)
(* ABORT, Intensity and Monitor, the callbacks they leave with the event   *)
(* loop, each with the number of its run, the dwell calibration and the    *)
(* dwell queues of the data threads.  (RunRecord has the log of a run and  *)
(* the automatic stops.)                                                   *)
(*                                                                         *)
(* One action per callback: the event loop runs one at a time; the data    *)
(* threads, the readers of the control links and the monitor threads run   *)
(* beside it.  Both nodes are connected throughout (RunControl and         *)
(* NodeLaunch have the links); a chunk is one chip's dwell timestamps,     *)
(* long enough for a fit.                                                  *)
(***************************************************************************)
EXTENDS Integers, Sequences, FiniteSets

CONSTANTS Nodes,
          Chips,        \* of "master", "slave": those with active pixels
          MaxRuns,      \* bound: _run_id
          MaxChunks,    \* bound: chunks in all
          MaxMonitors   \* bound: monitor measurements

MasterAssumption ==
    IsFiniteSet(Nodes) /\ Nodes # {} /\ Chips \subseteq {"master", "slave"}
    /\ {MaxRuns, MaxChunks, MaxMonitors} \subseteq Nat

VARIABLES run,          \* _run_id
          active,       \* _session_active of each panel
          node,         \* the run a node streams for, 0: idle
          done,         \* "done" is on its way
          link,         \* what the data connection of a node carries
          rx,           \* of its data thread: the run of its session, dwell_seen
          dwell,        \* _dwell_q and _master_dwell_q
          draining,     \* _drain_active
          loop,         \* the callbacks waiting in the event loop
          waiting, cal_run, armed, acc, late,   \* _cal_waiting ... _cal_deadline
          monitor,      \* _monitor_abort: its number, and whether it is set
          mon,          \* the monitor threads
          fit,          \* ghost: the calibrations: whose, in which run, from whose data
          tapped,       \* ghost: all nodes were accepted when the calibration was armed
          spoiled,      \* ghost: dwell chunks of a run to be calibrated were thrown away
          chunks

nodes == <<node, done, link, rx>>
taps == <<dwell, draining, spoiled>>
cal == <<waiting, cal_run, armed, acc, late, tapped>>
monitors == <<monitor, mon>>
vars == <<run, active, nodes, taps, loop, cal, monitors, fit, chunks>>

Runs == 1 .. MaxRuns
Later(call, r) == [call |-> call, run |-> r]
OfNode(call, r, n) == [call |-> call, run |-> r, node |-> n]
-----------------------------------------------------------------------------
\* Mutants of definitions below.
OfAnyRun(c) == TRUE
WaitsForData(r) == {}
QueueKept(n) == dwell[n]

\* The guard of _poll_sparse_cal.
Ours(c) == c.run = run

\* _arm_sparse_cal: for the current run, once.
MayArm(r) == r = run /\ armed # r

\* _start_all: the callback of a run that is calibrated.
Timers(r) == {Later("arm", r)}

\* _accept_data_thread: the queues are emptied.
Tapped(n) == {}

\* _accept_data_thread: stop_dwell_drain.
DrainsOn(n) == FALSE

\* _run_monitor_node: the duration is over.
Over(e) == mon[e].up

-----------------------------------------------------------------------------
Init ==
    /\ run = 0 /\ active = [n \in Nodes |-> FALSE] /\ node = [n \in Nodes |-> 0]
    /\ done = [n \in Nodes |-> FALSE] /\ link = [n \in Nodes |-> <<>>]
    /\ rx = [n \in Nodes |-> [of |-> 0, first |-> FALSE]]
    /\ dwell = [n \in Nodes |-> {}]
    /\ draining = [n \in Nodes |-> FALSE] /\ loop = {}
    /\ waiting = {} /\ cal_run = 0 /\ armed = 0 /\ acc = [n \in Nodes |-> {}] /\ late = FALSE
    /\ tapped = FALSE
    /\ monitor = [id |-> 0, set |-> FALSE]
    /\ mon = [e \in 1 .. MaxMonitors |-> [at |-> "none", up |-> FALSE]]
    /\ fit = [n |-> 0, of |-> 0, at |-> 0, used |-> {}, tapped |-> FALSE] /\ spoiled = FALSE
    /\ chunks = 0

Finishing == \E n \in Nodes : active[n]

\* The ghost of a queue that is emptied.
Drops(S) ==
    spoiled' = (spoiled \/ (cal_run = run /\ fit.at # run /\ \E x \in S : x.run = run))

SendStart ==
    /\ run < MaxRuns /\ ~Finishing /\ run' = run + 1
    /\ \A n \in Nodes : node[n] = 0 /\ ~done[n]
    /\ active' = [n \in Nodes |-> TRUE] /\ node' = [n \in Nodes |-> run']
    /\ link' = [n \in Nodes |-> Append(link[n], [what |-> "open", run |-> run'])]
    /\ UNCHANGED <<done, rx, taps, monitors, fit, chunks>>

\* _start_all, with a correlator enabled
Start ==
    /\ SendStart /\ loop' = loop \cup Timers(run') /\ waiting' = Nodes /\ cal_run' = run'
    /\ UNCHANGED <<armed, acc, late, tapped>>

\* _start_all with no correlator enabled, _start_intensity
StartOther == SendStart /\ UNCHANGED <<loop, cal>>

\* _end_run, of SOFT STOP, ABORT and the automatic stops: the nodes are told,
\* and come to their end by themselves.
EndRun ==
    /\ run < MaxRuns /\ run' = run + 1 /\ waiting' = {}
    /\ monitor' = [monitor EXCEPT !.set = monitor.id # 0]
    /\ UNCHANGED <<active, nodes, taps, loop, cal_run, armed, acc, late, tapped, mon, fit,
                   chunks>>

\* _start_monitor
StartMonitor ==
    /\ run < MaxRuns /\ (monitor.id = 0 \/ monitor.set) /\ monitor.id < MaxMonitors
    /\ monitor' = [id |-> monitor.id + 1, set |-> FALSE]
    /\ mon' = [mon EXCEPT ![monitor'.id].at = "ssh"]
    /\ run' = run + 1
    /\ UNCHANGED <<active, nodes, taps, loop, cal, fit, chunks>>
-----------------------------------------------------------------------------
\* The node: a session of some dwell chunks, then "done" or "error".
Sends(n, chip) ==
    /\ node[n] # 0 /\ chunks < MaxChunks /\ chunks' = chunks + 1
    /\ link' = [link EXCEPT ![n] = Append(@, [what |-> chip, run |-> node[n]])]
    /\ UNCHANGED <<run, active, node, done, rx, taps, loop, cal,
                   monitors, fit>>

Ends(n) ==
    /\ node[n] # 0 /\ node' = [node EXCEPT ![n] = 0] /\ done' = [done EXCEPT ![n] = TRUE]
    /\ UNCHANGED <<run, active, link, rx, taps, loop, cal, monitors, fit, chunks>>

\* _on_ctrl_status: "done" and "error"
OnDone(n) ==
    /\ done[n] /\ done' = [done EXCEPT ![n] = FALSE] /\ active' = [active EXCEPT ![n] = FALSE]
    /\ draining' = [draining EXCEPT ![n] = FALSE]
    /\ UNCHANGED <<run, node, link, rx, dwell, spoiled, loop, cal,
                   monitors, fit, chunks>>

\* The data thread: the accept, a chunk, the end.
Receive(n) ==
    /\ link[n] # <<>> /\ link' = [link EXCEPT ![n] = Tail(@)]
    /\ LET x == Head(link[n])
       IN  CASE x.what = "open" ->
                /\ rx' = [rx EXCEPT ![n] = [of |-> x.run, first |-> FALSE]]
                /\ draining' = [draining EXCEPT ![n] = DrainsOn(n)]
                /\ dwell' = [dwell EXCEPT ![n] = Tapped(n)] /\ Drops(dwell[n] \ dwell'[n])
                /\ UNCHANGED loop
             [] x.what \in Chips ->
                /\ rx' = [rx EXCEPT ![n].first = @ \/ x.what = "slave"]
                /\ loop' = IF rx'[n].first # rx[n].first THEN loop \cup {OfNode("first", x.run, n)}
                                                         ELSE loop
                /\ dwell' = [dwell EXCEPT ![n] = @ \cup {x}] /\ UNCHANGED <<draining, spoiled>>
    /\ UNCHANGED <<run, active, node, done, cal, monitors, fit, chunks>>
-----------------------------------------------------------------------------
Fixed == UNCHANGED <<run, active, nodes, monitors, chunks>>

\* _arm_sparse_cal(r), at the end of a callback
Arm(r, rest) ==
    IF MayArm(r)
    THEN /\ armed' = r /\ acc' = [n \in Nodes |-> {}] /\ late' = FALSE
         /\ tapped' = \A n \in Nodes : rx[n].of = r
         /\ loop' = rest \cup {Later("poll", r)}
    ELSE loop' = rest /\ UNCHANGED <<armed, acc, late, tapped>>

ArmTimeout(c) ==
    /\ c.call = "arm" /\ c \in loop /\ Arm(c.run, loop \ {c})
    /\ UNCHANGED <<taps, waiting, cal_run, fit>> /\ Fixed

\* _note_first_data, for the run that opened the wait
NoteFirstData(c) ==
    /\ c.call = "first" /\ c \in loop /\ waiting' = waiting \ {c.node}
    /\ IF c.node \in waiting /\ waiting' = {} THEN Arm(cal_run, loop \ {c})
       ELSE loop' = loop \ {c} /\ UNCHANGED <<armed, acc, late, tapped>>
    /\ UNCHANGED <<taps, cal_run, fit>> /\ Fixed

Has(a, chip) == \A n \in Nodes : \E x \in a[n] : x.what = chip
Source(a) == IF Has(a, "slave") THEN "slave" ELSE IF Has(a, "master") THEN "master" ELSE "none"
UsedIn(a) == {x.run : x \in {y \in UNION {a[n] : n \in Nodes} : y.what = Source(a)}}

\* _poll_sparse_cal, with _apply_sparse_dwell_offset
Poll(c) ==
    /\ c.call = "poll" /\ c \in loop /\ UNCHANGED <<waiting, cal_run, armed, late, tapped>> /\ Fixed
    /\ IF ~Ours(c)
       THEN loop' = loop \ {c} /\ UNCHANGED <<acc, fit, taps>>
       ELSE /\ acc' = [n \in Nodes |-> acc[n] \cup dwell[n]]
            /\ dwell' = [n \in Nodes |-> {}] /\ UNCHANGED spoiled
            /\ IF Source(acc') # "none" \/ late
               THEN /\ fit' = [n |-> fit.n + 1, of |-> c.run, at |-> run, used |-> UsedIn(acc'),
                                  tapped |-> tapped]
                    /\ draining' = [n \in Nodes |-> TRUE]
                    /\ loop' = (loop \ {c}) \cup
                               {OfNode("drain", 0, n) : n \in {k \in Nodes : ~draining[k]}}
               ELSE UNCHANGED <<loop, fit, draining>>

\* _schedule_dwell_drain
Drain(c) ==
    /\ c.call = "drain" /\ c \in loop /\ UNCHANGED <<draining, cal, fit>> /\ Fixed
    /\ IF draining[c.node]
       THEN /\ Drops(dwell[c.node]) /\ dwell' = [dwell EXCEPT ![c.node] = {}]
            /\ UNCHANGED loop
       ELSE loop' = loop \ {c} /\ UNCHANGED <<dwell, spoiled>>

\* time.time() comes to _cal_deadline
Deadline ==
    /\ armed # 0 /\ Later("poll", armed) \in loop /\ ~late /\ late' = TRUE
    /\ UNCHANGED <<loop, taps, waiting, cal_run, armed, acc, tapped, fit>> /\ Fixed
-----------------------------------------------------------------------------
\* _run_monitor_node; it reads _monitor_abort anew at every turn.
MonitorStep(e) ==
    /\ UNCHANGED <<run, active, nodes, taps, loop, cal, monitor, fit, chunks>>
    /\ \/ mon[e].at = "ssh" /\ \E s \in {"check", "failed"} : mon' = [mon EXCEPT ![e].at = s]
       \/ mon[e].at = "check" /\ (monitor.set \/ Over(e)) /\ mon' = [mon EXCEPT ![e].at = "saved"]
       \/ mon[e].at = "check" /\ ~(monitor.set \/ Over(e)) /\ mon' = [mon EXCEPT ![e].at = "query"]
       \/ mon[e].at = "query" /\ mon' = [mon EXCEPT ![e].at = "check"]

Elapses(e) ==
    /\ mon[e].at \in {"check", "query"} /\ ~mon[e].up /\ mon' = [mon EXCEPT ![e].up = TRUE]
    /\ UNCHANGED <<run, active, nodes, taps, loop, cal, monitor, fit, chunks>>

User == Start \/ StartOther \/ EndRun \/ StartMonitor
Node(n) == (\E chip \in Chips : Sends(n, chip)) \/ Ends(n) \/ OnDone(n) \/ Receive(n)
Callback == \E c \in loop : ArmTimeout(c) \/ NoteFirstData(c) \/ Poll(c) \/ Drain(c)
Monitor(e) == MonitorStep(e) \/ Elapses(e)

Next == User \/ (\E n \in Nodes : Node(n)) \/ Callback \/ Deadline
        \/ \E e \in 1 .. MaxMonitors : Monitor(e)

Arms == \E c \in loop : ArmTimeout(c)
NotesFirst == \E c \in loop : NoteFirstData(c)
Polls == \E c \in loop : Poll(c)

Fairness ==
    /\ WF_vars(Arms) /\ WF_vars(NotesFirst) /\ WF_vars(Polls) /\ WF_vars(Deadline)
    /\ \A e \in 1 .. MaxMonitors : WF_vars(MonitorStep(e)) /\ WF_vars(Elapses(e))

Spec == Init /\ [][Next]_vars /\ Fairness
-----------------------------------------------------------------------------
Chunk == [what : Chips, run : Runs]
Item == [what : Chips \cup {"open"}, run : Runs]

TypeOK ==
    /\ run \in 0 .. MaxRuns /\ {cal_run, armed} \subseteq 0 .. run
    /\ \A n \in Nodes :
          /\ {active[n], done[n], draining[n]} \subseteq BOOLEAN /\ node[n] \in 0 .. run
          /\ link[n] \in Seq(Item) /\ rx[n] \in [of : 0 .. run, first : BOOLEAN]
          /\ {dwell[n], acc[n]} \subseteq SUBSET Chunk
    /\ \A c \in loop : c.call \in {"arm", "poll", "first", "drain"} /\ c.run \in 0 .. run
    /\ waiting \subseteq Nodes
    /\ {late, tapped, spoiled, monitor.set} \subseteq BOOLEAN
    /\ fit.n <= run /\ chunks \in 0 .. MaxChunks

\* _arm_sparse_cal and the guards of the callbacks: a run is calibrated at
\* most once, by its own callback, however the first chunks, the 20 s timer,
\* the stops and the next START fall.
OwnCallback == fit'.n # fit.n => fit'.of = fit'.at /\ fit'.at > fit.at
OncePerRun == [][OwnCallback]_vars

\* master.py:1545, "a late chunk from a superseded run must not calibrate the
\* new one": the offset of a run is fitted to dwell events of that run.
CalibratedOnOwnData == fit.used \subseteq {fit.at}

\* _accept_data_thread: a calibration that was armed when every node's data
\* connection was there uses nothing an earlier run left in the queues.
CalibratedOnTappedData == fit.tapped => fit.used \subseteq {fit.at}

\* start_dwell_drain: what is discarded are "dwell events the calibration no
\* longer needs", never those of a run that is still to be calibrated.
CalibrationKeepsItsData == ~spoiled

\* _start_all: "Fallback: never hang if a node never delivers slave_dwell
\* data": a run with a correlator is calibrated, unless it is superseded.
Uncalibrated == run > 0 /\ cal_run = run /\ fit.at # run
CalibrationDecided == Uncalibrated ~> ~Uncalibrated

\* _run_monitor_node: a monitor measurement comes to its end and its file.
Measuring(e) == mon[e].at = "check"
Saved(e) == mon[e].at = "saved"
MonitorEnds == \A e \in 1 .. MaxMonitors : Measuring(e) ~> Saved(e)
=============================================================================
