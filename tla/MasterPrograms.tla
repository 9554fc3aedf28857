--------------------------- MODULE MasterPrograms ---------------------------
(***************************************************************************)
(* The master: the control of a run (extended, with its variables), the    *)
(* launch of a node, the receiving of a session, the calibration of a run, *)
(* and its log.  A behaviour is one of a single machine, named by part;    *)
(* the others stay as they are initially.  A variable is named as in its   *)
(* machine, with a prefix where another machine has the name.              *)
(***************************************************************************)
EXTENDS RunControl

CONSTANTS MaxLaunches, MaxRefresh, MaxFaults,       \* of NodeLaunch
          MarkerKinds, MaxConns, MaxBreaks,         \* of ReceiverSession
          MaxChunks,                                \* of ReceiverSession and MasterRun
          SparseNodes, Chips, MaxMonitors,          \* of MasterRun
          Threads, MaxLogged, MaxLines              \* of RunRecord

VARIABLES part,
    \* the launch of a node
    state, epoch, creds, applied, gui, launch_link, refused, thread, refresh, kills, lspad,
    hw_mask, node_py, masks, faults, ran_on, unkilled, late_refresh,
    \* a session of the receiver
    conn, mode, data_link, wire, sent, sender, step, write, seen, kind, fired, queue, file,
    table, finished, chunks, breaks, torn_open,
    \* the calibration of a run
    sparse_run, active, streaming, done, lanes, rx, dwell, draining, loop, waiting, cal_run,
    armed, acc, late, monitor, mon, fit, tapped, spoiled, markers,
    \* the log of a run
    log_run, log_active, log_conn, low_disk, log_backlog, dialog, log_locked, log_gui, path,
    capturing, buf, out, log_file, adding, said, lines

Launch == INSTANCE NodeLaunch WITH link <- launch_link
Receive == INSTANCE ReceiverSession WITH
    Kinds <- MarkerKinds, MaxFaults <- MaxBreaks, link <- data_link, node <- sender,
    faults <- breaks
Sparse == INSTANCE MasterRun WITH
    Nodes <- SparseNodes, run <- sparse_run, node <- streaming, link <- lanes,
    chunks <- markers
Log == INSTANCE RunRecord WITH
    MaxRuns <- MaxLogged, run <- log_run, active <- log_active, conn <- log_conn,
    backlog <- log_backlog, locked <- log_locked, gui <- log_gui, file <- log_file

ASSUME MasterAssumption ==
    /\ Launch!NodeLaunchAssumption /\ Receive!ReceiverAssumption
    /\ Sparse!MasterAssumption /\ Log!RecordAssumption

launchvars == <<state, epoch, creds, applied, gui, launch_link, refused, thread, refresh, kills,
                lspad, hw_mask, node_py, masks, faults, ran_on, unkilled, late_refresh>>
receivevars == <<conn, mode, data_link, wire, sent, sender, step, write, seen, kind, fired, queue,
                 file, table, finished, chunks, breaks, torn_open>>
sparsevars == <<sparse_run, active, streaming, done, lanes, rx, dwell, draining, loop, waiting,
                cal_run, armed, acc, late, monitor, mon, fit, tapped, spoiled, markers>>
logvars == <<log_run, log_active, log_conn, low_disk, log_backlog, dialog, log_locked, log_gui,
             path, capturing, buf, out, log_file, adding, said, lines>>
sumvars == <<part, vars, launchvars, receivevars, sparsevars, logvars>>

Machines == {"pair", "launch", "receive", "calibrate", "log"}
SumInit ==
    /\ part \in Machines
    /\ Init /\ Launch!Init /\ Receive!Init /\ Sparse!Init /\ Log!Init

\* A step of the machine whose behaviour this is.
Steps(A, own) == part = own /\ A /\ UNCHANGED part
InPair(A) == Steps(A, "pair") /\ UNCHANGED <<launchvars, receivevars, sparsevars, logvars>>
InLaunch(A) == Steps(A, "launch") /\ UNCHANGED <<vars, receivevars, sparsevars, logvars>>
InReceive(A) == Steps(A, "receive") /\ UNCHANGED <<vars, launchvars, sparsevars, logvars>>
InSparse(A) == Steps(A, "calibrate") /\ UNCHANGED <<vars, launchvars, receivevars, logvars>>
InLog(A) == Steps(A, "log") /\ UNCHANGED <<vars, launchvars, receivevars, sparsevars>>

SumNext ==
    \/ InPair(Next)
    \/ InLaunch(Launch!Next)
    \/ InReceive(Receive!Next)
    \/ InSparse(Sparse!Next)
    \/ InLog(Log!Next)

\* The GUI loop and the threads run, every wait in them has a time limit.
Fairness ==
    /\ WF_launchvars(part = "launch" /\ Launch!Gui)
    /\ \A t \in Launch!Launches : WF_launchvars(part = "launch" /\ Launch!ThreadStep(t))
    /\ WF_receivevars(part = "receive" /\ Receive!Accepts)
    /\ WF_receivevars(part = "receive" /\ Receive!Loop)
    /\ WF_sparsevars(part = "calibrate" /\ Sparse!Arms)
    /\ WF_sparsevars(part = "calibrate" /\ Sparse!NotesFirst)
    /\ WF_sparsevars(part = "calibrate" /\ Sparse!Polls)
    /\ WF_sparsevars(part = "calibrate" /\ Sparse!Deadline)
    /\ \A e \in 1 .. MaxMonitors : /\ WF_sparsevars(part = "calibrate" /\ Sparse!MonitorStep(e))
                                  /\ WF_sparsevars(part = "calibrate" /\ Sparse!Elapses(e))

SumSpec == SumInit /\ [][SumNext]_sumvars /\ Fairness
-----------------------------------------------------------------------------
\* NodePanel and ssh_launcher: an aborted launch stays aborted; and, unless a
\* thread, a shutdown or a post outlived its epoch, one node.py answers, the mask
\* shown is the one in use (but for one a refresh stored after a Disconnect), and a
\* panel that has given up its credentials leaves no lSPAD behind but one whose
\* shutdown did not get through.
LaunchSound == /\ Launch!TypeOK /\ Launch!AbortStays /\ Launch!MaskInUse
               /\ Launch!OneNodePy /\ Launch!FailureCleansUp

\* run_session_loop and marker_source.py: the files of a directory are of one
\* run, a session that ended is whole, and its live marker input is the one the
\* offline analysis picks, never mixed with another kind, chip or session.
ReceiverSound == /\ Receive!TypeOK /\ Receive!OneRunInDirectory /\ Receive!EndedComplete
                 /\ Receive!LiveIsOffline /\ Receive!NeverMixedBack /\ Receive!OwnMarkers

\* start_dwell_drain and _arm_sparse_cal (master.py:561-602, 1536-1655): a run
\* whose taps were set in time is calibrated on nothing an earlier run left, and
\* nothing is discarded of a run that is still to be calibrated.
CalibrationSound ==
    Sparse!TypeOK /\ Sparse!CalibratedOnTappedData /\ Sparse!CalibrationKeepsItsData

\* A run is calibrated at most once, by its own callback, however the first
\* chunks, the 20 s timer, the stops and the next START fall (master.py:1536-1655).
OncePerRun == [][Sparse!OwnCallback]_sparsevars

\* run_log.py and _check_disk_space: the log of a run has every line the event
\* loop logs from its START, in order, no line is logged twice, and a latch
\* that is up belongs to the run of the last START.
RunLogSound == Log!TypeOK /\ Log!RunLogWhole /\ Log!LoggedOnce /\ Log!LatchesOfThisRun

\* A panel that says it is launching comes to an end without the user, unless
\* its node.py was started and cannot be reached; "Never let the accept loop
\* die": whatever ends a session, the next connection is read; "never hang if a
\* node never delivers": a run with a correlator is calibrated unless it is
\* superseded, and a monitor measurement comes to its end and its file.
MasterGoesOn ==
    /\ (\/ part = "launch" /\ Launch!Launching
        \/ part = "receive" /\ Receive!Gone
        \/ part = "calibrate" /\ Sparse!Measuring(1))
       ~> (/\ part = "launch" => Launch!Decided
           /\ part = "receive" => Receive!Accepting
           /\ part = "calibrate" => Sparse!Saved(1))
    /\ (part = "calibrate" /\ Sparse!Uncalibrated)
       ~> (part = "calibrate" => ~Sparse!Uncalibrated)
=============================================================================
