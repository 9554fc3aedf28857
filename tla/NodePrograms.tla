---------------------------- MODULE NodePrograms ----------------------------
(***************************************************************************)
(* The programs of a node: the sending thread with its queue and the       *)
(* reading of the T-mode files (extended, with their variables), the       *)
(* parsing of the files' rows, the session with lSPAD, and the command     *)
(* server with the panel that commands it.  A behaviour is one of a single *)
(* machine, named by part; the others stay as they are initially.  A       *)
(* variable is named as in its machine, with a prefix where another        *)
(* machine has the name.                                                   *)
(***************************************************************************)
EXTENDS SendQueue, TModeIngest

CONSTANTS SlavePixels, MasterPixels, SpecialIds, OverflowId, ResetId, CountsPerReset,
          PsPerCount, OffsetPs, Seen,                  \* of TModeRows
          ROWS, MaxSessions, MaxRestarts, MaxFaults,   \* of LspadSession
          MaxRuns, MaxLinks                            \* of RunControl

VARIABLES part,
    \* the rows of a chip's files
    seen_chip, truth, lost, chip_rows, at, accumulated, key_bufs, abnormal, failed,
    \* a session with lSPAD
    lspad_cmds, reply, stream, tdc, counter, dirs, rows_out, session, kind, step, before,
    run_dir, intensity_rows, buf, sent, begun_ok, unclean, restarts, faults,
    \* the command server and its panel
    run, panel, session_active, pending_mode, data_conn, write_mode, locked, wrote, links,
    ctrl_link, cmds, status, handled, acq, backlog

Parser == INSTANCE TModeRows WITH
    chip <- seen_chip, rows <- chip_rows, bufs <- key_bufs
Lspad == INSTANCE LspadSession WITH
    Pauses <- FALSE, cmds <- lspad_cmds, wire <- reply, rows <- intensity_rows
Control == INSTANCE RunControl WITH
    Nodes <- {1}, Flaky <- {1}, PromptAccept <- TRUE, link <- ctrl_link

ASSUME NodeAssumption ==
    /\ TModeAssumption /\ Parser!RowsAssumption /\ Lspad!LspadSessionAssumption
    /\ Control!RunControlAssumption

rowvars == <<seen_chip, truth, lost, chip_rows, at, accumulated, key_bufs, abnormal, failed>>
lspadvars == <<lspad_cmds, reply, stream, tdc, counter, dirs, rows_out, session, kind, step,
               before, run_dir, intensity_rows, buf, sent, begun_ok, unclean, restarts, faults>>
controlvars == <<run, panel, session_active, pending_mode, data_conn, write_mode, locked, wrote,
                 links, ctrl_link, cmds, status, handled, acq, backlog>>
sumvars == <<part, vars, loopvars, rowvars, lspadvars, controlvars>>

Machines == {"send", "files", "rows", "lspad", "control"}

\* What a detector saw is of interest to the parser only.
NothingSeen ==
    /\ seen_chip = "slave" /\ truth = <<>> /\ lost = 0 /\ chip_rows = <<>> /\ at = 0
    /\ accumulated = 0 /\ key_bufs = <<>> /\ abnormal = {} /\ failed = FALSE

SumInit ==
    /\ part \in Machines
    /\ Init /\ LoopInit /\ Lspad!Init /\ Control!Init
    /\ IF part = "rows" THEN Parser!Init ELSE NothingSeen
    /\ part # "lspad" => ~stream /\ ~tdc

\* A step of the machine whose behaviour this is.
Steps(A, own) == part = own /\ A /\ UNCHANGED part
InSend(A) == Steps(A, "send") /\ UNCHANGED <<loopvars, rowvars, lspadvars, controlvars>>
InFiles(A) == Steps(A, "files") /\ UNCHANGED <<vars, rowvars, lspadvars, controlvars>>
InRows(A) == Steps(A, "rows") /\ UNCHANGED <<vars, loopvars, lspadvars, controlvars>>
InLspad(A) == Steps(A, "lspad") /\ UNCHANGED <<vars, loopvars, rowvars, controlvars>>
InControl(A) == Steps(A, "control") /\ UNCHANGED <<vars, loopvars, rowvars, lspadvars>>

SumNext ==
    \/ InSend(Next)
    \/ InFiles(LoopNext)
    \/ InRows(Parser!Next)
    \/ InLspad(Lspad!Next)
    \/ InControl(Control!Next)

\* The threads run, lSPAD answers a stop, the pool works. A behaviour is one of
\* one machine only, so the conditions of different machines share a WF.
Fairness ==
    /\ WF_sumvars(\/ InSend(Teardown) \/ InFiles(LoopStep)
                  \/ InControl(Control!NodeRuns(1)))
    /\ WF_sumvars(\/ InSend(StopSeen) \/ InFiles(AnswersStop)
                  \/ InControl(Control!ReceiverRuns(1)))
    /\ WF_sumvars(InSend(SenderStep) \/ InFiles(PoolWorks))

SumSpec == SumInit /\ [][SumNext]_sumvars /\ Fairness
-----------------------------------------------------------------------------
\* The T-mode parser (node_backend.py:437-534, tmode_kernel.py): however rows
\* are cut into files, each event is filed once, under its own key, at the time
\* the detector saw it, or reported; a lost reset row is met at the next one.
RowsTrue ==
    part = "rows" => Parser!TrueTimes /\ Parser!MismatchExact /\ Parser!FiledOrReported

\* find_tmode_run_dir, clear_stale_tmode_run_dirs, open_lspad_tmode_stream and
\* run_intensity: a session reads the folder lSPAD writes for it, begins with a
\* valid calibration only, sends the whole measurement and no other answer, and
\* never waits for a folder whose name an earlier run left behind.
MeasurementIsOwn ==
    /\ Lspad!TypeOK /\ Lspad!OwnRunDir /\ Lspad!BegunCalibrated
    /\ Lspad!WholeReply /\ Lspad!NotWedged

\* _handle_controller against NodePanel: a node never runs two acquisitions, a
\* panel that shows no session has none, and each data connection is read by
\* the loop of its kind.
RunControlSound ==
    /\ Control!TypeOK /\ Control!OneAcquisition
    /\ Control!IdleIsTrue /\ Control!EachConnectionItsLoop

\* On a node what was stopped ends: the session as long as its receiver is
\* there, the queue full or not; the T-mode loop once lSPAD is finished or gone,
\* too; and a run whose controller is gone.
WhatStoppedEnds ==
    (\/ part = "send" /\ Stopped
     \/ part = "files" /\ Finishing
     \/ part = "control" /\ Control!Abandoned(1))
    ~> (/\ part = "send" => SessionOver
        /\ part = "files" => Finished
        /\ part = "control" => Control!Quiet(1))
=============================================================================
