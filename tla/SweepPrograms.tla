--------------------------- MODULE SweepPrograms ---------------------------
(***************************************************************************)
(* The programs of a sweep: the campaign (extended, with its variables), a *)
(* round of it, the recorded sweep, the daily publication, the files of    *)
(* pixel offsets that a sweep puts aside, and the plan it is given.  They  *)
(* meet in files only.  A behaviour is one of a single machine, named by   *)
(* part; the others stay as they are initially.  A variable is named as in *)
(* its machine, with a prefix where another machine has the name.          *)
(***************************************************************************)
EXTENDS SweepCampaign, Sequences

CONSTANTS Nodes,
          Units, Faults, Settled,                  \* of SweepRound
          Plan, MaxFaults, MaxDriverDeaths,        \* of RecordSweep
          MaxDocs, MaxDeaths,                      \* of SweepPublish
          LastNode, MaxCalibrations, MaxKills,     \* of OffsetFiles
          NPixels, MasterLocs, DummyPx, Rate1, Rate2, Need, MinTime, MaxTime, Infinite, Requests,
          NotYet, Refused                          \* of SweepPlan

VARIABLES part,
    \* a round
    pc, round_attempt, session_active, error, acq, node_status, dwell, fit, sent, got, released,
    hist, correlating, bg, tail, polls, clock, stop_sent, faults, lost,
    \* the recorded sweep
    driver, camp, mask_failed, rec_step, rec_todo, rec_cur, rec_attempt, done, rec_failed,
    rec_measured, short, moved, recv, raw, info, result, record, deleted, cut, refused, unclean,
    reach, lspad, rec_faults, rec_crashes,
    \* the publication
    records, sweep_phase, alive, deaths, slow, again, due, uploaded, page_pc, seen, line, lined,
    batch, artifact, shown,
    \* the offset files
    remote, backup, stamped, tool, at, tool_phase, content, latest, kills,
    aside, half_saved, over,
    \* the plan
    request, plan

Round == INSTANCE SweepRound WITH attempt <- round_attempt, status <- node_status
Recorder == INSTANCE RecordSweep WITH
    MaxCrashes <- MaxDriverDeaths,
    step <- rec_step, todo <- rec_todo, cur <- rec_cur, attempt <- rec_attempt,
    failed <- rec_failed, measured <- rec_measured, faults <- rec_faults,
    crashes <- rec_crashes
Page == INSTANCE SweepPublish WITH
    MaxMeasured <- MaxDocs, phase <- sweep_phase, pc <- page_pc
Offsets == INSTANCE OffsetFiles WITH phase <- tool_phase
Plans == INSTANCE SweepPlan

ASSUME SweepAssumption ==
    /\ Round!SweepRoundAssumption /\ Recorder!RecordSweepAssumption /\ Page!PublishAssumption
    /\ Offsets!OffsetAssumption /\ Plans!PlanAssumption

roundvars == <<pc, round_attempt, session_active, error, acq, node_status, dwell, fit, sent, got,
               released, hist, correlating, bg, tail, polls, clock, stop_sent, faults, lost>>
recordvars == <<driver, camp, mask_failed, rec_step, rec_todo, rec_cur, rec_attempt, done,
                rec_failed, rec_measured, short, moved, recv, raw, info, result, record, deleted,
                cut, refused, unclean, reach, lspad, rec_faults, rec_crashes>>
pagevars == <<records, sweep_phase, alive, deaths, slow, again, due, uploaded, page_pc, seen, line,
              lined, batch, artifact, shown>>
offsetvars == <<remote, backup, stamped, tool, at, tool_phase, content, latest, kills, aside,
                half_saved, over>>
planvars == <<request, plan>>
sumvars == <<part, vars, roundvars, recordvars, pagevars, offsetvars, planvars>>

Machines == {"campaign", "round", "record", "publish", "offsets", "plan"}
SumInit ==
    /\ part \in Machines
    /\ Init /\ Round!Init /\ Recorder!Init /\ Page!Init /\ Offsets!Init
    /\ IF part = "plan" THEN Plans!Init ELSE request = NotYet /\ plan = NotYet

\* A step of the machine whose behaviour this is.
Steps(A, own) == part = own /\ A /\ UNCHANGED part
InCampaign(A) ==
    Steps(A, "campaign") /\ UNCHANGED <<roundvars, recordvars, pagevars, offsetvars, planvars>>
InRound(A) ==
    Steps(A, "round") /\ UNCHANGED <<vars, recordvars, pagevars, offsetvars, planvars>>
InRecorder(A) ==
    Steps(A, "record") /\ UNCHANGED <<vars, roundvars, pagevars, offsetvars, planvars>>
InPage(A) ==
    Steps(A, "publish") /\ UNCHANGED <<vars, roundvars, recordvars, offsetvars, planvars>>
InOffsets(A) ==
    Steps(A, "offsets") /\ UNCHANGED <<vars, roundvars, recordvars, pagevars, planvars>>
InPlans(A) ==
    Steps(A, "plan") /\ UNCHANGED <<vars, roundvars, recordvars, pagevars, offsetvars>>

SumNext ==
    \/ InCampaign(Next)
    \/ InRound(Round!Next)
    \/ InRecorder(Recorder!Next)
    \/ InPage(Page!Next)
    \/ InOffsets(Offsets!Next)
    \/ InPlans(Plans!Next)

\* The threads of a round run, time passes and what nodes sent arrives; the
\* campaign's main thread runs, and somebody runs its command again.
Fairness ==
    /\ WF_roundvars(part = "round" /\ Round!Main)
    /\ WF_roundvars(part = "round" /\ Round!Background)
    /\ WF_roundvars(part = "round" /\ Round!Elapse)
    /\ \A n \in Nodes : /\ WF_roundvars(part = "round" /\ Round!Deliver(n))
                        /\ WF_roundvars(part = "round" /\ Round!OnStatus(n))
    /\ WF_vars(part = "campaign" /\ MainStep)
    /\ WF_vars(part = "campaign" /\ \E redoing \in Redos : Launch(redoing))

SumSpec == SumInit /\ [][SumNext]_sumvars /\ Fairness
-----------------------------------------------------------------------------
\* run_round (tools/sweep/run.py:52-167, nodes.py:482-533): a round recorded
\* before the 180 s run out was calibrated on markers of its own session, both
\* nodes finished it, and every unit they streamed is in the histograms, unless
\* an exception was swallowed or the two threads added at once.
RoundSound == Round!RoundSound

\* record.py and run_masks.py: what is analysed is one whole acquisition of
\* this attempt, unless a directory could not be emptied before it; raw stamps go
\* only of rounds that have a result, and a record beside it unless record.py or its
\* analysis ended between the two or a file was held open; every round is
\* accounted for at the end, and lSPAD is closed however the sweep stops.
RecorderSound == Recorder!RecorderSound

\* publish.py: whatever the sweep does meanwhile and wherever the upload is
\* interrupted, DONE means all rounds are on the page, and a round marked
\* uploaded is there.
PageSound == Page!PageSound

\* backup_and_zero_offsets and restore_offsets (tools/sweep/nodes.py:302-360):
\* a calibration that a zeroing run took is whole on the node or in the backup
\* folder, whatever was killed and run again, unless its save was killed and a
\* restore or a push came before the next zeroing run.
CalibrationKept == Offsets!TypeOK /\ Offsets!CalibrationKept

\* plan.py: every pair asked for is measured as often as asked, in rounds
\* that the runner accepts, that last as long as promised and share no files.
PlanSound ==
    part = "plan" =>
        /\ Plans!EveryPairOnce /\ Plans!AutoIsRunnable /\ Plans!DummyIsDark
        /\ Plans!LongEnough /\ Plans!PlanFileSame /\ Plans!FilesApart

\* Whatever nodes and pool do, the attempts at a round come to an end; and
\* running the command again brings the sweep to its end, unless a death in
\* the append has left half a line (tools/sweep/run.py:13, 314-329).
SweepEnds == <>(/\ part = "round" => Round!Decided
                /\ part = "campaign" => Over)
=============================================================================
