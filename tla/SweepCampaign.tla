--------------------------- MODULE SweepCampaign ---------------------------
(***************************************************************************)
(* The campaign around the rounds: main of tools/sweep/run.py, and what    *)
(* tools/sweep/rounds.py leaves on disk -- a round's files, its line in    *)
(* the records file, the status board and its mirror.  The process may     *)
(* die at any step; running the same command again resumes.  A round's     *)
(* acquisition is one step here, good or bad (SweepRound has the inside).  *)
(* The main thread and the heartbeat thread both write the status.         *)
(***************************************************************************)
EXTENDS Integers, FiniteSets, FiniteSetsExt

CONSTANTS Rounds,        \* the plan's round numbers
          Attempts,      \* ATTEMPTS
          Redos,         \* whether --redo may be given
          MaxMeasured,   \* bound: attempts that succeed
          MaxCrashes,    \* bound: deaths of the process
          MaxPower       \* bound: power cuts

ASSUME SweepCampaignAssumption ==
    /\ Rounds \subseteq Nat /\ IsFiniteSet(Rounds) /\ Attempts \in Nat \ {0}
    /\ {MaxMeasured, MaxCrashes, MaxPower} \subseteq Nat /\ Redos \subseteq BOOLEAN

VARIABLES proc,            \* "down", "running", "complete", "nothing", "unreadable"
          redo,            \* --redo: "never" so far, "now", or "before"
          step,            \* of the main thread
          todo, cur, attempt, failed,
          measured,        \* attempts that succeeded: the version of a result
          txt, npz, recs,  \* [round -> the version on disk, 0 if none]
          torn,            \* the last line of the records file is half a line
          phase,           \* StatusBoard.state
          status,          \* the status file
          mirror,          \* the copies in the mirror folder
          mirror_error,
          power,           \* every node is on AC
          cuts, crashes

loop == <<redo, step, todo, cur, attempt, failed>>
disk == <<txt, npz, recs, torn>>
board == <<phase, status, mirror, mirror_error>>
env == <<power, cuts, crashes>>
vars == <<proc, loop, measured, disk, board, env>>

Recorded == {r \in Rounds : recs[r] # 0}
NoneYet == [r \in Rounds |-> 0]
-----------------------------------------------------------------------------
\* A mutant of a definition below.
RecordFirst == [txt |-> "npz", npz |-> "append", append |-> "done", first |-> "append"]

\* A restart runs what has no record, or everything with --redo.
Selected(again) == IF again THEN Rounds ELSE Rounds \ Recorded

\* finalize_round: the files in this order, and the record as the last.
After == [first |-> "txt", txt |-> "npz", npz |-> "append", append |-> "done"]

\* The else clause of the attempts: `failed.append(j)`.
FailedNow == failed \cup {cur}

\* for attempt in range(1, ATTEMPTS + 1)
MoreAttempts == attempt' < Attempts

\* snapshot()
Snapshot == [phase |-> phase', done |-> Recorded]

\* _mirror of the two status files, at a beat or an update.
MirrorStatus(ok) ==
    /\ mirror_error' = ~ok
    /\ mirror' = IF ok THEN [mirror EXCEPT !.status = status'] ELSE mirror

\* write(), after a change of the state or at a beat.
Written == status' = Snapshot /\ \E ok \in BOOLEAN : MirrorStatus(ok)

\* wait_for_ac goes on after max_wait_s, power or not, and a node that cannot
\* be read counts as powered.
WaitIsOver == TRUE
-----------------------------------------------------------------------------
Init ==
    /\ proc = "down" /\ redo = "never" /\ step = "next" /\ todo = {}
    /\ cur = 0 /\ attempt = 0 /\ failed = {}
    /\ measured = 0 /\ txt = NoneYet /\ npz = NoneYet /\ recs = NoneYet /\ torn = FALSE
    /\ phase = "none" /\ status = [phase |-> "none", done |-> {}]
    /\ mirror = [status |-> status, recs |-> NoneYet] /\ mirror_error = FALSE
    /\ power = TRUE /\ cuts = 0 /\ crashes = 0

\* The command is run: load_records fails on half a line.
Launch(again) ==
    /\ proc = "down"
    /\ proc' = IF torn THEN "unreadable"
               ELSE IF Selected(again) = {} THEN "nothing" ELSE "running"
    /\ IF proc' = "running"
       THEN /\ redo' = IF again THEN "now" ELSE IF redo = "never" THEN redo ELSE "before"
            /\ todo' = Selected(again) /\ failed' = {} /\ step' = "next"
            /\ attempt' = 0 /\ cur' = 0
            /\ phase' = "starting" /\ Written
       ELSE UNCHANGED <<loop, board>>
    /\ UNCHANGED <<measured, disk, env>>

Main(s) == proc = "running" /\ step = s

NextRound ==
    /\ Main("next") /\ todo # {} /\ cur' = Min(todo) /\ todo' = todo \ {cur'}
    /\ attempt' = 0 /\ step' = "power" /\ UNCHANGED <<redo, failed>>
    /\ UNCHANGED phase /\ Written
    /\ UNCHANGED <<proc, measured, disk, env>>

\* wait_for_ac: the status is kept fresh while it waits.
WaitForAC ==
    /\ Main("power") /\ ~power /\ phase' = "waiting_power" /\ Written
    /\ UNCHANGED <<proc, loop, measured, disk, env>>

PowerChecked ==
    /\ Main("power") /\ (power \/ WaitIsOver) /\ step' = "try"
    /\ UNCHANGED <<proc, redo, todo, cur, attempt, failed, measured, disk, board, env>>

\* bring_up and run_round: an exception, an error of a node or an empty
\* histogram.  On battery lSPAD does not start.
AttemptFails ==
    /\ Main("try") /\ attempt' = attempt + 1 /\ phase' = "running" /\ Written
    /\ IF MoreAttempts THEN UNCHANGED <<step, failed>>
       ELSE step' = "next" /\ failed' = FailedNow
    /\ UNCHANGED <<proc, redo, todo, cur, measured, disk, env>>

AttemptSucceeds ==
    /\ Main("try") /\ power /\ measured < MaxMeasured
    /\ measured' = measured + 1 /\ attempt' = attempt + 1
    /\ step' = After["first"] /\ phase' = "running" /\ Written
    /\ UNCHANGED <<proc, redo, todo, cur, failed, disk, env>>

\* write_txt and savez_compressed go through a .tmp and a replace.
WriteTxt ==
    /\ Main("txt") /\ txt' = [txt EXCEPT ![cur] = measured] /\ step' = After["txt"]
    /\ UNCHANGED <<proc, redo, todo, cur, attempt, failed, measured, npz, recs, torn, board, env>>

WriteNpz ==
    /\ Main("npz") /\ npz' = [npz EXCEPT ![cur] = measured] /\ step' = After["npz"]
    /\ UNCHANGED <<proc, redo, todo, cur, attempt, failed, measured, txt, recs, torn, board, env>>

AppendRecord ==
    /\ Main("append") /\ recs' = [recs EXCEPT ![cur] = measured] /\ step' = After["append"]
    /\ UNCHANGED <<proc, redo, todo, cur, attempt, failed, measured, txt, npz, torn, board, env>>

\* update, then sync_results: the records file, with retries.
RoundDone ==
    /\ Main("done") /\ step' = "next" /\ phase' = "running" /\ status' = Snapshot
    /\ \E ok, synced \in BOOLEAN :
          /\ mirror_error' = ~synced
          /\ mirror' = [status |-> IF ok THEN status' ELSE mirror.status,
                        recs |-> IF synced THEN recs ELSE mirror.recs]
    /\ UNCHANGED <<proc, redo, todo, cur, attempt, failed, measured, disk, env>>

\* The last update and sync_results, before board.stop().
Finish ==
    /\ Main("next") /\ todo = {} /\ step' = "stop"
    /\ phase' = "complete" /\ status' = Snapshot
    /\ \E ok, synced \in BOOLEAN :
          /\ mirror_error' = ~synced
          /\ mirror' = [status |-> IF ok THEN status' ELSE mirror.status,
                        recs |-> IF synced THEN recs ELSE mirror.recs]
    /\ UNCHANGED <<proc, redo, todo, cur, attempt, failed, measured, disk, env>>

\* board.stop(): one more write, with retries.
StopBoard ==
    /\ Main("stop") /\ proc' = "complete" /\ UNCHANGED phase /\ Written
    /\ UNCHANGED <<loop, measured, disk, env>>

\* The heartbeat.  A records file that is being appended to reads as broken,
\* and that beat is skipped.
Beat ==
    /\ proc = "running" /\ UNCHANGED phase /\ Written
    /\ UNCHANGED <<proc, loop, measured, disk, env>>

\* The process dies; inside the append it may leave half a line.
Crash ==
    /\ proc = "running" /\ crashes < MaxCrashes /\ crashes' = crashes + 1 /\ proc' = "down"
    /\ \/ UNCHANGED torn
       \/ step = "append" /\ torn' = TRUE
    /\ UNCHANGED <<loop, measured, txt, npz, recs, board, power, cuts>>

PowerCut ==
    /\ power /\ cuts < MaxPower /\ power' = FALSE /\ cuts' = cuts + 1
    /\ UNCHANGED <<proc, loop, measured, disk, board, crashes>>

PowerBack ==
    /\ ~power /\ power' = TRUE
    /\ UNCHANGED <<proc, loop, measured, disk, board, cuts, crashes>>

MainStep ==
    \/ NextRound \/ PowerChecked \/ AttemptFails \/ AttemptSucceeds
    \/ WriteTxt \/ WriteNpz \/ AppendRecord \/ RoundDone \/ Finish \/ StopBoard

Next == \E again \in Redos : Launch(again)
        \/ MainStep \/ WaitForAC \/ Beat \/ Crash \/ PowerCut \/ PowerBack

\* The main thread runs, and somebody runs the command again.
Spec == Init /\ [][Next]_vars /\ WF_vars(MainStep) /\ WF_vars(\E again \in Redos : Launch(again))
-----------------------------------------------------------------------------
Version == 0 .. MaxMeasured
Versions == [Rounds -> Version]
Phases == {"none", "starting", "waiting_power", "running", "complete"}
Status == [phase : Phases, done : SUBSET Rounds]

TypeOK ==
    /\ proc \in {"down", "running", "complete", "nothing", "unreadable"}
    /\ redo \in {"never", "now", "before"}
    /\ step \in {"next", "power", "try", "txt", "npz", "append", "done", "stop"}
    /\ todo \subseteq Rounds /\ failed \subseteq Rounds /\ cur \in Rounds \cup {0}
    /\ attempt \in 0 .. Attempts /\ measured \in Version
    /\ txt \in Versions /\ npz \in Versions /\ recs \in Versions
    /\ phase \in Phases /\ status \in Status
    /\ mirror \in [status : Status, recs : Versions]
    /\ torn \in BOOLEAN /\ mirror_error \in BOOLEAN /\ power \in BOOLEAN
    /\ cuts \in 0 .. MaxPower /\ crashes \in 0 .. MaxCrashes

\* finalize_round: a record's files are on disk, and are the measurement the
\* record describes; only a redo that died after them may have replaced them.
RecordHasItsFiles ==
    \A r \in Recorded :
        /\ txt[r] >= recs[r] /\ npz[r] >= recs[r]
        /\ redo = "never" => txt[r] = recs[r] /\ npz[r] = recs[r]

\* run.py:13: a round that has a record is not measured again, wherever the
\* process died and however often the command is run, unless --redo asks it.
NoRepeat == Main("try") /\ redo # "now" => recs[cur] = 0

\* main: when the sweep says it is complete every round of the plan has its
\* record or stands in the list of the failed ones.
EveryRoundAccounted ==
    proc = "complete" => Rounds = Recorded \cup failed

\* StatusBoard: the last status written tells the end of the sweep and the
\* rounds that are on disk then.
FinalStatusTrue ==
    proc = "complete" => status = [phase |-> "complete", done |-> Recorded]

\* run.py main with its records: through crashes, restarts and redos, a record
\* has the files it describes, no recorded round is measured again unasked,
\* and what the sweep says at its end is what is on disk.
CampaignSound ==
    TypeOK /\ RecordHasItsFiles /\ NoRepeat /\ EveryRoundAccounted /\ FinalStatusTrue

\* run.py:13: running the same command again brings the sweep to its end,
\* unless a death inside the append has left half a line.
Over == proc \in {"complete", "nothing"} \/ torn
Resumes == <>Over
=============================================================================
