---------------------------- MODULE RecordSweep ----------------------------
(***************************************************************************)
(* Record-and-analyse campaigns, one after the other: run_masks.py runs    *)
(* record.py once per mask.  A round is measured with the receiver writing *)
(* raw stamps, its directories are moved to the round's folder, it is      *)
(* checked, analysed by a process of its own, recorded, and its raw stamps *)
(* are deleted.  A death of the processes leaves what is on disk at that   *)
(* step; the same command, run again, goes by what it finds there.         *)
(***************************************************************************)
EXTENDS Integers, Sequences, FiniteSets, FiniteSetsExt

CONSTANTS Nodes,
          Plan,       \* the campaigns: a sequence of disjoint sets of rounds
          Attempts,   \* ATTEMPTS
          MaxFaults,  \* bound: faults of nodes, files and the analysis
          MaxCrashes  \* bound: deaths of the processes

PlannedRounds == UNION {Plan[c] : c \in DOMAIN Plan}

RecordSweepAssumption ==
    /\ Nodes \subseteq Nat /\ IsFiniteSet(Nodes) /\ Nodes # {}
    /\ Attempts \in Nat \ {0} /\ MaxFaults \in Nat /\ MaxCrashes \in Nat
    /\ Plan \in Seq(SUBSET Nat) /\ \A c \in DOMAIN Plan : IsFiniteSet(Plan[c]) /\ Plan[c] # {}
    /\ \A c, d \in DOMAIN Plan : c # d => Plan[c] \cap Plan[d] = {}

VARIABLES driver,       \* run_masks: "down", "running", "complete", "stopped"
          camp,         \* its mask_index, 0 before the first
          mask_failed,  \* the campaigns that ended with failed rounds
          step,         \* of record.py; "none" when it does not run
          todo, cur, attempt,
          done, failed, \* run_campaign's own
          measured,     \* attempts that acquired: the version of a measurement
          short,        \* the last acquisition was cut short
          moved,        \* the nodes that archive_raw is done with
          recv,         \* [node -> the version in the receiver's directory]
          raw,          \* [round -> [node -> the version in its folder]]
          info,         \* [round -> "none", "torn" or "whole"]: its round.json
          result,       \* [round -> "none", "torn" or "whole"]: result.npz, analysis.json
          record,       \* the rounds in records.jsonl and with saved histograms
          deleted,      \* the rounds whose raw stamps were deleted
          cut,          \* ghost: what ended between result.npz and the record
          refused,      \* ghost: a file of the record was held open and not replaced
          unclean,      \* ghost: the last attempt began in directories not emptied
          reach,        \* the nodes that answer over SSH
          lspad,        \* the nodes on which lSPAD runs
          faults, crashes

drive == <<driver, camp, mask_failed>>
campaign == <<step, todo, cur, attempt, done, failed>>
notes == <<cut, refused, unclean>>
disk == <<recv, raw, info, result, record, deleted, notes>>
nodes == <<reach, lspad>>
meas == <<measured, short, moved>>
vars == <<drive, campaign, meas, disk, nodes, faults, crashes>>

Nothing == [n \in Nodes |-> 0]
HasResult(r) == result[r] # "none"
Fault == faults < MaxFaults /\ faults' = faults + 1

\* rmtree(ignore_errors=True): what it could not remove, of K, stays.
Kept(f, K) == [n \in Nodes |-> IF n \in K THEN f[n] ELSE 0]
-----------------------------------------------------------------------------
\* A mutant of a definition below.
FreesChecked(r) == info[r] = "whole" /\ raw[r] # Nothing

\* `have_raw`: node1's directory and round.json are there.
HaveRaw(r) == raw[r][Min(Nodes)] # 0 /\ info[r] # "none"

\* `done`: the rounds with a result.npz
Done(c) == {r \in Plan[c] : HasResult(r)}

\* enforce_disk_budget, --keep-raw none: what has a result loses its raw.
Deletable(r) == HasResult(r) /\ raw[r][Min(Nodes)] # 0

FailedNow == failed \cup {cur}

\* for attempt in range(1, ATTEMPTS + 1)
MoreAttempts == attempt < Attempts

\* shutdown_lspad_each: every node that answers, whatever the others do.
StillOpen == lspad \ reach
-----------------------------------------------------------------------------
Init ==
    /\ driver = "down" /\ camp = 0 /\ mask_failed = {}
    /\ step = "none" /\ todo = {} /\ cur = 0 /\ attempt = 0 /\ done = {} /\ failed = {}
    /\ measured = 0 /\ short = FALSE /\ moved = {} /\ recv = Nothing
    /\ raw = [r \in PlannedRounds |-> Nothing] /\ info = [r \in PlannedRounds |-> "none"]
    /\ result = [r \in PlannedRounds |-> "none"] /\ record = {} /\ deleted = {}
    /\ cut = {} /\ refused = {} /\ unclean = {}
    /\ reach = Nodes /\ lspad = {} /\ faults = 0 /\ crashes = 0

\* The command is run, or run again: the next campaign with a round that has no
\* result.
Drive ==
    /\ driver \in {"down", "complete"} /\ driver' = "running" /\ camp' = 0 /\ mask_failed' = {}
    /\ UNCHANGED <<campaign, meas, disk, nodes, faults, crashes>>

Left == {c \in (camp + 1) .. Len(Plan) : Done(c) # Plan[c]}

\* record.py: main, preflight.  It refuses when the receiver's directories
\* hold raw data or a node does not answer; run_masks stops on that.
RunCampaign ==
    /\ driver = "running" /\ step = "none" /\ Left # {} /\ camp' = Min(Left)
    /\ IF recv # Nothing \/ reach # Nodes
       THEN driver' = "stopped" /\ lspad' = StillOpen /\ UNCHANGED campaign
       ELSE /\ step' = "round" /\ todo' = Plan[camp'] /\ done' = Done(camp') /\ failed' = {}
            /\ cur' = 0 /\ attempt' = 0 /\ UNCHANGED <<driver, lspad>>
    /\ UNCHANGED <<mask_failed, meas, disk, reach, faults, crashes>>

AllMasksDone ==
    /\ driver = "running" /\ step = "none" /\ Left = {}
    /\ driver' = "complete" /\ lspad' = StillOpen
    /\ UNCHANGED <<camp, mask_failed, campaign, meas, disk, reach, faults, crashes>>

At(s) == driver = "running" /\ step = s
Goto(s) == step' = s /\ UNCHANGED <<todo, cur, attempt, done, failed>>

\* The next round: measured again only without raw data and its round.json.
Unreadable(r) == r \notin done /\ HaveRaw(r) /\ info[r] = "torn"

NextRound ==
    /\ At("round") /\ todo # {} /\ cur' = Min(todo) /\ todo' = todo \ {cur'} /\ attempt' = 0
    /\ ~Unreadable(cur')
    /\ step' = IF cur' \in done THEN "round" ELSE IF HaveRaw(cur') THEN "analyze" ELSE "clear"
    /\ UNCHANGED <<drive, done, failed, meas, disk, nodes, faults, crashes>>

\* record.py ends with exit 1, for run_masks one more campaign with failed rounds.
Dies ==
    /\ Goto("none") /\ lspad' = StillOpen /\ mask_failed' = mask_failed \cup {camp}
    /\ UNCHANGED <<driver, camp, reach>>

\* A round.json that a death left torn: json.load raises, run after run.
RoundUnreadable ==
    /\ At("round") /\ todo # {} /\ Unreadable(Min(todo)) /\ Dies
    /\ UNCHANGED <<meas, disk, faults, crashes>>

\* An attempt: the directories are emptied, then bring_up.
Clear ==
    /\ At("clear") /\ attempt' = attempt + 1 /\ step' = "up"
    /\ \E K \in SUBSET Nodes : recv' = Kept(recv, K)
    /\ unclean' = IF recv' = Nothing THEN unclean \ {cur} ELSE unclean \cup {cur}
    /\ UNCHANGED <<drive, todo, cur, done, failed, meas, raw, info, result, record,
                   deleted, cut, refused, nodes, faults, crashes>>

BringUp ==
    /\ At("up") /\ reach = Nodes /\ lspad' = Nodes /\ Goto("acquire")
    /\ UNCHANGED <<drive, meas, disk, reach, faults, crashes>>

\* acquire: the receiver writes on both nodes until both sessions are done;
\* a session cut short, or one that wrote nothing, is for check_round to see.
Wrote(W) == [n \in Nodes |-> IF n \in W THEN measured' ELSE recv[n]]

Acquire ==
    /\ At("acquire") /\ reach = Nodes /\ measured' = measured + 1 /\ moved' = {}
    /\ Goto("archive")
    /\ \/ recv' = Wrote(Nodes) /\ short' = FALSE /\ UNCHANGED faults
       \/ \E W \in SUBSET Nodes : recv' = Wrote(W) /\ short' \in BOOLEAN /\ Fault
    /\ UNCHANGED <<drive, raw, info, result, record, deleted, notes, nodes, crashes>>

\* archive_raw, a node at a time.
Archive ==
    /\ At("archive") /\ moved # Nodes
    /\ LET n == Min(Nodes \ moved)
       IN  /\ moved' = moved \cup {n} /\ raw' = [raw EXCEPT ![cur][n] = recv[n]]
           /\ recv' = [recv EXCEPT ![n] = 0]
    /\ UNCHANGED <<drive, campaign, measured, short, info, result, record, deleted, notes, nodes,
                   faults, crashes>>

\* check_round, then round.json.
Fine == ~short /\ \A n \in Nodes : raw[cur][n] # 0

Check ==
    /\ At("archive") /\ moved = Nodes /\ Fine
    /\ info' = [info EXCEPT ![cur] = "whole"] /\ Goto("analyze")
    /\ UNCHANGED <<drive, meas, recv, raw, result, record, deleted, notes, nodes, faults,
                   crashes>>

\* An attempt fails: an exception at any of its steps, a round that check_round
\* refuses.  Its raw data is removed from the round's folder; a node that does
\* not answer ends the campaign (exit 3), and run_masks stops.
AttemptFails(got) ==
    /\ \E K \in SUBSET Nodes : raw' = [raw EXCEPT ![cur] = Kept(@, K)]
    /\ recv' = got
    /\ IF reach # Nodes
       THEN driver' = "stopped" /\ Goto("none") /\ lspad' = StillOpen
       ELSE /\ IF MoreAttempts THEN Goto("clear")
               ELSE /\ step' = "round" /\ failed' = FailedNow
                    /\ UNCHANGED <<todo, cur, attempt, done>>
            /\ UNCHANGED <<driver, lspad>>
    /\ UNCHANGED <<camp, mask_failed, result, record, deleted, notes, reach, crashes>>

UpFails ==
    /\ At("up") /\ AttemptFails(recv) /\ UNCHANGED <<meas, info>>
    /\ \/ Fault
       \/ reach # Nodes /\ UNCHANGED faults

\* An error of a node, no data for stall_s, no end within drain_timeout_s:
\* whatever the receiver has written until then stays in its directories.
AcquireFails ==
    /\ At("acquire") /\ measured' = measured + 1 /\ UNCHANGED <<short, moved, info>>
    /\ \E W \in SUBSET Nodes : AttemptFails(Wrote(W))
    /\ \/ Fault
       \/ reach # Nodes /\ UNCHANGED faults

ArchiveFails ==
    /\ At("archive") /\ Fault /\ AttemptFails(recv) /\ UNCHANGED <<meas, info>>

CheckFails ==
    /\ At("archive") /\ moved = Nodes /\ ~Fine /\ AttemptFails(recv)
    /\ UNCHANGED <<meas, info, faults>>

\* json.dump raises, or dies, in the middle of round.json.
Half == info' = [info EXCEPT ![cur] = "torn"]

InfoFails ==
    /\ At("archive") /\ moved = Nodes /\ Fine /\ Fault /\ AttemptFails(recv) /\ Half
    /\ UNCHANGED meas

\* analyze: a process writes result.npz, then analysis.json.
Analyze ==
    /\ At("analyze") /\ result' = [result EXCEPT ![cur] = "torn"] /\ Goto("written")
    /\ UNCHANGED <<drive, meas, recv, raw, info, record, deleted, notes, nodes, faults,
                   crashes>>

AnalysisEnds ==
    /\ At("written") /\ result' = [result EXCEPT ![cur] = "whole"] /\ Goto("record")
    /\ UNCHANGED <<drive, meas, recv, raw, info, record, deleted, notes, nodes, faults,
                   crashes>>

\* It may fail with result.npz written already.
AnalysisFails ==
    /\ At("analyze") \/ At("written")
    /\ Fault /\ step' = "round" /\ failed' = FailedNow
    /\ cut' = IF step = "written" THEN cut \cup {cur} ELSE cut
    /\ UNCHANGED <<drive, todo, cur, attempt, done, meas, recv, raw, info, result,
                   record, deleted, refused, unclean, nodes, crashes>>

\* save_histograms and append_record: safe_replace gives up on a file that is
\* held open for 5 s, and nobody looks at what it returns.  Figures are never a
\* reason to stop.
Record ==
    /\ At("record") /\ done' = done \cup {cur} /\ step' = "budget"
    /\ \/ record' = record \cup {cur} /\ UNCHANGED <<refused, faults>>
       \/ Fault /\ refused' = refused \cup {cur} /\ UNCHANGED record
    /\ UNCHANGED <<drive, todo, cur, attempt, failed, meas, recv, raw, info, result,
                   deleted, cut, unclean, nodes, crashes>>

\* An exception of round_record, save_histograms or append_record.
RecordFails ==
    /\ At("record") /\ Fault /\ Dies /\ cut' = cut \cup {cur}
    /\ UNCHANGED <<meas, recv, raw, info, result, record, deleted, refused, unclean, crashes>>

\* enforce_disk_budget(keep_from=i+1)
Budget ==
    /\ At("budget") /\ Goto("round")
    /\ LET D == {r \in Plan[camp] : r <= cur /\ Deletable(r)}
           Without(K) == [r \in PlannedRounds |-> IF r \in D THEN Kept(raw[r], K) ELSE raw[r]]
       IN  /\ \/ raw' = Without({}) /\ UNCHANGED faults
              \/ Fault /\ \E K \in SUBSET Nodes : raw' = Without(K)
           /\ deleted' = deleted \cup D
    /\ UNCHANGED <<drive, meas, recv, info, result, record, notes, nodes, crashes>>

\* record.py ends: hw.close(), and run_masks notes how.
CampaignEnds ==
    /\ At("round") /\ todo = {} /\ Goto("none") /\ lspad' = StillOpen
    /\ mask_failed' = IF failed = {} THEN mask_failed ELSE mask_failed \cup {camp}
    /\ UNCHANGED <<driver, camp, meas, disk, reach, faults, crashes>>

\* Everything dies, in the middle of an acquisition too.
Crash ==
    /\ driver = "running" /\ crashes < MaxCrashes /\ crashes' = crashes + 1
    /\ driver' = "down" /\ Goto("none")
    /\ IF step = "acquire"
       THEN measured' = measured + 1 /\ \E W \in SUBSET Nodes : recv' = Wrote(W)
       ELSE UNCHANGED <<measured, recv>>
    /\ cut' = IF step \in {"written", "record"} THEN cut \cup {cur} ELSE cut
    /\ \/ UNCHANGED info
       \/ step = "archive" /\ moved = Nodes /\ Fine /\ Half
    /\ UNCHANGED <<camp, mask_failed, short, moved, raw, result, record, deleted, refused,
                   unclean, nodes, faults>>

NodeGone(n) ==
    /\ n \in reach /\ Fault /\ reach' = reach \ {n}
    /\ UNCHANGED <<drive, campaign, meas, disk, lspad, crashes>>

\* The user: a node is brought back, leftover data is moved away (preflight
\* asks for it), the command is run again.
UserHelps ==
    /\ driver = "stopped" /\ driver' = "down" /\ reach' = Nodes /\ recv' = Nothing
    /\ UNCHANGED <<camp, mask_failed, campaign, meas, raw, info, result, record,
                   deleted, notes, lspad, faults, crashes>>

Attempt ==
    \/ Clear \/ BringUp \/ Acquire \/ Archive \/ Check
    \/ UpFails \/ AcquireFails \/ ArchiveFails \/ CheckFails \/ InfoFails
Results == Analyze \/ AnalysisEnds \/ AnalysisFails \/ Record \/ RecordFails \/ Budget

Program ==
    \/ Drive \/ RunCampaign \/ AllMasksDone \/ NextRound \/ RoundUnreadable \/ Attempt
    \/ Results \/ CampaignEnds

Next == Program \/ UserHelps \/ Crash \/ \E n \in Nodes : NodeGone(n)

Spec == Init /\ [][Next]_vars
-----------------------------------------------------------------------------
TypeOK ==
    /\ driver \in {"down", "running", "complete", "stopped"} /\ camp \in 0 .. Len(Plan)
    /\ step \in {"none", "round", "clear", "up", "acquire", "archive", "analyze",
                 "written", "record", "budget"}
    /\ mask_failed \subseteq DOMAIN Plan
    /\ {todo, done, failed, record, deleted, cut, refused, unclean} \subseteq SUBSET PlannedRounds
    /\ cur \in PlannedRounds \cup {0} /\ attempt \in 0 .. Attempts /\ measured \in Nat
    /\ recv \in [Nodes -> 0 .. measured] /\ raw \in [PlannedRounds -> [Nodes -> 0 .. measured]]
    /\ {info, result} \subseteq [PlannedRounds -> {"none", "torn", "whole"}]
    /\ reach \subseteq Nodes /\ {lspad, moved} \subseteq SUBSET Nodes /\ short \in BOOLEAN
    /\ faults \in 0 .. MaxFaults /\ crashes \in 0 .. MaxCrashes

\* run_campaign: what is analysed is one acquisition of both nodes, moved
\* whole and checked, wherever earlier attempts and processes stopped; unless
\* its attempt began in a directory that could not be emptied (record.py:681).
AnalysedWhole ==
    At("analyze") => /\ raw[cur] # Nothing /\ info[cur] = "whole"
                     /\ cur \notin unclean => \A n, m \in Nodes : raw[cur][n] = raw[cur][m]

\* run_campaign: an attempt never archives what an earlier one left in the
\* receiver's directories, where these could be emptied.
ArchivedIsThisAttempt ==
    At("archive") /\ cur \notin unclean => \A n \in Nodes : recv[n] \in {0, measured}

\* record.py:26-28: raw stamps go only when their round has its result.
RawKeptUntilResult ==
    \A r \in PlannedRounds : info[r] = "whole" /\ ~HasResult(r) => raw[r] # Nothing

\* record.py:26-28: a round whose raw stamps are deleted is in records.jsonl and
\* its histograms are saved, with two exceptions: record.py or its analysis ended
\* between result.npz and the record (killed, or an exception), or a file was
\* held open and the replacement given up (138-148, 596, 615), and then
\* result.npz and analysis.json are there complete.
DeletedSavedOrCut ==
    \A r \in deleted : \/ r \in record \cup cut
                       \/ r \in refused /\ result[r] = "whole"

\* run_masks: at the end every round has a result or its campaign is listed
\* as failed.
EveryRoundAccounted ==
    driver = "complete" => \A c \in DOMAIN Plan : Done(c) = Plan[c] \/ c \in mask_failed

\* hw.close() and the last clause of run_masks: however it stops, lSPAD is
\* closed on every node that still answered.
LspadClosed == driver \in {"complete", "stopped"} => lspad \cap reach = {}

\* record.py and run_masks.py: what is analysed is one whole acquisition of
\* this attempt, unless a directory could not be emptied before it; raw stamps go
\* only of rounds that have a result, and a record beside it unless record.py or its
\* analysis ended between the two or a file was held open; every round is
\* accounted for at the end, and lSPAD is closed however the sweep stops.
RecorderSound ==
    /\ TypeOK
    /\ AnalysedWhole /\ ArchivedIsThisAttempt /\ RawKeptUntilResult /\ DeletedSavedOrCut
    /\ EveryRoundAccounted /\ LspadClosed
=============================================================================
