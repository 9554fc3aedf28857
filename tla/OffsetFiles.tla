----------------------------- MODULE OffsetFiles -----------------------------
(***************************************************************************)
(* The pixel-offset file of each node: pushed by tools/push_offsets.py,    *)
(* saved and replaced by zeros before a sweep is recorded raw, and put     *)
(* back after it (tools/sweep/nodes.py); a node reads it at the start of   *)
(* an acquisition (load_pixel_offsets_ps of node_backend.py).  The tools   *)
(* run one at a time and may be killed at any step; a file being written   *)
(* is then left empty or short.                                            *)
(*                                                                         *)
(* A file is <<kind, c>>: the calibration c, 0 for all zeros, and whether  *)
(* the file is there, empty, short or whole.                               *)
(***************************************************************************)
EXTENDS Integers, FiniteSets

CONSTANTS LastNode, MaxCalibrations, MaxKills

OffsetAssumption == LastNode \in Nat \ {0} /\ {MaxCalibrations, MaxKills} \subseteq Nat

VARIABLES remote,        \* node -> its file
          backup,        \* node -> node{N}_pixel_offsets_ps.txt
          stamped,       \* node -> the backups that carry a time stamp
          tool,          \* "push", "zero", "restore" or "none"
          at, phase,     \* the node in work: "look", "save", "upload"
          content,       \* what is uploaded
          latest, kills, \* bounds
          aside,         \* ledger: node -> the calibrations a zeroing run took
          half_saved,          \* ledger: node -> those of them the last save of which was cut
          over           \* ledger: node -> those written over before they were saved again

ledgers == <<aside, half_saved, over>>
vars == <<remote, backup, stamped, tool, at, phase, content, latest, kills, ledgers>>

NodeIds == 1 .. LastNode
Zeros == <<"whole", 0>>
NoFile == <<"none", 0>>
-----------------------------------------------------------------------------
\* Mutants of definitions below.
AlwaysFirst(n, c) == TRUE
-----------------------------------------------------------------------------
\* load_pixel_offsets_ps: zeros unless the file is whole.
Loaded(c) == IF c[1] = "whole" THEN c[2] ELSE 0

\* `vals and not any(vals)`
AllZeros(c) == c[1] \in {"short", "whole"} /\ c[2] = 0

\* A second backup of another file gets a time stamp.
FirstBackup(n, c) == backup[n] \in {NoFile, c}

Init ==
    /\ remote = [n \in NodeIds |-> NoFile] /\ backup = [n \in NodeIds |-> NoFile]
    /\ stamped = [n \in NodeIds |-> {}]
    /\ tool = "none" /\ at = 1 /\ phase = "look" /\ content = Zeros
    /\ latest = 0 /\ kills = 0
    /\ aside = [n \in NodeIds |-> {}] /\ half_saved = aside /\ over = aside

Run(t) ==
    /\ tool = "none"
    /\ tool' = t /\ at' = 1 /\ phase' = "look"
    /\ UNCHANGED <<remote, backup, stamped, kills, ledgers>>

\* push_offsets.py of a file that passed validate_offsets_file.
RunPush == latest < MaxCalibrations /\ latest' = latest + 1
           /\ content' = <<"whole", latest + 1>> /\ Run("push")
RunZero == Run("zero") /\ UNCHANGED <<latest, content>>
RunRestore == Run("restore") /\ UNCHANGED <<latest, content>>

IsLast(n) == n = LastNode

NextNode ==
    /\ tool' = IF IsLast(at) THEN "none" ELSE tool
    /\ at' = IF IsLast(at) THEN 1 ELSE at + 1
    /\ phase' = "look"

Goto(p) == phase' = p /\ UNCHANGED <<tool, at>>

\* The calibration in a file, if there is one; whether a backup holds it whole.
Calibration(c) == {Loaded(c)} \ {0}
Backed(n, c) == <<"whole", c>> \in {backup[n]} \cup stamped[n]

\* What the tool finds on the node and in the backup folder.  A restore uploads
\* the first backup as it is, complete or not.
Overwrites ==
    /\ over' = [over EXCEPT ![at] = @ \cup {c \in half_saved[at] : ~Backed(at, c)}]
    /\ UNCHANGED aside

Look ==
    /\ tool # "none" /\ phase = "look"
    /\ CASE tool = "zero" ->
              /\ content' = Zeros /\ UNCHANGED over
              /\ IF AllZeros(remote[at]) THEN NextNode /\ UNCHANGED aside
                 ELSE /\ IF remote[at] = NoFile THEN Goto("upload") ELSE Goto("save")
                      /\ aside' = [aside EXCEPT ![at] = @ \cup Calibration(remote[at])]
         [] tool = "restore" ->
              /\ content' = backup[at]
              /\ IF backup[at] = NoFile THEN NextNode /\ UNCHANGED <<aside, over>>
                 ELSE Goto("upload") /\ Overwrites
         [] tool = "push" -> Goto("upload") /\ Overwrites /\ UNCHANGED content
    /\ UNCHANGED <<remote, backup, stamped, latest, kills, half_saved>>

\* Where the copy c goes: a backup of the same content is written again.
Saved(c) ==
    IF FirstBackup(at, remote[at])
    THEN backup' = [backup EXCEPT ![at] = c] /\ UNCHANGED stamped
    ELSE stamped' = [stamped EXCEPT ![at] = @ \cup {c}] /\ UNCHANGED backup

Save ==
    /\ phase = "save"
    /\ Saved(remote[at])
    /\ half_saved' = [half_saved EXCEPT ![at] = @ \ Calibration(remote[at])]
    /\ Goto("upload")
    /\ UNCHANGED <<remote, content, latest, kills, aside, over>>

\* upload_file and the readback.
Upload ==
    /\ phase = "upload"
    /\ remote' = [remote EXCEPT ![at] = content]
    /\ NextNode
    /\ UNCHANGED <<backup, stamped, content, latest, kills, ledgers>>

Cut(c) == {<<"empty", 0>>, <<"short", c[2]>>}

Killed ==
    /\ tool # "none" /\ kills < MaxKills
    /\ kills' = kills + 1
    /\ tool' = "none" /\ at' = 1 /\ phase' = "look"
    /\ CASE phase = "look" -> UNCHANGED <<remote, backup, stamped, half_saved>>
         [] phase = "save" ->
              /\ \E c \in Cut(remote[at]) : Saved(c)
              /\ half_saved' = [half_saved EXCEPT ![at] = @ \cup Calibration(remote[at])]
              /\ UNCHANGED remote
         [] phase = "upload" ->
              /\ \E c \in Cut(content) : remote' = [remote EXCEPT ![at] = c]
              /\ UNCHANGED <<backup, stamped, half_saved>>
    /\ UNCHANGED <<content, latest, aside, over>>

Next == RunPush \/ RunZero \/ RunRestore \/ Look \/ Save \/ Upload \/ Killed

Spec == Init /\ [][Next]_vars
-----------------------------------------------------------------------------
TypeOK ==
    /\ \A n \in NodeIds : /\ {aside[n], half_saved[n], over[n]} \subseteq SUBSET (1 .. latest)
                         /\ remote[n][2] \in 0 .. latest
    /\ at \in NodeIds /\ kills \in 0 .. MaxKills
    /\ phase = "save" => tool = "zero"

\* A calibration that a zeroing run takes from a node (tools/sweep/nodes.py:302-337)
\* stays whole in the backup folder or on the node, whatever is killed and run
\* again, with one exception: the save was killed (of the first backup, or of one
\* that was whole and is written again, nodes.py:325-328), and before a zeroing
\* run saved it again a restore, which pushes the cut backup unread (349-354), or
\* a push wrote over the node's file.
CalibrationKept ==
    \A n \in NodeIds : \A c \in aside[n] :
        Backed(n, c) \/ remote[n] = <<"whole", c>> \/ c \in over[n]
=============================================================================
