------------------------------ MODULE TModeIngest ------------------------------
(***************************************************************************)
(* The T-mode loop of run() in node_backend.py.  lSPAD writes the records  *)
(* of each chip to rotating files; the loop dispatches a finished file to  *)
(* the thread pool, reassembles the results strictly in file order,        *)
(* shifting each file by the resets counted before it, deletes the file,   *)
(* and ends once lSPAD has answered the T command and every file is in.    *)
(*                                                                         *)
(* A row is a position 1, 2, ... of the stream a chip records; the rows in *)
(* Resets[c] are coarse-counter resets, whose <seq> field counts them      *)
(* modulo Wrap.  File i of a chip holds its rows i * FileRows + 1 and on.  *)
(***************************************************************************)
EXTENDS Integers, Sequences, FiniteSets

CONSTANTS master, slave,   \* the two chips
          Resets,          \* [chip -> its reset rows]
          FileRows,        \* rows in a full file
          MaxRows,         \* bound: rows per chip
          Wrap,            \* COUNTS_PER_RESET: <seq> is a 16-bit register
          MaxInflight      \* TMODE_MAX_INFLIGHT

CHIPS == <<master, slave>>
Chips == {master, slave}

TModeAssumption ==
    /\ master # slave
    /\ Resets \in [Chips -> SUBSET Nat]
    /\ FileRows \in Nat \ {0} /\ MaxRows \in Nat
    /\ Wrap \in Nat \ {0} /\ MaxInflight \in Nat \ {0}

VARIABLES lspad,                \* "acquiring", or "over": replied, failed or gone
          rows,                 \* [chip -> rows written so far]
          removed,              \* [chip -> indices of the deleted files]
          loop_stop,            \* stop_event
          stopping, reply_received,
          loop_pc, turn,        \* the step of the loop and the chip it is at
          size1,                \* the size the dispatch measured
          next_to_check, next_to_reassemble, accumulated_offset,
          pending,              \* [chip -> [index -> result or Running]]
          chip_done,
          loop_bufs             \* [chip -> the chunks appended to bufs, in order]

disk == <<lspad, rows, removed>>
lane == <<next_to_check, next_to_reassemble, accumulated_offset, pending, chip_done, loop_bufs>>
loopvars == <<disk, loop_stop, stopping, reply_received, loop_pc, turn, size1, lane>>

None == -1
Running == [n |-> None, seq0 |-> None, resets |-> None]
chip == CHIPS[turn]

\* What is on disk.
Rows(c, i) == {r \in 1 .. rows[c] : i * FileRows < r /\ r =< (i + 1) * FileRows}
Size(c, i) == Cardinality(Rows(c, i))
Exists(c, i) == Rows(c, i) # {} /\ i \notin removed[c]

\* The hardware's count of the resets in the first r rows.
Epoch(c, r) == Cardinality({s \in Resets[c] : s \in 1 .. r})

total_pending == Cardinality(DOMAIN pending[master]) + Cardinality(DOMAIN pending[slave])
-----------------------------------------------------------------------------
\* Mutants of definitions below.
ShiftedWrapped(c, res) ==
    accumulated_offset' = [accumulated_offset EXCEPT ![c] = (@ + res.resets) % Wrap]
NoMoreFilesUnanswered(c) == ~Exists(c, next_to_check[c]) /\ DOMAIN pending[c] = {}

\* Room for one more dispatched file.
Room == total_pending < MaxInflight

\* lSPAD is past the file about to be dispatched: it opened the next one, or
\* the acquisition is finished.
Ready == Exists(chip, next_to_check[chip] + 1) \/ reply_received

\* The first <seq> of a file follows on the resets counted before it.
Continuous(c, res) == res.seq0 = None \/ res.seq0 = accumulated_offset[c] % Wrap

\* The offset the next file is shifted by.
Shifted(c, res) == accumulated_offset' = [accumulated_offset EXCEPT ![c] = @ + res.resets]

\* No file of the chip is left, and none will come.
NoMoreFiles(c) ==
    /\ ~Exists(c, next_to_check[c]) /\ reply_received
    /\ DOMAIN pending[c] = {}

\* _process_tmode_file: what a worker finds in file i.
Processed(c, i) ==
    LET mine == Rows(c, i) \cap Resets[c]
    IN  [n |-> Size(c, i),
         seq0 |-> IF mine = {} THEN None ELSE Epoch(c, i * FileRows) % Wrap,
         resets |-> Cardinality(mine)]
-----------------------------------------------------------------------------
LoopInit ==
    /\ lspad = "acquiring"
    /\ rows = [c \in Chips |-> 0] /\ removed = [c \in Chips |-> {}]
    /\ loop_stop = FALSE /\ stopping = FALSE /\ reply_received = FALSE
    /\ loop_pc = "poll" /\ turn = 1 /\ size1 = 0
    /\ next_to_check = [c \in Chips |-> 0] /\ next_to_reassemble = [c \in Chips |-> 0]
    /\ accumulated_offset = [c \in Chips |-> 0]
    /\ pending = [c \in Chips |-> <<>>]
    /\ chip_done = [c \in Chips |-> FALSE]
    /\ loop_bufs = [c \in Chips |-> <<>>]

\* lSPAD writes the next row of a chip, opening the next file when one is full.
WriteRow(c) ==
    /\ lspad = "acquiring" /\ rows[c] < MaxRows
    /\ rows' = [rows EXCEPT ![c] = @ + 1]
    /\ UNCHANGED <<lspad, removed, loop_stop, stopping, reply_received, loop_pc, turn,
                   size1, lane>>

\* The duration is over or STOP arrived and every file is closed ('Data
\* saved'), or lSPAD answers ERROR, or its process and socket are gone.
LspadEnds ==
    /\ lspad = "acquiring" /\ lspad' = "over"
    /\ UNCHANGED <<rows, removed, loop_stop, stopping, reply_received, loop_pc, turn,
                   size1, lane>>

RequestStop ==
    /\ ~loop_stop /\ loop_stop' = TRUE
    /\ UNCHANGED <<disk, stopping, reply_received, loop_pc, turn, size1, lane>>

\* The top of the loop: STOP once, and a look at the reply socket.
Poll ==
    /\ loop_pc = "poll"
    /\ stopping' = loop_stop
    /\ reply_received' = (reply_received \/ lspad = "over")
    /\ loop_pc' = "size" /\ turn' = 1
    /\ UNCHANGED <<disk, loop_stop, size1, lane>>

\* Dispatch: the file exists, and its size is taken.
MeasureFile ==
    /\ loop_pc = "size" /\ ~chip_done[chip]
    /\ IF Room /\ Exists(chip, next_to_check[chip])
       THEN size1' = Size(chip, next_to_check[chip]) /\ loop_pc' = "rotated"
       ELSE size1' = size1 /\ loop_pc' = "collect"
    /\ UNCHANGED <<disk, loop_stop, stopping, reply_received, turn, lane>>

\* Only a file lSPAD has left for the next one is considered.
CheckRotated ==
    /\ loop_pc = "rotated"
    /\ loop_pc' = IF Ready THEN "stable" ELSE "collect"
    /\ UNCHANGED <<disk, loop_stop, stopping, reply_received, turn, size1, lane>>

\* After TMODE_POLL_S the size is the same: pool.submit.
Dispatch ==
    LET idx == next_to_check[chip]
    IN  /\ loop_pc = "stable"
        /\ IF Size(chip, idx) = size1
           THEN /\ pending' = [pending EXCEPT ![chip] =
                       [i \in DOMAIN @ \cup {idx} |-> IF i = idx THEN Running ELSE @[i]]]
                /\ next_to_check' = [next_to_check EXCEPT ![chip] = idx + 1]
                /\ loop_pc' = "size"
           ELSE loop_pc' = "collect" /\ UNCHANGED <<pending, next_to_check>>
        /\ UNCHANGED <<disk, loop_stop, stopping, reply_received, turn, size1,
                       next_to_reassemble, accumulated_offset, chip_done, loop_bufs>>

\* A pool thread processes file i, in any order.
Work(c, i) ==
    /\ i \in DOMAIN pending[c] /\ pending[c][i] = Running
    /\ pending' = [pending EXCEPT ![c][i] = Processed(c, i)]
    /\ UNCHANGED <<disk, loop_stop, stopping, reply_received, loop_pc, turn, size1,
                   next_to_check, next_to_reassemble, accumulated_offset, chip_done, loop_bufs>>

\* The next file in order has a result.
Collectable ==
    /\ next_to_reassemble[chip] \in DOMAIN pending[chip]
    /\ pending[chip][next_to_reassemble[chip]] # Running

\* _reassemble_tmode_file: shift and append the file's events, carry the
\* offset on, delete the file (os.remove may fail, with a warning); or raise
\* on an epoch mismatch, which ends the loop.
Reassemble ==
    LET i == next_to_reassemble[chip]
        res == pending[chip][i]
    IN  /\ loop_pc = "collect" /\ Collectable
        /\ pending' = [pending EXCEPT ![chip] = [j \in DOMAIN @ \ {i} |-> @[j]]]
        /\ IF Continuous(chip, res)
           THEN /\ loop_bufs' = [loop_bufs EXCEPT ![chip] =
                       Append(@, [idx |-> i, n |-> res.n, shift |-> accumulated_offset[chip]])]
                /\ Shifted(chip, res)
                /\ next_to_reassemble' = [next_to_reassemble EXCEPT ![chip] = i + 1]
                /\ \/ removed' = [removed EXCEPT ![chip] = @ \cup {i}]
                   \/ UNCHANGED removed
                /\ UNCHANGED loop_pc
           ELSE /\ loop_pc' = "failed"
                /\ UNCHANGED <<loop_bufs, accumulated_offset, next_to_reassemble, removed>>
        /\ UNCHANGED <<lspad, rows, loop_stop, stopping, reply_received, turn, size1,
                       next_to_check, chip_done>>

\* Nothing more to collect: the chip may be done; on to the next chip, the
\* next round, or out of the loop.
NextChip ==
    /\ \/ loop_pc = "size" /\ chip_done[chip] /\ UNCHANGED chip_done
       \/ /\ loop_pc = "collect" /\ ~Collectable
          /\ chip_done' = [chip_done EXCEPT ![chip] = NoMoreFiles(chip)]
    /\ IF turn = 1 THEN loop_pc' = "size" /\ turn' = 2
       ELSE /\ loop_pc' = IF reply_received /\ \A c \in Chips : chip_done'[c] THEN "ended" ELSE "poll"
            /\ UNCHANGED turn
    /\ UNCHANGED <<disk, loop_stop, stopping, reply_received, size1, next_to_check,
                   next_to_reassemble, accumulated_offset, pending, loop_bufs>>

\* run() goes on to its teardown; pool threads still at work are waited for.
LoopOver == loop_pc \in {"ended", "failed"} /\ UNCHANGED loopvars

LoopStep ==
    Poll \/ MeasureFile \/ CheckRotated \/ Dispatch \/ Reassemble \/ NextChip

LoopNext ==
    \/ \E c \in Chips : WriteRow(c) \/ \E i \in DOMAIN pending[c] : Work(c, i)
    \/ LspadEnds \/ RequestStop \/ LoopStep \/ LoopOver

LoopSpec == LoopInit /\ [][LoopNext]_loopvars
AnswersStop == stopping /\ LspadEnds
PoolWorks == \E c \in Chips : \E i \in DOMAIN pending[c] : Work(c, i)
LoopFairSpec ==
    LoopSpec /\ WF_loopvars(LoopStep) /\ WF_loopvars(AnswersStop) /\ WF_loopvars(PoolWorks)
-----------------------------------------------------------------------------
LoopTypeOK ==
    /\ lspad \in {"acquiring", "over"}
    /\ rows \in [Chips -> 0 .. MaxRows] /\ removed \in [Chips -> SUBSET Nat]
    /\ loop_stop \in BOOLEAN /\ stopping \in BOOLEAN /\ reply_received \in BOOLEAN
    /\ loop_pc \in {"poll", "size", "rotated", "stable", "collect", "ended", "failed"}
    /\ turn \in {1, 2} /\ size1 \in 0 .. FileRows
    /\ next_to_check \in [Chips -> Nat] /\ next_to_reassemble \in [Chips -> Nat]
    /\ accumulated_offset \in [Chips -> Nat]
    /\ \A c \in Chips :
          /\ loop_pc # "failed" => DOMAIN pending[c] = next_to_reassemble[c] .. next_to_check[c] - 1
          /\ Len(loop_bufs[c]) = next_to_reassemble[c]
    /\ chip_done \in [Chips -> BOOLEAN]
    /\ total_pending =< MaxInflight

\* Whatever order the pool finished in, the events of every file are appended
\* in file order, and shifted by the resets of all the files before it, also
\* past the wrap of <seq>.
ShiftsTrue ==
    \A c \in Chips : \A k \in 1 .. Len(loop_bufs[c]) :
        /\ loop_bufs[c][k].idx = k - 1
        /\ loop_bufs[c][k].shift = Epoch(c, (k - 1) * FileRows)

\* A complete stream is never refused: the mismatch check has no false alarm.
NoFalseMismatch == loop_pc # "failed"

\* _reassemble_tmode_file: whatever order the pool finishes in, the files are
\* appended in order, shifted by all the resets before them past the wrap of
\* <seq>; and a complete stream is never refused.
EpochsTrue == LoopTypeOK /\ ShiftsTrue /\ NoFalseMismatch

\* A file is deleted only once all it will ever contain has been read.
DeletedOnlyIfRead ==
    \A c \in Chips : \A i \in removed[c] :
        i < Len(loop_bufs[c]) /\ loop_bufs[c][i + 1].n = Size(c, i)

\* The loop does not end before everything lSPAD wrote has been read.
EndedComplete ==
    loop_pc = "ended" =>
        \A c \in Chips : \A r \in 1 .. rows[c] :
            \E k \in 1 .. Len(loop_bufs[c]) :
                r \in Rows(c, k - 1) /\ loop_bufs[c][k].n = Size(c, k - 1)

\* The T-mode loop: a file is deleted only once all it will contain has been
\* read, and the loop does not end before everything has been.
FilesReadWhole == DeletedOnlyIfRead /\ EndedComplete

\* Once stopped, or once lSPAD is finished or gone, the loop ends.
Finishing == loop_stop \/ lspad = "over"
Finished == loop_pc \in {"ended", "failed"}
LoopEnds == Finishing ~> Finished
=============================================================================
