--------------------------- MODULE Sweep_proofs ---------------------------
(***************************************************************************)
(* What is proved of the programs of a sweep, each for all values of its   *)
(* constants: the campaign, the pixel offsets it puts aside, the daily     *)
(* publication, the recorded sweep and a round of the live one.  They are  *)
(* proved one by one, since what passes between them is a file or a        *)
(* result; then each is found in their sum (SweepPrograms).                *)
(***************************************************************************)
EXTENDS SweepPrograms, FiniteSetTheorems, WellFoundedInduction, TLAPS

-----------------------------------------------------------------------------
(***************************************************************************)
(* The campaign, for every plan, number of attempts, crash and power cut:  *)
(* what a record promises is on disk, no round is measured again unasked,  *)
(* and the end of the sweep is told truly.                                 *)
(***************************************************************************)
Running == proc = "running"
AtWork == step \in {"power", "try", "txt", "npz", "append"}

\* What the steps of a round know of the result they are about to file.
Measured ==
    /\ step \in {"txt", "npz", "append", "done"} => measured > 0
    /\ Running /\ step \notin {"next", "stop"} => cur \in Rounds
    /\ Running /\ step \in {"power", "try"} => attempt < Attempts
    /\ Running /\ step \in {"npz", "append"} => txt[cur] = measured
    /\ Running /\ step = "append" => npz[cur] = measured

\* No file on disk is older than the record, or newer than the last result.
NewerFiles ==
    \A r \in Rounds : /\ recs[r] =< txt[r] /\ recs[r] =< npz[r]
                      /\ txt[r] =< measured /\ npz[r] =< measured

\* Unless it is a redo, the run has no recorded round before it.
NotSelected ==
    Running /\ redo # "now" =>
        /\ todo \cap Recorded = {}
        /\ AtWork => recs[cur] = 0

Untouched ==
    redo = "never" => \A r \in Recorded : txt[r] = recs[r] /\ npz[r] = recs[r]

\* Every round is recorded, failed, to come or in hand.
InHand ==
    Running =>
        /\ Rounds = Recorded \cup failed \cup todo \cup (IF AtWork THEN {cur} ELSE {})
        /\ step \notin {"next", "stop"} => cur \notin todo
        /\ step = "stop" => /\ todo = {}
                            /\ phase = "complete"
                            /\ status = [phase |-> "complete", done |-> Recorded]

IInv == /\ TypeOK /\ Measured /\ NewerFiles /\ NotSelected /\ Untouched /\ InHand
        /\ EveryRoundAccounted /\ FinalStatusTrue
-----------------------------------------------------------------------------
LEMMA InitInv == Init => IInv
  <1> SUFFICES ASSUME Init PROVE IInv
    OBVIOUS
  <1>1. NoneYet \in Versions
    BY SweepCampaignAssumption DEF NoneYet, Versions, Version
  <1>2. TypeOK
    <2>1. status \in Status
      BY DEF Init, Phases, Status
    <2>2. mirror \in [status : Status, recs : Versions]
      BY <1>1, <2>1 DEF Init
    <2>3. attempt \in 0 .. Attempts /\ measured \in Version /\ cuts \in 0 .. MaxPower
          /\ crashes \in 0 .. MaxCrashes
      BY SweepCampaignAssumption DEF Init, Version
    <2>4. torn \in BOOLEAN /\ mirror_error \in BOOLEAN /\ power \in BOOLEAN
      BY DEF Init
    <2> QED
      BY <1>1, <2>1, <2>2, <2>3, <2>4 DEF Init, TypeOK, Phases
  <1>3. Recorded = {}
    BY DEF Init, Recorded, NoneYet
  <1> QED
    BY <1>2, <1>3 DEF Init, IInv, Measured, NewerFiles, NotSelected, Untouched, InHand,
        Running, AtWork, NoneYet, EveryRoundAccounted, FinalStatusTrue

\* Writing the status board, the records untouched.
LEMMA WrittenType ==
    ASSUME TypeOK, phase' \in Phases, Written
    PROVE  /\ status' = [phase |-> phase', done |-> Recorded] /\ status' \in Status
           /\ mirror' \in [status : Status, recs : Versions] /\ mirror_error' \in BOOLEAN
  <1>1. status' = [phase |-> phase', done |-> Recorded]
    BY DEF Written, Snapshot
  <1>2. status' \in Status
    BY <1>1 DEF Status, Recorded
  <1>3. PICK ok \in BOOLEAN : MirrorStatus(ok)
    BY DEF Written
  <1> QED
    BY <1>1, <1>2, <1>3 DEF MirrorStatus, TypeOK

\* The records, the files and the loop stay as they are.
LEMMA StillInv ==
    ASSUME IInv, TypeOK', UNCHANGED <<loop, measured, txt, npz, recs>>,
           proc' = "running" => proc = "running",
           proc' = "complete" => /\ proc # "running" => proc = "complete"
                                 /\ proc = "running" => step = "stop",
           step = "stop" => /\ phase' = phase
                            /\ \/ status' = status
                               \/ status' = [phase |-> phase', done |-> Recorded],
           proc = "complete" => status' = status
    PROVE  IInv'
  <1> USE DEF IInv, loop, Running, AtWork
  <1>1. Recorded' = Recorded
    BY DEF Recorded
  <1>2. Measured'
    BY DEF Measured
  <1>3. NewerFiles' /\ Untouched'
    BY <1>1 DEF NewerFiles, Untouched
  <1>4. NotSelected'
    BY <1>1 DEF NotSelected
  <1>5. InHand'
    BY <1>1 DEF InHand
  <1>6. EveryRoundAccounted'
    BY <1>1 DEF EveryRoundAccounted, InHand
  <1>7. FinalStatusTrue'
    BY <1>1 DEF FinalStatusTrue, InHand
  <1> QED
    BY <1>2, <1>3, <1>4, <1>5, <1>6, <1>7

LEMMA LaunchInv == ASSUME IInv, NEW redoing \in Redos, Launch(redoing) PROVE IInv'
  <1>1. proc = "down" /\ UNCHANGED <<measured, txt, npz, recs, torn, power, cuts, crashes>>
    BY DEF Launch, disk, env
  <1>2. Recorded' = Recorded
    BY <1>1 DEF Recorded
  <1>3. CASE proc' # "running"
    <2>1. UNCHANGED <<loop, board>> /\ proc' \in {"nothing", "unreadable"}
      BY <1>3 DEF Launch
    <2>2. TypeOK'
      BY <1>1, <2>1 DEF IInv, TypeOK, loop, board
    <2> QED
      BY <1>1, <2>1, <2>2, StillInv DEF board
  <1>4. CASE proc' = "running"
    <2>1. /\ redo' = IF redoing THEN "now" ELSE IF redo = "never" THEN redo ELSE "before"
          /\ todo' = Selected(redoing) /\ failed' = {} /\ step' = "next"
          /\ attempt' = 0 /\ cur' = 0 /\ phase' = "starting" /\ Written
      BY <1>4 DEF Launch
    <2>2. todo' \subseteq Rounds /\ Rounds = Recorded \cup todo'
      BY <2>1 DEF Selected, Recorded
    <2>3. TypeOK'
      BY <1>1, <1>4, <2>1, <2>2, WrittenType, SweepCampaignAssumption
         DEF IInv, TypeOK, Phases
    <2>4. Measured' /\ NewerFiles'
      BY <1>1, <2>1 DEF IInv, Measured, NewerFiles
    <2>5. NotSelected'
      BY <1>2, <2>1 DEF NotSelected, AtWork, Selected
    <2>6. Untouched'
      BY <1>1, <1>2, <2>1 DEF IInv, Untouched
    <2>7. InHand'
      BY <1>2, <2>1, <2>2 DEF InHand, AtWork
    <2> QED
      BY <1>4, <2>3, <2>4, <2>5, <2>6, <2>7 DEF IInv, EveryRoundAccounted, FinalStatusTrue
  <1> QED
    BY <1>3, <1>4

\* The plan's rounds are numbers, so one that is left to do is the first.
LEMMA OldestRound ==
    ASSUME NEW S \in SUBSET Nat, S # {}
    PROVE  \E t \in S : \A u \in S : t =< u
  <1>1. PICK t \in S : \A u \in S : ~(<<u, t>> \in OpToRel(<, Nat))
    BY WFMin, NatLessThanWellFounded
  <1>2. ASSUME NEW u \in S PROVE t =< u
    <2>1. <<u, t>> \in Nat \X Nat /\ u \in Nat /\ t \in Nat
      OBVIOUS
    <2>2. ~(u < t)
      BY <1>1, <2>1, Zenon DEF OpToRel
    <2> QED
      BY <2>1, <2>2
  <1> QED
    BY <1>2

LEMMA NextRoundInv == ASSUME IInv, NextRound PROVE IInv'
  <1>1. /\ proc = "running" /\ step = "next" /\ todo # {}
        /\ attempt' = 0 /\ step' = "power" /\ todo' = todo \ {cur'} /\ phase' = phase /\ Written
        /\ UNCHANGED <<proc, redo, failed, measured, txt, npz, recs, torn, power, cuts, crashes>>
    BY DEF NextRound, Main, disk, env
  <1>2. cur' \in todo
    <2>1. \E t \in todo : \A u \in todo : t =< u
      BY <1>1, OldestRound, SweepCampaignAssumption DEF IInv, TypeOK
    <2>2. cur' = CHOOSE t \in todo : \A u \in todo : t =< u
      BY DEF NextRound, Min
    <2> QED
      BY <2>1, <2>2
  <1>3. Recorded' = Recorded
    BY <1>1 DEF Recorded
  <1>4. TypeOK'
    BY <1>1, <1>2, WrittenType, SweepCampaignAssumption DEF IInv, TypeOK
  <1>5. Measured' /\ NewerFiles'
    BY <1>1, <1>2, SweepCampaignAssumption DEF IInv, TypeOK, Measured, NewerFiles, Running
  <1>6. NotSelected' /\ Untouched'
    BY <1>1, <1>2, <1>3 DEF IInv, TypeOK, NotSelected, Untouched, Recorded, Running, AtWork
  <1>7. InHand'
    BY <1>1, <1>2, <1>3 DEF IInv, InHand, Running, AtWork
  <1> QED
    BY <1>1, <1>4, <1>5, <1>6, <1>7 DEF IInv, EveryRoundAccounted, FinalStatusTrue

LEMMA PowerCheckedInv == ASSUME IInv, PowerChecked PROVE IInv'
  <1>1. /\ proc = "running" /\ step = "power" /\ step' = "try"
        /\ UNCHANGED <<proc, redo, todo, cur, attempt, failed, measured, txt, npz, recs, torn,
                       phase, status, mirror, mirror_error, power, cuts, crashes>>
    BY DEF PowerChecked, Main, disk, board, env
  <1>2. Recorded' = Recorded
    BY <1>1 DEF Recorded
  <1>3. TypeOK'
    BY <1>1 DEF IInv, TypeOK
  <1>4. Measured' /\ NewerFiles' /\ NotSelected' /\ Untouched' /\ InHand'
    BY <1>1, <1>2 DEF IInv, Measured, NewerFiles, NotSelected, Untouched, InHand, Running, AtWork
  <1> QED
    BY <1>1, <1>3, <1>4 DEF IInv, EveryRoundAccounted, FinalStatusTrue

LEMMA AttemptFailsInv == ASSUME IInv, AttemptFails PROVE IInv'
  <1>1. /\ proc = "running" /\ step = "try" /\ attempt' = attempt + 1
        /\ phase' = "running" /\ Written
        /\ UNCHANGED <<proc, redo, todo, cur, measured, txt, npz, recs, torn, power, cuts, crashes>>
    BY DEF AttemptFails, Main, disk, env
  <1>2. \/ attempt' < Attempts /\ UNCHANGED <<step, failed>>
        \/ step' = "next" /\ failed' = failed \cup {cur}
    BY DEF AttemptFails, MoreAttempts, FailedNow
  <1>3. Recorded' = Recorded
    BY <1>1 DEF Recorded
  <1>4. attempt' \in 0 .. Attempts /\ cur \in Rounds
    BY <1>1, SweepCampaignAssumption DEF IInv, TypeOK, Measured, Running
  <1>5. TypeOK'
    BY <1>1, <1>2, <1>4, WrittenType DEF IInv, TypeOK, Phases
  <1>6. Measured' /\ NewerFiles'
    BY <1>1, <1>2 DEF IInv, Measured, NewerFiles, Running
  <1>7. NotSelected' /\ Untouched'
    BY <1>1, <1>2, <1>3 DEF IInv, NotSelected, Untouched, Running, AtWork
  <1>8. InHand'
    BY <1>1, <1>2, <1>3 DEF IInv, InHand, Running, AtWork
  <1> QED
    BY <1>1, <1>5, <1>6, <1>7, <1>8 DEF IInv, EveryRoundAccounted, FinalStatusTrue

LEMMA AttemptSucceedsInv == ASSUME IInv, AttemptSucceeds PROVE IInv'
  <1>1. /\ proc = "running" /\ step = "try" /\ attempt' = attempt + 1 /\ step' = "txt"
        /\ measured' = measured + 1 /\ measured < MaxMeasured
        /\ phase' = "running" /\ Written
        /\ UNCHANGED <<proc, redo, todo, cur, failed, txt, npz, recs, torn, power, cuts, crashes>>
    BY DEF AttemptSucceeds, Main, After, disk, env
  <1>2. Recorded' = Recorded
    BY <1>1 DEF Recorded
  <1>3. attempt' \in 0 .. Attempts /\ measured' \in Version /\ measured' > 0
    BY <1>1, SweepCampaignAssumption DEF IInv, TypeOK, Measured, Running, Version
  <1>4. TypeOK'
    BY <1>1, <1>3, WrittenType DEF IInv, TypeOK, Phases
  <1>5. Measured' /\ NewerFiles'
    BY <1>1, <1>3, SweepCampaignAssumption
       DEF IInv, TypeOK, Versions, Version, Measured, NewerFiles, Running
  <1>6. NotSelected' /\ Untouched' /\ InHand'
    BY <1>1, <1>2 DEF IInv, NotSelected, Untouched, InHand, Running, AtWork
  <1> QED
    BY <1>1, <1>4, <1>5, <1>6 DEF IInv, EveryRoundAccounted, FinalStatusTrue

\* One of the two files is replaced by the new version.
LEMMA WriteFileInv ==
    ASSUME IInv, WriteTxt \/ WriteNpz
    PROVE  IInv'
  <1>1. /\ proc = "running" /\ step \in {"txt", "npz"}
        /\ UNCHANGED <<proc, redo, todo, cur, attempt, failed, measured, recs, torn,
                       phase, status, mirror, mirror_error, power, cuts, crashes>>
    BY DEF WriteTxt, WriteNpz, Main, board, env
  <1>2. \/ /\ step = "txt" /\ step' = "npz"
           /\ txt' = [txt EXCEPT ![cur] = measured] /\ npz' = npz
        \/ /\ step = "npz" /\ step' = "append"
           /\ npz' = [npz EXCEPT ![cur] = measured] /\ txt' = txt
    BY DEF WriteTxt, WriteNpz, Main, After
  <1>3. Recorded' = Recorded
    BY <1>1 DEF Recorded
  <1>4. cur \in Rounds /\ measured \in Version
    BY <1>1 DEF IInv, TypeOK, Measured, Running
  <1>5. TypeOK'
    BY <1>1, <1>2, <1>4 DEF IInv, TypeOK, Versions
  <1>6. Measured'
    BY <1>1, <1>2, <1>4 DEF IInv, TypeOK, Versions, Measured, Running
  <1>7. NewerFiles'
    BY <1>1, <1>2, <1>4, SweepCampaignAssumption
       DEF IInv, TypeOK, Versions, Version, NewerFiles
  <1>8. NotSelected' /\ InHand'
    BY <1>1, <1>2, <1>3 DEF IInv, NotSelected, InHand, Running, AtWork
  <1>9. Untouched'
    BY <1>1, <1>2, <1>3, <1>4
       DEF IInv, TypeOK, Versions, Untouched, NotSelected, Recorded, Running, AtWork
  <1> QED
    BY <1>1, <1>5, <1>6, <1>7, <1>8, <1>9 DEF IInv, EveryRoundAccounted, FinalStatusTrue

LEMMA AppendRecordInv == ASSUME IInv, AppendRecord PROVE IInv'
  <1>1. /\ proc = "running" /\ step = "append" /\ step' = "done"
        /\ recs' = [recs EXCEPT ![cur] = measured]
        /\ UNCHANGED <<proc, redo, todo, cur, attempt, failed, measured, txt, npz, torn,
                       phase, status, mirror, mirror_error, power, cuts, crashes>>
    BY DEF AppendRecord, Main, After, board, env
  <1>2. /\ cur \in Rounds /\ measured \in Version /\ measured > 0
        /\ txt[cur] = measured /\ npz[cur] = measured /\ cur \notin todo
    BY <1>1 DEF IInv, TypeOK, Measured, InHand, Running
  <1>3. recs' \in Versions /\ recs'[cur] = measured
        /\ \A r \in Rounds \ {cur} : recs'[r] = recs[r]
    BY <1>1, <1>2 DEF IInv, TypeOK, Versions
  <1>4. Recorded' = Recorded \cup {cur}
    <2>1. recs'[cur] # 0
      BY <1>2, <1>3, SweepCampaignAssumption DEF Version
    <2> QED
      BY <1>2, <1>3, <2>1 DEF Recorded
  <1>5. TypeOK'
    BY <1>1, <1>3 DEF IInv, TypeOK
  <1>6. Measured' /\ NewerFiles'
    BY <1>1, <1>2, <1>3, SweepCampaignAssumption
       DEF IInv, Measured, NewerFiles, Running, Version
  <1>7. NotSelected'
    BY <1>1, <1>2, <1>4 DEF IInv, NotSelected, Running, AtWork
  <1>8. Untouched'
    BY <1>1, <1>2, <1>3, <1>4 DEF IInv, Untouched, Recorded
  <1>9. InHand'
    BY <1>1, <1>2, <1>4 DEF IInv, InHand, Running, AtWork
  <1> QED
    BY <1>1, <1>5, <1>6, <1>7, <1>8, <1>9 DEF IInv, EveryRoundAccounted, FinalStatusTrue

\* The two updates that also copy the records file.
LEMMA SyncedType ==
    ASSUME TypeOK, phase' \in Phases, status' = Snapshot,
           \E ok, synced \in BOOLEAN :
              /\ mirror_error' = ~synced
              /\ mirror' = [status |-> IF ok THEN status' ELSE mirror.status,
                            recs |-> IF synced THEN recs ELSE mirror.recs]
    PROVE  /\ status' = [phase |-> phase', done |-> Recorded] /\ status' \in Status
           /\ mirror' \in [status : Status, recs : Versions] /\ mirror_error' \in BOOLEAN
  <1>1. status' = [phase |-> phase', done |-> Recorded]
    BY DEF Snapshot
  <1>2. status' \in Status
    BY <1>1 DEF Status, Recorded
  <1> QED
    BY <1>1, <1>2 DEF TypeOK

LEMMA RoundDoneInv == ASSUME IInv, RoundDone PROVE IInv'
  <1>1. /\ proc = "running" /\ step = "done" /\ step' = "next" /\ phase' = "running"
        /\ UNCHANGED <<proc, redo, todo, cur, attempt, failed, measured, txt, npz, recs, torn,
                       power, cuts, crashes>>
    BY DEF RoundDone, Main, disk, env
  <1>2. Recorded' = Recorded
    BY <1>1 DEF Recorded
  <1>3. TypeOK'
    BY <1>1, SyncedType DEF RoundDone, IInv, TypeOK, Phases
  <1>4. Measured' /\ NewerFiles' /\ NotSelected' /\ Untouched' /\ InHand'
    BY <1>1, <1>2 DEF IInv, Measured, NewerFiles, NotSelected, Untouched, InHand, Running, AtWork
  <1> QED
    BY <1>1, <1>3, <1>4 DEF IInv, EveryRoundAccounted, FinalStatusTrue

LEMMA FinishInv == ASSUME IInv, Finish PROVE IInv'
  <1>1. /\ proc = "running" /\ step = "next" /\ todo = {} /\ step' = "stop"
        /\ phase' = "complete"
        /\ UNCHANGED <<proc, redo, todo, cur, attempt, failed, measured, txt, npz, recs, torn,
                       power, cuts, crashes>>
    BY DEF Finish, Main, disk, env
  <1>2. Recorded' = Recorded
    BY <1>1 DEF Recorded
  <1>3. TypeOK' /\ status' = [phase |-> "complete", done |-> Recorded]
    BY <1>1, SyncedType DEF Finish, IInv, TypeOK, Phases
  <1>4. Measured' /\ NewerFiles' /\ NotSelected' /\ Untouched' /\ InHand'
    BY <1>1, <1>2, <1>3
       DEF IInv, Measured, NewerFiles, NotSelected, Untouched, InHand, Running, AtWork
  <1> QED
    BY <1>1, <1>3, <1>4 DEF IInv, EveryRoundAccounted, FinalStatusTrue

\* The writes of the board, the death of the process and the power.
LEMMA OtherInv ==
    ASSUME IInv, StopBoard \/ WaitForAC \/ Beat \/ Crash \/ PowerCut \/ PowerBack
    PROVE  IInv'
  <1>1. CASE StopBoard
    <2>1. /\ proc = "running" /\ step = "stop" /\ proc' = "complete" /\ phase' = phase
          /\ Written /\ UNCHANGED <<loop, measured, disk, env>>
      BY <1>1 DEF StopBoard, Main
    <2>2. TypeOK' /\ status' = [phase |-> phase', done |-> Recorded]
      BY <2>1, WrittenType DEF IInv, TypeOK, loop, disk, env
    <2> QED
      BY <2>1, <2>2, StillInv DEF disk
  <1>2. CASE WaitForAC
    <2>1. /\ proc = "running" /\ step = "power" /\ proc' = proc /\ phase' = "waiting_power"
          /\ Written /\ UNCHANGED <<loop, measured, disk, env>>
      BY <1>2 DEF WaitForAC, Main
    <2>2. TypeOK'
      BY <2>1, WrittenType DEF IInv, TypeOK, loop, disk, env, Phases
    <2> QED
      BY <2>1, <2>2, StillInv DEF disk
  <1>3. CASE Beat
    <2>1. /\ proc = "running" /\ proc' = proc /\ phase' = phase
          /\ Written /\ UNCHANGED <<loop, measured, disk, env>>
      BY <1>3 DEF Beat
    <2>2. TypeOK' /\ status' = [phase |-> phase', done |-> Recorded]
      BY <2>1, WrittenType DEF IInv, TypeOK, loop, disk, env
    <2> QED
      BY <2>1, <2>2, StillInv DEF disk
  <1>4. CASE Crash
    <2>1. /\ proc' = "down" /\ crashes < MaxCrashes /\ crashes' = crashes + 1
          /\ torn' \in BOOLEAN
          /\ UNCHANGED <<loop, measured, txt, npz, recs, board, power, cuts>>
      BY <1>4 DEF Crash, IInv, TypeOK
    <2>2. TypeOK'
      BY <2>1, SweepCampaignAssumption DEF IInv, TypeOK, loop, board
    <2> QED
      BY <2>1, <2>2, StillInv DEF board
  <1>5. CASE PowerCut \/ PowerBack
    <2>1. /\ power' \in BOOLEAN /\ UNCHANGED <<proc, loop, measured, disk, board, crashes>>
          /\ cuts' = cuts \/ (cuts < MaxPower /\ cuts' = cuts + 1)
      BY <1>5 DEF PowerCut, PowerBack
    <2>2. TypeOK'
      BY <2>1, SweepCampaignAssumption DEF IInv, TypeOK, loop, disk, board
    <2> QED
      BY <2>1, <2>2, StillInv DEF board, disk
  <1> QED
    BY <1>1, <1>2, <1>3, <1>4, <1>5

LEMMA NextInv == ASSUME IInv, [Next]_vars PROVE IInv'
  <1>1. CASE UNCHANGED vars
    <2>1. TypeOK' /\ UNCHANGED <<proc, loop, measured, txt, npz, recs, board>>
      BY <1>1 DEF IInv, TypeOK, vars, loop, disk, board, env
    <2> QED
      BY <2>1, StillInv DEF board
  <1>2. CASE MainStep
    BY <1>2, NextRoundInv, PowerCheckedInv, AttemptFailsInv, AttemptSucceedsInv, WriteFileInv,
       AppendRecordInv, RoundDoneInv, FinishInv, OtherInv DEF MainStep
  <1> QED
    BY <1>1, <1>2, LaunchInv, OtherInv DEF Next

LEMMA Invariance == Spec => []IInv
  BY InitInv, NextInv, PTL DEF Spec

\* The inductive invariant is strong enough.
LEMMA Enough == IInv => CampaignSound
  <1> SUFFICES ASSUME IInv PROVE CampaignSound
    OBVIOUS
  <1>1. RecordHasItsFiles
    BY SweepCampaignAssumption
       DEF IInv, TypeOK, Versions, Version, NewerFiles, Untouched, RecordHasItsFiles, Recorded
  <1>2. NoRepeat
    BY DEF IInv, NotSelected, NoRepeat, Main, Running, AtWork
  <1> QED
    BY <1>1, <1>2 DEF IInv, CampaignSound
-----------------------------------------------------------------------------
\* main of run.py with its records, for every plan, number of attempts, crash,
\* restart and redo: types, and all of the four promises below.
THEOREM CampaignIsSound == Spec => []CampaignSound
  BY Invariance, Enough, PTL

\* A record's files are on disk, and are what the record describes.
THEOREM RecordsHaveFiles == Spec => []RecordHasItsFiles
  BY CampaignIsSound, PTL DEF CampaignSound

\* No recorded round is measured again unless --redo asks for it.
THEOREM NothingRepeated == Spec => []NoRepeat
  BY CampaignIsSound, PTL DEF CampaignSound

\* At the end every round is recorded or listed as failed, and the status
\* file says so.
THEOREM EndToldTruly == Spec => [](EveryRoundAccounted /\ FinalStatusTrue)
  BY CampaignIsSound, PTL DEF CampaignSound
-----------------------------------------------------------------------------
(***************************************************************************)
(* The offset files.  What a zeroing run took is backed up, or the save of *)
(* it was cut; a restore and a push find out which when they open the file.*)
(***************************************************************************)
OffsetFile == {"none", "empty", "short", "whole"} \X (0 .. latest)
OffsetLedger == [Offsets!NodeIds -> SUBSET (1 .. latest)]
OffsetTyped ==
    /\ latest \in Nat /\ kills \in 0 .. MaxKills /\ at \in Offsets!NodeIds
    /\ tool \in {"push", "zero", "restore", "none"} /\ tool_phase \in {"look", "save", "upload"}
    /\ remote \in [Offsets!NodeIds -> OffsetFile] /\ backup \in [Offsets!NodeIds -> OffsetFile]
    /\ stamped \in [Offsets!NodeIds -> SUBSET OffsetFile] /\ content \in OffsetFile
    /\ aside \in OffsetLedger /\ half_saved \in OffsetLedger /\ over \in OffsetLedger

ToolAt ==
    /\ tool = "none" => tool_phase = "look"
    /\ tool_phase = "save" => tool = "zero"

Whole(c) == <<"whole", c>>
OffsetKept(n, c) == Offsets!Backed(n, c) \/ remote[n] = Whole(c) \/ c \in over[n]
\* Not in the backups: it is being saved, or the save of it was cut.
OffsetSaving(n, c) ==
    \/ Offsets!Backed(n, c) \/ c \in half_saved[n] \/ c \in over[n]
    \/ tool_phase = "save" /\ n = at /\ remote[n] = Whole(c)
\* About to be written over: zeros only after a save, anything else known as such.
OffsetWriting(n, c) ==
    tool_phase = "upload" /\ n = at =>
        IF tool = "zero" THEN remote[n] = Whole(c) => Offsets!Backed(n, c)
        ELSE Offsets!Backed(n, c) \/ c \in over[n]
OffsetHeld ==
    \A n \in Offsets!NodeIds : \A c \in aside[n] :
        OffsetKept(n, c) /\ OffsetSaving(n, c) /\ OffsetWriting(n, c)
OffsetInv == OffsetTyped /\ ToolAt /\ OffsetHeld

LEMMA OffsetInit == ASSUME Offsets!OffsetAssumption, Offsets!Init PROVE OffsetInv
  <1>1. 1 \in Offsets!NodeIds /\ MaxKills \in Nat
    BY DEF Offsets!OffsetAssumption, Offsets!NodeIds
  <1>2. OffsetTyped /\ ToolAt
    BY <1>1 DEF Offsets!Init, OffsetTyped, OffsetFile, OffsetLedger, ToolAt, Offsets!NoFile, Offsets!Zeros
  <1>3. \A n \in Offsets!NodeIds : aside[n] = {}
    BY DEF Offsets!Init
  <1> QED
    BY <1>2, <1>3 DEF OffsetInv, OffsetHeld

\* A file that holds a calibration is the whole file of it.
LEMMA OffsetCalibration ==
    ASSUME OffsetInv, NEW f \in OffsetFile, NEW c \in Offsets!Calibration(f)
    PROVE  f = Whole(c) /\ c \in 1 .. latest
  <1>1. latest \in Nat /\ f = <<f[1], f[2]>> /\ f[2] \in 0 .. latest
    BY DEF OffsetInv, OffsetTyped, OffsetFile
  <1>2. f[1] = "whole" /\ f[2] = c /\ c # 0
    BY DEF Offsets!Calibration, Offsets!Loaded
  <1> QED
    BY <1>1, <1>2 DEF Whole

\* A newer calibration is no older one's: the files and ledgers stay as they are.
LEMMA OffsetRun ==
    ASSUME Offsets!OffsetAssumption, OffsetInv, Offsets!RunPush \/ Offsets!RunZero \/ Offsets!RunRestore
    PROVE  OffsetInv'
  <1>1. /\ tool = "none" /\ tool' \in {"push", "zero", "restore"} /\ at' = 1 /\ tool_phase' = "look"
        /\ UNCHANGED <<remote, backup, stamped, kills, aside, half_saved, over>>
        /\ latest' \in Nat /\ 0 .. latest \subseteq 0 .. latest' /\ 1 .. latest \subseteq 1 .. latest'
        /\ content' \in {"none", "empty", "short", "whole"} \X (0 .. latest')
    <2>1. latest \in Nat
      BY DEF OffsetInv, OffsetTyped
    <2>2. CASE Offsets!RunPush
      BY <2>1, <2>2 DEF Offsets!RunPush, Offsets!Run, Offsets!ledgers
    <2>3. CASE Offsets!RunZero
      BY <2>1, <2>3 DEF Offsets!RunZero, Offsets!Run, Offsets!ledgers, OffsetInv, OffsetTyped, OffsetFile
    <2>4. CASE Offsets!RunRestore
      BY <2>1, <2>4 DEF Offsets!RunRestore, Offsets!Run, Offsets!ledgers, OffsetInv, OffsetTyped, OffsetFile
    <2> QED
      BY <2>2, <2>3, <2>4
  <1>2. 1 \in Offsets!NodeIds
    BY DEF Offsets!OffsetAssumption, Offsets!NodeIds
  <1>3. OffsetFile \subseteq OffsetFile' /\ OffsetLedger \subseteq OffsetLedger'
    BY <1>1 DEF OffsetFile, OffsetLedger
  <1>4. OffsetTyped'
    <2>1. /\ remote' \in [Offsets!NodeIds -> OffsetFile'] /\ backup' \in [Offsets!NodeIds -> OffsetFile']
          /\ stamped' \in [Offsets!NodeIds -> SUBSET OffsetFile']
      BY <1>1, <1>3 DEF OffsetInv, OffsetTyped
    <2>2. /\ aside' \in OffsetLedger' /\ half_saved' \in OffsetLedger' /\ over' \in OffsetLedger'
          /\ kills' \in 0 .. MaxKills
      BY <1>1, <1>3 DEF OffsetInv, OffsetTyped
    <2>3. content' \in OffsetFile'
      BY <1>1 DEF OffsetFile
    <2> QED
      BY <1>1, <1>2, <2>1, <2>2, <2>3 DEF OffsetTyped
  <1>5. ToolAt'
    BY <1>1 DEF ToolAt
  <1>6. OffsetHeld'
    <2>1. tool_phase = "look"
      BY <1>1 DEF OffsetInv, ToolAt
    <2> QED
      BY <1>1, <2>1 DEF OffsetInv, OffsetHeld, OffsetKept, OffsetSaving, OffsetWriting, Offsets!Backed, Whole
  <1> QED
    BY <1>4, <1>5, <1>6 DEF OffsetInv

\* The next node is one, too.
LEMMA OffsetNext ==
    ASSUME Offsets!OffsetAssumption, OffsetInv, Offsets!NextNode
    PROVE  at' \in Offsets!NodeIds /\ tool_phase' = "look" /\ tool' \in {tool, "none"}
  <1>1. at \in 1 .. LastNode /\ Offsets!NodeIds = 1 .. LastNode /\ LastNode \in Nat \ {0}
    BY DEF OffsetInv, OffsetTyped, Offsets!NodeIds, Offsets!OffsetAssumption
  <1> QED
    BY <1>1 DEF Offsets!NextNode, Offsets!IsLast

LEMMA OffsetLook == ASSUME Offsets!OffsetAssumption, OffsetInv, Offsets!Look PROVE OffsetInv'
  <1>1. /\ tool # "none" /\ tool_phase = "look" /\ at \in Offsets!NodeIds
        /\ UNCHANGED <<remote, backup, stamped, latest, kills, half_saved>>
    BY DEF Offsets!Look, OffsetInv, OffsetTyped
  <1>2. \/ Offsets!NextNode /\ UNCHANGED <<aside, over>>
        \/ /\ tool = "zero" /\ tool' = tool /\ at' = at /\ over' = over
           /\ tool_phase' = IF remote[at] = Offsets!NoFile THEN "upload" ELSE "save"
           /\ aside' = [aside EXCEPT ![at] = @ \cup Offsets!Calibration(remote[at])]
        \/ /\ tool # "zero" /\ tool' = tool /\ at' = at /\ tool_phase' = "upload" /\ Offsets!Overwrites
    BY DEF Offsets!Look, Offsets!Goto, OffsetInv, OffsetTyped
  <1>3. content' \in OffsetFile
    <2>1. Offsets!Zeros \in OffsetFile /\ backup[at] \in OffsetFile /\ content \in OffsetFile
      BY <1>1 DEF OffsetInv, OffsetTyped, OffsetFile, Offsets!Zeros
    <2>2. content' \in {Offsets!Zeros, backup[at], content}
      BY <1>1 DEF Offsets!Look, OffsetInv, OffsetTyped
    <2> QED
      BY <2>1, <2>2
  <1>4. at' \in Offsets!NodeIds /\ tool_phase' \in {"look", "save", "upload"} /\ tool' \in {tool, "none"}
        /\ (tool_phase' # "look" => at' = at /\ tool' = tool)
    BY <1>1, <1>2, OffsetNext
  <1>5. aside' \in OffsetLedger /\ over' \in OffsetLedger
    <2>1. aside \in OffsetLedger /\ over \in OffsetLedger /\ half_saved \in OffsetLedger
          /\ remote[at] \in OffsetFile
      BY <1>1 DEF OffsetInv, OffsetTyped
    <2>2. Offsets!Calibration(remote[at]) \subseteq 1 .. latest
      BY <2>1, OffsetCalibration
    <2>3. CASE UNCHANGED <<aside, over>>
      BY <2>1, <2>3
    <2>4. CASE aside' = [aside EXCEPT ![at] = @ \cup Offsets!Calibration(remote[at])] /\ over' = over
      BY <1>1, <2>1, <2>2, <2>4 DEF OffsetLedger
    <2>5. CASE Offsets!Overwrites
      BY <1>1, <2>1, <2>5 DEF Offsets!Overwrites, OffsetLedger
    <2> QED
      BY <1>2, <2>3, <2>4, <2>5
  <1>6. OffsetTyped'
    <2>1. OffsetFile' = OffsetFile /\ OffsetLedger' = OffsetLedger
      BY <1>1 DEF OffsetFile, OffsetLedger
    <2>2. tool' \in {"push", "zero", "restore", "none"}
      BY <1>4 DEF OffsetInv, OffsetTyped
    <2> QED
      BY <1>1, <1>3, <1>4, <1>5, <2>1, <2>2 DEF OffsetInv, OffsetTyped
  <1>7. ToolAt'
    <2>1. tool' = "none" => tool_phase' = "look"
      BY <1>1, <1>2, OffsetNext
    <2>2. tool_phase' = "save" => tool' = "zero"
      BY <1>2, OffsetNext
    <2> QED
      BY <2>1, <2>2 DEF ToolAt
  <1>8. ASSUME NEW n \in Offsets!NodeIds, NEW c \in aside[n]
        PROVE  /\ OffsetKept(n, c)
               /\ Offsets!Backed(n, c) \/ c \in half_saved[n] \/ c \in over[n]
    BY <1>1 DEF OffsetInv, OffsetHeld, OffsetSaving
  <1>9. \A n, c : Offsets!Backed(n, c)' <=> Offsets!Backed(n, c)
    BY <1>1 DEF Offsets!Backed
  <1>10. OffsetHeld'
    <2> SUFFICES ASSUME NEW n \in Offsets!NodeIds, NEW c \in aside'[n]
                 PROVE  OffsetKept(n, c)' /\ OffsetSaving(n, c)' /\ OffsetWriting(n, c)'
      BY DEF OffsetHeld
    <2>1. CASE Offsets!NextNode /\ UNCHANGED <<aside, over>>
      BY <1>1, <1>8, <1>9, <2>1, OffsetNext DEF OffsetKept, OffsetSaving, OffsetWriting, Whole
    <2>2. CASE /\ tool = "zero" /\ tool' = tool /\ at' = at /\ over' = over
               /\ tool_phase' = IF remote[at] = Offsets!NoFile THEN "upload" ELSE "save"
               /\ aside' = [aside EXCEPT ![at] = @ \cup Offsets!Calibration(remote[at])]
      <3>1. CASE c \in aside[n]
        <4>1. tool_phase' = "upload" => remote[at] # Whole(c)
          BY <2>2 DEF Offsets!NoFile, Whole
        <4> QED
          BY <1>1, <1>8, <1>9, <2>2, <3>1, <4>1 DEF OffsetKept, OffsetSaving, OffsetWriting, Whole
      <3>2. CASE c \notin aside[n]
        <4>1. n = at /\ c \in Offsets!Calibration(remote[at])
          BY <1>1, <2>2, <3>2 DEF OffsetInv, OffsetTyped, OffsetLedger
        <4>2. remote[at] \in OffsetFile
          BY <1>1 DEF OffsetInv, OffsetTyped
        <4>3. remote[at] = Whole(c)
          BY <4>1, <4>2, OffsetCalibration
        <4>4. tool_phase' = "save"
          BY <2>2, <4>3 DEF Offsets!NoFile, Whole
        <4> QED
          BY <1>1, <2>2, <4>1, <4>3, <4>4 DEF OffsetKept, OffsetSaving, OffsetWriting, Whole
      <3> QED
        BY <3>1, <3>2
    <2>3. CASE /\ tool # "zero" /\ tool' = tool /\ at' = at /\ tool_phase' = "upload"
               /\ Offsets!Overwrites
      <3>1. aside' = aside /\ over' = [over EXCEPT ![at] = @ \cup {k \in half_saved[at] : ~Offsets!Backed(at, k)}]
        BY <2>3 DEF Offsets!Overwrites
      <3>2. over[n] \subseteq over'[n] /\ (n = at /\ c \in half_saved[n] => Offsets!Backed(n, c) \/ c \in over'[n])
        BY <1>1, <3>1 DEF OffsetInv, OffsetTyped, OffsetLedger
      <3>3. c \in aside[n]
        BY <3>1
      <3> QED
        BY <1>1, <1>8, <1>9, <2>3, <3>2, <3>3 DEF OffsetKept, OffsetSaving, OffsetWriting, Whole
    <2> QED
      BY <1>2, <2>1, <2>2, <2>3
  <1> QED
    BY <1>6, <1>7, <1>10 DEF OffsetInv

\* A copy takes the place of the same file, or of none.
LEMMA OffsetSaved ==
    ASSUME OffsetInv, tool_phase = "save", NEW f \in OffsetFile, Offsets!Saved(f)
    PROVE  /\ backup' \in [Offsets!NodeIds -> OffsetFile] /\ stamped' \in [Offsets!NodeIds -> SUBSET OffsetFile]
           /\ \A n \in Offsets!NodeIds : \A c :
                  Offsets!Backed(n, c) => Offsets!Backed(n, c)' \/ (n = at /\ remote[at] = Whole(c))
           /\ \A n \in Offsets!NodeIds : \A c : n = at /\ f = Whole(c) => Offsets!Backed(n, c)'
  <1>1. /\ at \in Offsets!NodeIds
        /\ backup \in [Offsets!NodeIds -> OffsetFile] /\ stamped \in [Offsets!NodeIds -> SUBSET OffsetFile]
    BY DEF OffsetInv, OffsetTyped
  <1>2. CASE Offsets!FirstBackup(at, remote[at])
    <2>1. /\ backup' = [backup EXCEPT ![at] = f] /\ stamped' = stamped
          /\ backup[at] \in {Offsets!NoFile, remote[at]}
      BY <1>2 DEF Offsets!Saved, Offsets!FirstBackup
    <2>2. \A c : Offsets!NoFile # <<"whole", c>>
      BY DEF Offsets!NoFile
    <2>3. backup' \in [Offsets!NodeIds -> OffsetFile] /\ stamped' \in [Offsets!NodeIds -> SUBSET OffsetFile]
      BY <1>1, <2>1
    <2>4. ASSUME NEW n \in Offsets!NodeIds, NEW c, Offsets!Backed(n, c)
          PROVE  Offsets!Backed(n, c)' \/ (n = at /\ remote[at] = Whole(c))
      <3>1. CASE n = at
        BY <1>1, <2>1, <2>2, <2>4, <3>1 DEF Offsets!Backed, Whole
      <3>2. CASE n # at
        BY <1>1, <2>1, <2>4, <3>2 DEF Offsets!Backed
      <3> QED
        BY <3>1, <3>2
    <2>5. ASSUME NEW n \in Offsets!NodeIds, NEW c, n = at, f = Whole(c) PROVE Offsets!Backed(n, c)'
      BY <1>1, <2>1, <2>5 DEF Offsets!Backed, Whole
    <2> QED
      BY <2>3, <2>4, <2>5
  <1>3. CASE ~Offsets!FirstBackup(at, remote[at])
    <2>1. stamped' = [stamped EXCEPT ![at] = @ \cup {f}] /\ backup' = backup
      BY <1>3 DEF Offsets!Saved
    <2>2. backup' \in [Offsets!NodeIds -> OffsetFile] /\ stamped' \in [Offsets!NodeIds -> SUBSET OffsetFile]
      BY <1>1, <2>1
    <2>3. \A n \in Offsets!NodeIds : stamped[n] \subseteq stamped'[n] /\ f \in stamped'[at]
      BY <1>1, <2>1
    <2>4. ASSUME NEW n \in Offsets!NodeIds, NEW c, Offsets!Backed(n, c) PROVE Offsets!Backed(n, c)'
      BY <2>1, <2>3, <2>4 DEF Offsets!Backed
    <2>5. ASSUME NEW n \in Offsets!NodeIds, NEW c, n = at, f = Whole(c) PROVE Offsets!Backed(n, c)'
      BY <1>1, <2>3, <2>5 DEF Offsets!Backed, Whole
    <2> QED
      BY <2>2, <2>4, <2>5
  <1> QED
    BY <1>2, <1>3

LEMMA OffsetSave == ASSUME OffsetInv, Offsets!Save PROVE OffsetInv'
  <1>1. /\ tool_phase = "save" /\ tool = "zero" /\ tool_phase' = "upload" /\ at \in Offsets!NodeIds
        /\ Offsets!Saved(remote[at]) /\ remote[at] \in OffsetFile
        /\ half_saved' = [half_saved EXCEPT ![at] = @ \ Offsets!Calibration(remote[at])]
        /\ UNCHANGED <<tool, at, remote, content, latest, kills, aside, over>>
    BY DEF Offsets!Save, Offsets!Goto, OffsetInv, OffsetTyped, ToolAt
  <1>2. /\ backup' \in [Offsets!NodeIds -> OffsetFile] /\ stamped' \in [Offsets!NodeIds -> SUBSET OffsetFile]
        /\ \A n \in Offsets!NodeIds : \A c :
               Offsets!Backed(n, c) => Offsets!Backed(n, c)' \/ (n = at /\ remote[at] = Whole(c))
        /\ \A n \in Offsets!NodeIds : \A c : n = at /\ remote[at] = Whole(c) => Offsets!Backed(n, c)'
    BY <1>1, OffsetSaved
  <1>3. OffsetTyped'
    <2>1. OffsetFile' = OffsetFile /\ OffsetLedger' = OffsetLedger
      BY <1>1 DEF OffsetFile, OffsetLedger
    <2>2. half_saved' \in OffsetLedger
      BY <1>1 DEF OffsetInv, OffsetTyped, OffsetLedger
    <2> QED
      BY <1>1, <1>2, <2>1, <2>2 DEF OffsetInv, OffsetTyped
  <1>4. ASSUME NEW n \in Offsets!NodeIds, NEW c \in aside'[n]
        PROVE  OffsetKept(n, c)' /\ OffsetSaving(n, c)' /\ OffsetWriting(n, c)'
    <2>1. OffsetKept(n, c) /\ OffsetSaving(n, c)
      BY <1>1, <1>4 DEF OffsetInv, OffsetHeld
    <2>2. n = at /\ remote[at] = Whole(c) => Offsets!Backed(n, c)'
      BY <1>2
    <2>3. Offsets!Backed(n, c) => Offsets!Backed(n, c)'
      BY <1>2, <2>2
    <2>4. c \in half_saved[n] => c \in half_saved'[n] \/ Offsets!Backed(n, c)'
      <3> SUFFICES ASSUME n = at, c \in Offsets!Calibration(remote[at]) PROVE Offsets!Backed(n, c)'
        BY <1>1 DEF OffsetInv, OffsetTyped, OffsetLedger
      <3> QED
        BY <1>1, <2>2, OffsetCalibration
    <2>5. OffsetKept(n, c)'
      BY <1>1, <2>1, <2>3 DEF OffsetKept, Whole
    <2>6. OffsetSaving(n, c)'
      BY <1>1, <2>1, <2>2, <2>3, <2>4 DEF OffsetSaving
    <2>7. OffsetWriting(n, c)'
      BY <1>1, <2>2 DEF OffsetWriting, Whole
    <2> QED
      BY <2>5, <2>6, <2>7
  <1>5. OffsetHeld'
    BY <1>4 DEF OffsetHeld
  <1>6. ToolAt'
    BY <1>1 DEF ToolAt
  <1> QED
    BY <1>3, <1>5, <1>6 DEF OffsetInv

\* The file of one node is another now: what it held is backed up, or known as lost.
LEMMA OffsetWritten ==
    ASSUME OffsetInv, tool_phase = "upload", NEW f \in OffsetFile, tool_phase' = "look",
           remote' = [remote EXCEPT ![at] = f], UNCHANGED <<backup, stamped, aside, half_saved, over>>
    PROVE  remote' \in [Offsets!NodeIds -> OffsetFile] /\ OffsetHeld'
  <1>1. at \in Offsets!NodeIds /\ remote \in [Offsets!NodeIds -> OffsetFile]
    BY DEF OffsetInv, OffsetTyped
  <1>2. ASSUME NEW n \in Offsets!NodeIds, NEW c \in aside'[n]
        PROVE  OffsetKept(n, c)' /\ OffsetSaving(n, c)' /\ OffsetWriting(n, c)'
    <2>1. OffsetKept(n, c) /\ OffsetSaving(n, c) /\ OffsetWriting(n, c)
      BY <1>2 DEF OffsetInv, OffsetHeld
    <2>2. Offsets!Backed(n, c)' <=> Offsets!Backed(n, c)
      BY DEF Offsets!Backed
    <2>3. n # at => remote'[n] = remote[n]
      BY <1>1
    <2>4. n = at => Offsets!Backed(n, c) \/ c \in over[n]
      BY <2>1 DEF OffsetKept, OffsetWriting
    <2>5. OffsetKept(n, c)'
      BY <2>1, <2>2, <2>3, <2>4 DEF OffsetKept, Whole
    <2>6. OffsetSaving(n, c)'
      BY <2>1, <2>2 DEF OffsetSaving
    <2>7. OffsetWriting(n, c)'
      BY DEF OffsetWriting
    <2> QED
      BY <2>5, <2>6, <2>7
  <1> QED
    BY <1>1, <1>2 DEF OffsetHeld

LEMMA OffsetUpload == ASSUME Offsets!OffsetAssumption, OffsetInv, Offsets!Upload PROVE OffsetInv'
  <1>1. /\ tool_phase = "upload" /\ remote' = [remote EXCEPT ![at] = content] /\ content \in OffsetFile
        /\ Offsets!NextNode
        /\ UNCHANGED <<backup, stamped, content, latest, kills, aside, half_saved, over>>
    BY DEF Offsets!Upload, Offsets!ledgers, OffsetInv, OffsetTyped
  <1>2. at' \in Offsets!NodeIds /\ tool_phase' = "look" /\ tool' \in {tool, "none"}
    BY <1>1, OffsetNext
  <1>3. remote' \in [Offsets!NodeIds -> OffsetFile] /\ OffsetHeld'
    BY <1>1, <1>2, OffsetWritten
  <1>4. OffsetFile' = OffsetFile /\ OffsetLedger' = OffsetLedger
    BY <1>1 DEF OffsetFile, OffsetLedger
  <1>5. OffsetTyped'
    BY <1>1, <1>2, <1>3, <1>4 DEF OffsetInv, OffsetTyped
  <1> QED
    BY <1>2, <1>3, <1>5 DEF OffsetInv, ToolAt

LEMMA OffsetKilled == ASSUME Offsets!OffsetAssumption, OffsetInv, Offsets!Killed PROVE OffsetInv'
  <1>1. /\ kills < MaxKills /\ kills' = kills + 1
        /\ tool' = "none" /\ at' = 1 /\ tool_phase' = "look"
        /\ UNCHANGED <<content, latest, aside, over>>
    BY DEF Offsets!Killed
  <1>2. 1 \in Offsets!NodeIds /\ kills' \in 0 .. MaxKills
    BY <1>1 DEF OffsetInv, OffsetTyped, Offsets!NodeIds, Offsets!OffsetAssumption
  <1>3. ASSUME NEW f \in OffsetFile PROVE Offsets!Cut(f) \subseteq OffsetFile
    BY DEF Offsets!Cut, OffsetFile, OffsetInv, OffsetTyped
  <1>4. /\ remote' \in [Offsets!NodeIds -> OffsetFile] /\ backup' \in [Offsets!NodeIds -> OffsetFile]
        /\ stamped' \in [Offsets!NodeIds -> SUBSET OffsetFile] /\ half_saved' \in OffsetLedger /\ OffsetHeld'
    <2>1. CASE tool_phase = "look"
      <3>1. UNCHANGED <<remote, backup, stamped, half_saved>>
        BY <2>1 DEF Offsets!Killed
      <3>2. OffsetHeld'
        BY <1>1, <2>1, <3>1 DEF OffsetInv, OffsetHeld, OffsetKept, OffsetSaving, OffsetWriting,
                               Offsets!Backed, Whole
      <3> QED
        BY <3>1, <3>2 DEF OffsetInv, OffsetTyped
    <2>2. CASE tool_phase = "save"
      <3>1. PICK f \in Offsets!Cut(remote[at]) : Offsets!Saved(f) /\ remote' = remote
        BY <2>2 DEF Offsets!Killed
      <3>2. f \in OffsetFile /\ at \in Offsets!NodeIds /\ remote[at] \in OffsetFile
        BY <1>3, <3>1 DEF OffsetInv, OffsetTyped
      <3>3. /\ backup' \in [Offsets!NodeIds -> OffsetFile] /\ stamped' \in [Offsets!NodeIds -> SUBSET OffsetFile]
            /\ \A n \in Offsets!NodeIds : \A c :
                   Offsets!Backed(n, c) => Offsets!Backed(n, c)' \/ (n = at /\ remote[at] = Whole(c))
        BY <2>2, <3>1, <3>2, OffsetSaved
      <3>4. half_saved' = [half_saved EXCEPT ![at] = @ \cup Offsets!Calibration(remote[at])]
        BY <2>2 DEF Offsets!Killed
      <3>5. Offsets!Calibration(remote[at]) \subseteq 1 .. latest
        BY <3>2, OffsetCalibration
      <3>6. half_saved' \in OffsetLedger /\ \A n \in Offsets!NodeIds : half_saved[n] \subseteq half_saved'[n]
        BY <3>2, <3>4, <3>5 DEF OffsetInv, OffsetTyped, OffsetLedger
      <3>7. ASSUME NEW n \in Offsets!NodeIds, NEW c \in aside'[n]
            PROVE  OffsetKept(n, c)' /\ OffsetSaving(n, c)' /\ OffsetWriting(n, c)'
        <4>1. OffsetKept(n, c) /\ OffsetSaving(n, c) /\ c \in 1 .. latest
          BY <1>1, <3>7 DEF OffsetInv, OffsetHeld, OffsetTyped, OffsetLedger
        <4>2. n = at /\ remote[at] = Whole(c) => c \in half_saved'[n]
          <5> SUFFICES ASSUME remote[at] = Whole(c) PROVE c \in Offsets!Calibration(remote[at])
            BY <3>2, <3>4 DEF OffsetInv, OffsetTyped, OffsetLedger
          <5>1. c # 0
            BY <4>1
          <5> QED
            BY <5>1 DEF Offsets!Calibration, Offsets!Loaded, Whole
        <4>3. OffsetKept(n, c)'
          BY <1>1, <3>1, <3>3, <4>1 DEF OffsetKept, Whole
        <4>4. OffsetSaving(n, c)'
          BY <1>1, <3>3, <3>6, <4>1, <4>2 DEF OffsetSaving
        <4>5. OffsetWriting(n, c)'
          BY <1>1 DEF OffsetWriting
        <4> QED
          BY <4>3, <4>4, <4>5
      <3>8. OffsetHeld'
        BY <3>7 DEF OffsetHeld
      <3> QED
        BY <3>1, <3>3, <3>6, <3>8 DEF OffsetInv, OffsetTyped
    <2>3. CASE tool_phase = "upload"
      <3>1. PICK f \in Offsets!Cut(content) :
                remote' = [remote EXCEPT ![at] = f] /\ UNCHANGED <<backup, stamped, half_saved>>
        BY <2>3 DEF Offsets!Killed
      <3>2. f \in OffsetFile
        BY <1>3, <3>1 DEF OffsetInv, OffsetTyped
      <3>3. remote' \in [Offsets!NodeIds -> OffsetFile] /\ OffsetHeld'
        BY <1>1, <2>3, <3>1, <3>2, OffsetWritten
      <3> QED
        BY <3>1, <3>3 DEF OffsetInv, OffsetTyped
    <2> QED
      BY <2>1, <2>2, <2>3 DEF OffsetInv, OffsetTyped
  <1>5. OffsetTyped'
    <2>1. OffsetFile' = OffsetFile /\ OffsetLedger' = OffsetLedger
      BY <1>1 DEF OffsetFile, OffsetLedger
    <2> QED
      BY <1>1, <1>2, <1>4, <2>1 DEF OffsetInv, OffsetTyped
  <1> QED
    BY <1>1, <1>4, <1>5 DEF OffsetInv, ToolAt

\* A calibration that a zeroing run took is whole on the node or in the backups,
\* for any number of nodes and calibrations, wherever the tools were killed;
\* except one the last save of which was killed and that a restore or a push
\* then wrote over.
THEOREM OffsetsAlone ==
    ASSUME Offsets!OffsetAssumption PROVE Offsets!Spec => [](Offsets!TypeOK /\ Offsets!CalibrationKept)
  <1>1. Offsets!Init => OffsetInv
    BY OffsetInit
  <1>2. OffsetInv /\ [Offsets!Next]_Offsets!vars => OffsetInv'
    <2> SUFFICES ASSUME OffsetInv, [Offsets!Next]_Offsets!vars PROVE OffsetInv'
      OBVIOUS
    <2>1. CASE Offsets!Next
      BY <2>1, OffsetRun, OffsetLook, OffsetSave, OffsetUpload, OffsetKilled DEF Offsets!Next
    <2>2. CASE UNCHANGED Offsets!vars
      <3>1. UNCHANGED <<remote, backup, stamped, tool, at, tool_phase, content, latest, kills,
                        aside, half_saved, over>>
        BY <2>2 DEF Offsets!vars, Offsets!ledgers
      <3> QED
        BY <3>1 DEF OffsetInv, OffsetTyped, OffsetFile, OffsetLedger, ToolAt, OffsetHeld, OffsetKept,
                    OffsetSaving, OffsetWriting, Offsets!Backed, Whole
    <2> QED
      BY <2>1, <2>2
  <1>3. OffsetInv => Offsets!TypeOK /\ Offsets!CalibrationKept
    <2> SUFFICES ASSUME OffsetInv PROVE Offsets!TypeOK /\ Offsets!CalibrationKept
      OBVIOUS
    <2>1. Offsets!CalibrationKept
      BY DEF OffsetInv, OffsetHeld, OffsetKept, Offsets!CalibrationKept, Whole
    <2>2. \A n \in Offsets!NodeIds : /\ aside[n] \subseteq 1 .. latest /\ half_saved[n] \subseteq 1 .. latest
                                     /\ over[n] \subseteq 1 .. latest /\ remote[n] \in OffsetFile
      BY DEF OffsetInv, OffsetTyped, OffsetLedger
    <2> QED
      BY <2>1, <2>2 DEF OffsetInv, OffsetTyped, OffsetFile, ToolAt, Offsets!TypeOK
  <1> QED
    BY <1>1, <1>2, <1>3, PTL DEF Offsets!Spec
-----------------------------------------------------------------------------
(***************************************************************************)
(* The publication.  The rounds of a line are not uploaded yet, and the    *)
(* batch after it has them all; a status seen as complete stays so until   *)
(* the sweep is started again.                                             *)
(***************************************************************************)
PageVersion == 0 .. MaxDocs
Docs == [Rounds -> PageVersion]
Counts == 0 .. Cardinality(Rounds)
PageTyped ==
    /\ artifact \in Docs /\ records \in Docs
    /\ batch \in [docs : Docs, count : Counts] /\ shown \in Counts
    /\ uploaded \subseteq Page!Recorded /\ lined \subseteq Page!Recorded

LineOfRounds ==
    /\ page_pc = "build" => lined \cap uploaded = {}
    /\ page_pc = "mark" /\ line = "READY" => lined \subseteq Page!Held
SeenComplete == page_pc \in {"decide", "build"} /\ seen = "complete" /\ ~again => sweep_phase = "complete"
SaidDone == page_pc = "build" /\ line = "DONE" => seen = "complete"
PageInv == /\ PageTyped /\ LineOfRounds /\ SeenComplete /\ SaidDone
           /\ Page!DoneMeansAll /\ Page!MarkedIsHeld /\ Page!EveryLineCarries

LEMMA PageCounts == ASSUME NEW S \in SUBSET Rounds PROVE Cardinality(S) \in Counts
  <1>1. IsFiniteSet(Rounds)
    BY SweepCampaignAssumption
  <1>2. Cardinality(S) \in Nat /\ Cardinality(Rounds) \in Nat /\ Cardinality(S) =< Cardinality(Rounds)
    BY <1>1, FS_Subset, FS_CardinalityType
  <1> QED
    BY <1>2 DEF Counts

\* The instance has its own name for the cardinality.
LEMMA PageCardinality == ASSUME NEW S PROVE Page!Cardinality(S) = Cardinality(S)
  BY DEF Page!Cardinality, Cardinality

LEMMA MeasuredBound == MaxDocs \in Nat
  BY SweepAssumption DEF Page!PublishAssumption

LEMMA PageInit == ASSUME Page!Init PROVE PageInv
  <1>1. 0 \in PageVersion /\ 0 \in Counts
    <2>1. Cardinality({}) \in Counts
      BY PageCounts
    <2>2. 0 \in Counts
      BY <2>1, FS_EmptySet
    <2> QED
      BY <2>2, MeasuredBound DEF PageVersion
  <1> QED
    BY <1>1 DEF Page!Init, PageInv, PageTyped, Docs, LineOfRounds, SeenComplete, SaidDone, Page!DoneMeansAll,
                Page!MarkedIsHeld, Page!EveryLineCarries, Page!Recorded, Page!Held

\* What the sweep does: the records only grow, and a sweep that was complete
\* records nothing before it is started again.
LEMMA SweepMoves ==
    ASSUME PageInv,
           \/ \E r \in Rounds : Page!Record(r)
           \/ Page!Complete \/ Page!Dies \/ Page!Restarts \/ Page!Stalls
    PROVE  PageInv'
  <1>1. UNCHANGED <<due, uploaded, page_pc, seen, line, lined, batch, artifact, shown>>
    BY DEF Page!ofSweep, Page!page, Page!Record, Page!Complete, Page!Dies, Page!Restarts, Page!Stalls
  <1>2. records' \in Docs /\ Page!Recorded \subseteq Page!Recorded'
    <2>1. CASE \E r \in Rounds : Page!Record(r)
      <3>1. PICK r \in Rounds : records[r] < MaxDocs /\ records' = [records EXCEPT ![r] = @ + 1]
        BY <2>1 DEF Page!Record
      <3> QED
        BY <3>1, MeasuredBound DEF PageInv, PageTyped, Docs, PageVersion, Page!Recorded
    <2>2. CASE ~\E r \in Rounds : Page!Record(r)
      <3>1. records' = records
        BY <2>2 DEF Page!Complete, Page!Dies, Page!Restarts, Page!Stalls
      <3> QED
        BY <3>1 DEF PageInv, PageTyped, Page!Recorded
    <2> QED
      BY <2>1, <2>2
  <1>3. /\ sweep_phase = "complete" => again' \/ (sweep_phase' = "complete" /\ records' = records)
        /\ again => again'
    BY DEF Page!Record, Page!Complete, Page!Dies, Page!Restarts, Page!Stalls
  <1>4. PageTyped'
    BY <1>1, <1>2 DEF PageInv, PageTyped
  <1>5. Page!Held' = Page!Held
    BY <1>1 DEF Page!Held
  <1>6. LineOfRounds' /\ SeenComplete' /\ SaidDone' /\ Page!MarkedIsHeld' /\ Page!EveryLineCarries'
    BY <1>1, <1>3, <1>5
       DEF PageInv, LineOfRounds, SeenComplete, SaidDone, Page!MarkedIsHeld, Page!EveryLineCarries
  <1>7. Page!DoneMeansAll'
    <2> SUFFICES ASSUME page_pc = "build", line = "DONE", ~again' PROVE Page!Recorded' \subseteq Page!Held
      BY <1>1, <1>5 DEF Page!DoneMeansAll
    <2>1. sweep_phase = "complete" /\ ~again
      BY <1>3 DEF PageInv, SaidDone, SeenComplete
    <2>2. Page!Recorded' = Page!Recorded
      BY <1>3, <2>1 DEF Page!Recorded
    <2> QED
      BY <2>1, <2>2 DEF PageInv, Page!DoneMeansAll
  <1> QED
    BY <1>4, <1>6, <1>7 DEF PageInv

LEMMA PageLooks ==
    ASSUME PageInv, Page!CadencePasses \/ Page!ReadStatus \/ Page!Interrupted \/ Page!Wait
    PROVE  PageInv'
  <1>1. UNCHANGED <<records, sweep_phase, uploaded, line, lined, batch, artifact, shown>>
    BY DEF Page!CadencePasses, Page!ReadStatus, Page!Interrupted, Page!Wait, Page!sweep, Page!page
  <1>2. PageTyped' /\ Page!Recorded' = Page!Recorded /\ Page!Held' = Page!Held
    BY <1>1 DEF PageInv, PageTyped, Page!Recorded, Page!Held
  <1>3. \/ UNCHANGED <<page_pc, seen, again>>
        \/ page_pc' \in {"idle", "look"}
        \/ page_pc' = "decide" /\ seen' = sweep_phase /\ ~again'
    BY DEF Page!CadencePasses, Page!ReadStatus, Page!Interrupted, Page!Wait, Page!sweep, Page!page
  <1> QED
    BY <1>1, <1>2, <1>3
       DEF PageInv, LineOfRounds, SeenComplete, SaidDone, Page!DoneMeansAll, Page!MarkedIsHeld,
           Page!EveryLineCarries

LEMMA PageDecides == ASSUME PageInv, Page!Decide PROVE PageInv'
  <1>1. /\ page_pc = "decide" /\ line' = Page!Decision(seen, Page!Pending) /\ lined' = Page!Pending
        /\ page_pc' = IF line' = "none" THEN "look" ELSE "build"
        /\ UNCHANGED <<records, sweep_phase, again, uploaded, seen, batch, artifact, shown>>
    BY DEF Page!Decide, Page!sweep, Page!page
  <1>2. PageTyped' /\ Page!Recorded' = Page!Recorded /\ Page!Held' = Page!Held
    BY <1>1 DEF PageInv, PageTyped, Page!Recorded, Page!Held, Page!Pending
  <1>3. line' = "DONE" => seen = "complete" /\ Page!Pending = {}
    BY <1>1 DEF Page!Decision, Page!IsDone
  <1>4. page_pc' \in {"look", "build"}
    BY <1>1
  <1>5. LineOfRounds' /\ SeenComplete' /\ SaidDone'
    BY <1>1, <1>3, <1>4 DEF PageInv, LineOfRounds, SeenComplete, SaidDone, Page!Pending
  <1>6. Page!MarkedIsHeld' /\ Page!EveryLineCarries'
    BY <1>1, <1>2, <1>4 DEF PageInv, Page!MarkedIsHeld, Page!EveryLineCarries
  <1>7. Page!DoneMeansAll'
    BY <1>1, <1>2, <1>3 DEF PageInv, Page!MarkedIsHeld, Page!DoneMeansAll, Page!Pending
  <1> QED
    BY <1>2, <1>5, <1>6, <1>7 DEF PageInv

LEMMA PageBuilds == ASSUME PageInv, Page!Build PROVE PageInv'
  <1>1. /\ page_pc = "build" /\ page_pc' = "upload"
        /\ batch' = [docs |-> [r \in Rounds |-> IF r \in Page!Wanted THEN records[r] ELSE 0],
                     count |-> Page!Count(Page!Wanted)]
        /\ UNCHANGED <<records, sweep_phase, again, uploaded, seen, line, lined, artifact, shown>>
    BY DEF Page!Build, Page!sweep, Page!page
  <1>2. batch' \in [docs : Docs, count : Counts]
    <2>1. uploaded \cup Page!Wanted \in SUBSET Rounds
      BY DEF PageInv, PageTyped, Page!Wanted, Page!Pending, Page!Recorded
    <2>2. Page!Count(Page!Wanted) \in Counts
      <3> DEFINE S == uploaded \cup Page!Wanted
      <3>1. Page!Count(Page!Wanted) = Cardinality(S)
        <4>1. Page!Count(Page!Wanted) = Page!Cardinality(S)
          BY DEF Page!Count
        <4> QED
          BY <4>1, PageCardinality
      <3> HIDE DEF S
      <3>2. S \in SUBSET Rounds
        BY <2>1 DEF S
      <3>3. Cardinality(S) \in Counts
        BY <3>2, PageCounts
      <3> QED
        BY <3>1, <3>3
    <2>3. [r \in Rounds |-> IF r \in Page!Wanted THEN records[r] ELSE 0] \in Docs
      BY MeasuredBound DEF PageInv, PageTyped, Docs, PageVersion
    <2> QED
      BY <1>1, <2>2, <2>3
  <1>3. PageTyped' /\ Page!Recorded' = Page!Recorded /\ Page!Held' = Page!Held
    BY <1>1, <1>2 DEF PageInv, PageTyped, Page!Recorded, Page!Held
  <1>4. Page!EveryLineCarries'
    <2>1. \A r \in lined : r \in Rounds /\ r \in Page!Wanted /\ records[r] > 0
      BY <1>1 DEF PageInv, PageTyped, LineOfRounds, Page!Wanted, Page!Pending, Page!Recorded
    <2> QED
      BY <1>1, <2>1 DEF Page!EveryLineCarries
  <1> QED
    BY <1>1, <1>3, <1>4
       DEF PageInv, LineOfRounds, SeenComplete, SaidDone, Page!DoneMeansAll, Page!MarkedIsHeld

LEMMA PageUploads == ASSUME PageInv, Page!Upload PROVE PageInv'
  <1>1. /\ page_pc = "upload" /\ page_pc' = "mark"
        /\ artifact' = [r \in Rounds |-> IF batch.docs[r] > 0 THEN batch.docs[r] ELSE artifact[r]]
        /\ shown' = batch.count
        /\ UNCHANGED <<records, sweep_phase, again, uploaded, seen, line, lined, batch>>
    BY DEF Page!Upload, Page!sweep, Page!page
  <1>2. /\ batch.docs \in Docs /\ batch.count \in Counts /\ artifact \in Docs
    BY DEF PageInv, PageTyped
  <1>3. artifact' \in Docs /\ shown' \in Counts
    BY <1>1, <1>2 DEF Docs
  <1>4. PageTyped' /\ Page!Recorded' = Page!Recorded
    BY <1>1, <1>3 DEF PageInv, PageTyped, Page!Recorded
  <1>5. Page!Held \subseteq Page!Held' /\ \A r \in Rounds : batch.docs[r] > 0 => r \in Page!Held'
    BY <1>1, <1>2 DEF Page!Held, Docs
  <1>6. lined \subseteq Page!Held'
    BY <1>1, <1>5 DEF PageInv, PageTyped, Page!EveryLineCarries, Page!Recorded
  <1> QED
    BY <1>1, <1>4, <1>5, <1>6
       DEF PageInv, LineOfRounds, SeenComplete, SaidDone, Page!DoneMeansAll, Page!MarkedIsHeld,
           Page!EveryLineCarries

LEMMA PageMarks == ASSUME PageInv, Page!Mark PROVE PageInv'
  <1>1. /\ page_pc = "mark" /\ page_pc' \in {"look", "idle"}
        /\ uploaded' = uploaded \cup Page!Named(lined)
        /\ UNCHANGED <<records, sweep_phase, again, seen, line, lined, batch, artifact, shown>>
    BY DEF Page!Mark, Page!sweep, Page!page
  <1>2. Page!Named(lined) \subseteq lined /\ Page!Named(lined) \subseteq Page!Held
    BY <1>1 DEF Page!Named, PageInv, LineOfRounds
  <1>3. PageTyped' /\ Page!Held' = Page!Held
    BY <1>1, <1>2 DEF PageInv, PageTyped, Page!Recorded, Page!Held
  <1> QED
    BY <1>1, <1>2, <1>3
       DEF PageInv, LineOfRounds, SeenComplete, SaidDone, Page!DoneMeansAll, Page!MarkedIsHeld,
           Page!EveryLineCarries

\* For any rounds and however often the sweep dies and is started again: DONE is
\* said when the page has every round, a round marked uploaded is on the page,
\* and the batch of a line has the rounds the line names.
THEOREM PageAlone == Page!Spec => []Page!PageSound
  <1>1. Page!Init => PageInv
    BY PageInit
  <1>2. PageInv /\ [Page!Next]_Page!vars => PageInv'
    <2> SUFFICES ASSUME PageInv, [Page!Next]_Page!vars PROVE PageInv'
      OBVIOUS
    <2>1. CASE Page!Next
      BY <2>1, SweepMoves, PageLooks, PageDecides, PageBuilds, PageUploads, PageMarks DEF Page!Next
    <2>2. CASE UNCHANGED Page!vars
      BY <2>2 DEF Page!vars, Page!sweep, Page!page, PageInv, PageTyped, LineOfRounds, SeenComplete, SaidDone,
                  Page!DoneMeansAll, Page!MarkedIsHeld, Page!EveryLineCarries, Page!Recorded, Page!Held
    <2> QED
      BY <2>1, <2>2
  <1>3. PageInv => Page!PageSound
    <2>1. PageTyped => Page!TypeOK
      <3>1. Page!Cardinality(Rounds) = Cardinality(Rounds)
        BY PageCardinality
      <3> QED
        BY <3>1 DEF PageTyped, Docs, PageVersion, Counts, Page!TypeOK
    <2> QED
      BY <2>1 DEF PageInv, Page!PageSound
  <1> QED
    BY <1>1, <1>2, <1>3, PTL DEF Page!Spec
-----------------------------------------------------------------------------
(***************************************************************************)
(* The recorded sweep.  A checked round has one acquisition of all nodes   *)
(* or its result; what the list of rounds to do still holds has no result, *)
(* so no rec_attempt begins where raw data and round.json are; and a campaign  *)
(* passed by has all its results or is listed as rec_failed.                   *)
(***************************************************************************)
Planned == Recorder!PlannedRounds
Res(r) == Recorder!HasResult(r)
Attempting == {"clear", "up", "acquire", "archive"}
FileStates == {"none", "torn", "whole"}

DriveTyped ==
    /\ driver \in {"down", "running", "complete", "stopped"} /\ camp \in 0 .. Len(Plan)
    /\ rec_step \in {"none", "round", "clear", "up", "acquire", "archive", "analyze",
                     "written", "record", "budget"}
    /\ mask_failed \subseteq DOMAIN Plan
    /\ rec_todo \subseteq Planned /\ done \subseteq Planned /\ rec_failed \subseteq Planned
    /\ rec_cur \in Planned \cup {0} /\ rec_attempt \in 0 .. Attempts
StoreTyped ==
    /\ rec_measured \in Nat /\ recv \in [Nodes -> 0 .. rec_measured]
    /\ raw \in [Planned -> [Nodes -> 0 .. rec_measured]]
    /\ info \in [Planned -> FileStates] /\ result \in [Planned -> FileStates]
    /\ record \subseteq Planned /\ deleted \subseteq Planned /\ cut \subseteq Planned
    /\ refused \subseteq Planned /\ unclean \subseteq Planned
NodesTyped ==
    /\ reach \subseteq Nodes /\ lspad \subseteq Nodes /\ moved \subseteq Nodes /\ short \in BOOLEAN
    /\ rec_faults \in 0 .. MaxFaults /\ rec_crashes \in 0 .. MaxDriverDeaths

RecRuns ==
    rec_step # "none" => /\ driver = "running" /\ camp \in DOMAIN Plan
                         /\ rec_todo \subseteq Plan[camp] /\ (rec_step = "clear" => rec_attempt < Attempts)
CurOwn == rec_step \notin {"none", "round"} => rec_cur \in Plan[camp] /\ rec_cur \notin rec_todo
RoundsAccounted ==
    rec_step # "none" => \A r \in Plan[camp] : \/ r \in rec_todo \cup rec_failed \/ Res(r)
                                               \/ r = rec_cur /\ rec_step # "round"
Resolved(c) == (\A r \in Plan[c] : Res(r)) \/ c \in mask_failed
CampaignsAccounted ==
    driver \in {"running", "complete"} =>
        \A c \in DOMAIN Plan : c < camp \/ driver = "complete" \/ (c = camp /\ rec_step = "none") => Resolved(c)
ListsTrue ==
    rec_step # "none" => /\ \A r \in rec_todo \ done : ~Res(r)
                         /\ \A r \in done : Res(r)
                         /\ rec_step \in {"written", "record", "budget"} => Res(rec_cur)
CurOpen ==
    /\ rec_step \in Attempting \cup {"analyze"} => ~Res(rec_cur)
    /\ rec_step \in Attempting => info[rec_cur] # "whole"
    /\ rec_step \in {"analyze", "written"} => info[rec_cur] = "whole"
    /\ rec_step = "record" => result[rec_cur] = "whole"
OneAcquisition(r) == \A n, m \in Nodes : raw[r][n] = raw[r][m]
RawWhole ==
    \A r \in Planned : info[r] = "whole" /\ ~Res(r) =>
        /\ \A n \in Nodes : raw[r][n] # 0
        /\ r \in unclean \/ OneAcquisition(r)
OfThisAttempt ==
    /\ rec_step \in {"up", "acquire"} => rec_cur \in unclean \/ recv = Recorder!Nothing
    /\ rec_step = "archive" =>
           \/ rec_cur \in unclean
           \/ /\ \A n \in Nodes : recv[n] \in {0, rec_measured}
              /\ \A n \in moved : raw[rec_cur][n] \in {0, rec_measured}
Saved(r) == r \in record \cup cut \/ (r \in refused /\ result[r] = "whole")
ResultsSaved ==
    \A r \in Planned : Res(r) => Saved(r) \/ (r = rec_cur /\ rec_step \in {"written", "record"})

RecTyped == DriveTyped /\ StoreTyped /\ NodesTyped
RecProgress == RecRuns /\ CurOwn /\ RoundsAccounted /\ CampaignsAccounted /\ ListsTrue
RecDisk == CurOpen /\ RawWhole /\ OfThisAttempt /\ ResultsSaved /\ Recorder!DeletedSavedOrCut
RecInv == RecTyped /\ RecProgress /\ RecDisk /\ Recorder!LspadClosed

\* What the campaign asks of its command line.
Given == Recorder!RecordSweepAssumption

LEMMA PlanRounds ==
    ASSUME Given
    PROVE  /\ DOMAIN Plan = 1 .. Len(Plan) /\ Len(Plan) \in Nat
           /\ \A c \in DOMAIN Plan : Plan[c] \subseteq Planned /\ Plan[c] \subseteq Nat
           /\ Planned \subseteq Nat
  <1>1. Plan \in Seq(SUBSET Nat)
    BY DEF Given, Recorder!RecordSweepAssumption
  <1>2. DOMAIN Plan = 1 .. Len(Plan) /\ Len(Plan) \in Nat /\ \A c \in DOMAIN Plan : Plan[c] \in SUBSET Nat
    BY <1>1
  <1> QED
    BY <1>2 DEF Planned, Recorder!PlannedRounds

\* The least of a set of numbers is one of them.
LEMMA RecorderMin ==
    ASSUME NEW S \in SUBSET Nat, S # {}
    PROVE  Recorder!Min(S) \in S /\ \A y \in S : Recorder!Min(S) =< y
  <1>1. \E x \in S : \A y \in S : x =< y
    BY OldestRound
  <1> QED
    BY <1>1 DEF Recorder!Min

LEMMA NodeOne == ASSUME Given PROVE Nodes \in SUBSET Nat /\ Nodes # {} /\ Recorder!Min(Nodes) \in Nodes
  <1>1. Nodes \in SUBSET Nat /\ Nodes # {}
    BY DEF Given, Recorder!RecordSweepAssumption
  <1> QED
    BY <1>1, RecorderMin

LEMMA Bounds == ASSUME Given PROVE Attempts \in Nat /\ Attempts > 0 /\ MaxFaults \in Nat /\ MaxDriverDeaths \in Nat
  BY DEF Given, Recorder!RecordSweepAssumption

LEMMA RecorderInit == ASSUME Given, Recorder!Init PROVE RecInv
  <1>1. DriveTyped
    BY PlanRounds, Bounds DEF Recorder!Init, DriveTyped
  <1>2. StoreTyped
    BY DEF Recorder!Init, StoreTyped, FileStates, Planned, Recorder!Nothing
  <1>3. NodesTyped
    <2>1. reach \subseteq Nodes /\ lspad \subseteq Nodes /\ moved \subseteq Nodes
      BY DEF Recorder!Init
    <2>2. short \in BOOLEAN
      BY DEF Recorder!Init
    <2>3. rec_faults \in 0 .. MaxFaults /\ rec_crashes \in 0 .. MaxDriverDeaths
      BY Bounds DEF Recorder!Init
    <2> QED
      BY <2>1, <2>2, <2>3 DEF NodesTyped
  <1>4. RecProgress
    BY DEF Recorder!Init, RecProgress, RecRuns, CurOwn, RoundsAccounted, CampaignsAccounted, ListsTrue
  <1>5. RecDisk /\ Recorder!LspadClosed
    BY DEF Recorder!Init, RecDisk, CurOpen, Attempting, RawWhole, OneAcquisition, OfThisAttempt,
           ResultsSaved, Saved, Planned, Res,
           Recorder!HasResult, Recorder!DeletedSavedOrCut, Recorder!LspadClosed
  <1> QED
    BY <1>1, <1>2, <1>3, <1>4, <1>5 DEF RecInv, RecTyped

\* Nothing on disk changes, and no rec_attempt or analysis goes on.
LEMMA DiskRests ==
    ASSUME RecDisk, UNCHANGED <<rec_measured, raw, info, result, record, deleted, cut, refused, unclean>>,
           \/ rec_step' \in {"none", "round"} /\ rec_step \notin {"written", "record"}
           \/ UNCHANGED <<rec_step, rec_cur, moved, recv>>
    PROVE  RecDisk'
  <1>1. ResultsSaved' /\ Recorder!DeletedSavedOrCut' /\ RawWhole'
    BY DEF RecDisk, ResultsSaved, Saved, Recorder!DeletedSavedOrCut, RawWhole, OneAcquisition, Res, Recorder!HasResult,
           Recorder!Nothing, Planned, Recorder!PlannedRounds
  <1>2. CurOpen' /\ OfThisAttempt'
    BY DEF RecDisk, CurOpen, Attempting, OfThisAttempt, Res, Recorder!HasResult, Recorder!Nothing
  <1> QED
    BY <1>1, <1>2 DEF RecDisk

LEMMA DriveInv == ASSUME Given, RecInv, Recorder!Drive PROVE RecInv'
  <1>1. /\ driver # "running" /\ driver' = "running" /\ camp' = 0 /\ mask_failed' = {} /\ rec_step = "none"
        /\ UNCHANGED <<rec_step, rec_todo, rec_cur, rec_attempt, done, rec_failed, rec_measured, short, moved,
                       recv, raw, info, result,
                       record, deleted, cut, refused, unclean, reach, lspad, rec_faults, rec_crashes>>
    BY DEF Recorder!Drive, Recorder!campaign, Recorder!meas, Recorder!disk, Recorder!notes, Recorder!nodes, RecInv,
           RecProgress, RecRuns
  <1>2. RecTyped'
    BY <1>1, PlanRounds DEF RecInv, RecTyped, DriveTyped, StoreTyped, NodesTyped, Planned,
                            Recorder!PlannedRounds
  <1>3. RecProgress'
    BY <1>1, PlanRounds DEF RecProgress, RecRuns, CurOwn, RoundsAccounted, CampaignsAccounted, ListsTrue
  <1>4. RecDisk'
    BY <1>1, DiskRests DEF RecInv
  <1> QED
    BY <1>1, <1>2, <1>3, <1>4 DEF RecInv, Recorder!LspadClosed

\* The campaigns that are passed by have all their results.
LEMMA RunCampaignInv == ASSUME Given, RecInv, Recorder!RunCampaign PROVE RecInv'
  <1>1. /\ driver = "running" /\ rec_step = "none" /\ Recorder!Left # {} /\ camp' = Recorder!Min(Recorder!Left)
        /\ UNCHANGED <<mask_failed, rec_measured, short, moved, recv, raw, info, result,
                       record, deleted, cut, refused, unclean,
                       reach, rec_faults, rec_crashes>>
        /\ \/ /\ driver' = "stopped" /\ lspad' = lspad \ reach
              /\ UNCHANGED <<rec_step, rec_todo, rec_cur, rec_attempt, done, rec_failed>>
           \/ /\ rec_step' = "round" /\ rec_todo' = Plan[camp'] /\ done' = Recorder!Done(camp') /\ rec_failed' = {}
              /\ rec_cur' = 0 /\ rec_attempt' = 0 /\ UNCHANGED <<driver, lspad>>
    BY DEF Recorder!RunCampaign, Recorder!campaign, Recorder!meas, Recorder!disk, Recorder!notes, Recorder!StillOpen
  <1>2. camp \in Nat /\ Recorder!Left \in SUBSET Nat
    BY PlanRounds DEF RecInv, RecTyped, DriveTyped, Recorder!Left
  <1>3. camp' \in Recorder!Left /\ \A d \in Recorder!Left : camp' =< d
    BY <1>1, <1>2, RecorderMin
  <1>4. camp' \in DOMAIN Plan /\ camp' \in (camp + 1) .. Len(Plan)
    BY <1>2, <1>3, PlanRounds DEF Recorder!Left
  <1>5. Plan[camp'] \subseteq Planned /\ Recorder!Done(camp') \subseteq Plan[camp']
    BY <1>4, PlanRounds DEF Recorder!Done
  <1>6. DriveTyped'
    BY <1>1, <1>4, <1>5, Bounds, PlanRounds DEF RecInv, RecTyped, DriveTyped, Planned, Recorder!PlannedRounds
  <1>7. RecTyped'
    BY <1>1, <1>6 DEF RecInv, RecTyped, StoreTyped, NodesTyped, Planned, Recorder!PlannedRounds
  <1>8. CampaignsAccounted'
    <2> SUFFICES ASSUME driver' = "running", NEW c \in DOMAIN Plan, c < camp' PROVE Resolved(c)'
      BY <1>1 DEF CampaignsAccounted
    <2>1. camp \in Nat /\ c \in 1 .. Len(Plan) /\ camp' \in Nat
      BY <1>2, <1>4, PlanRounds
    <2>2. CASE c =< camp
      <3>1. Resolved(c)
        BY <1>1, <2>1, <2>2 DEF RecInv, RecProgress, CampaignsAccounted
      <3> QED
        BY <1>1, <3>1 DEF Resolved, Res, Recorder!HasResult
    <2>3. CASE c > camp
      <3>1. c \notin Recorder!Left
        BY <1>3, <2>1
      <3>2. Recorder!Done(c) = Plan[c]
        BY <2>1, <2>3, <3>1 DEF Recorder!Left
      <3> QED
        BY <1>1, <3>2 DEF Recorder!Done, Resolved, Res, Recorder!HasResult
    <2> QED
      BY <2>1, <2>2, <2>3
  <1>9. RecRuns' /\ CurOwn' /\ RoundsAccounted' /\ ListsTrue'
    BY <1>1, <1>4 DEF RecRuns, CurOwn, RoundsAccounted, ListsTrue, Recorder!Done, Res, Recorder!HasResult
  <1>10. RecDisk'
    BY <1>1, DiskRests DEF RecInv
  <1> QED
    BY <1>1, <1>7, <1>8, <1>9, <1>10 DEF RecInv, RecProgress, Recorder!LspadClosed

LEMMA AllMasksDoneInv == ASSUME Given, RecInv, Recorder!AllMasksDone PROVE RecInv'
  <1>1. /\ driver = "running" /\ rec_step = "none" /\ Recorder!Left = {}
        /\ driver' = "complete" /\ lspad' = lspad \ reach
        /\ UNCHANGED <<camp, mask_failed, rec_step, rec_todo, rec_cur, rec_attempt, done, rec_failed,
                       rec_measured, short, moved, recv,
                       raw, info, result, record, deleted, cut, refused, unclean, reach, rec_faults, rec_crashes>>
    BY DEF Recorder!AllMasksDone, Recorder!campaign, Recorder!meas, Recorder!disk, Recorder!notes, Recorder!StillOpen
  <1>2. RecTyped'
    BY <1>1, PlanRounds DEF RecInv, RecTyped, DriveTyped, StoreTyped, NodesTyped, Planned,
                            Recorder!PlannedRounds
  <1>3. CampaignsAccounted'
    <2> SUFFICES ASSUME NEW c \in DOMAIN Plan PROVE Resolved(c)'
      BY DEF CampaignsAccounted
    <2>1. camp \in Nat /\ c \in 1 .. Len(Plan)
      BY PlanRounds DEF RecInv, RecTyped, DriveTyped
    <2>2. CASE c =< camp
      <3>1. Resolved(c)
        BY <1>1, <2>1, <2>2 DEF RecInv, RecProgress, CampaignsAccounted
      <3> QED
        BY <1>1, <3>1 DEF Resolved, Res, Recorder!HasResult
    <2>3. CASE c > camp
      <3>1. Recorder!Done(c) = Plan[c]
        BY <1>1, <2>1, <2>3 DEF Recorder!Left
      <3> QED
        BY <1>1, <3>1 DEF Recorder!Done, Resolved, Res, Recorder!HasResult
    <2> QED
      BY <2>1, <2>2, <2>3
  <1>4. RecRuns' /\ CurOwn' /\ RoundsAccounted' /\ ListsTrue'
    BY <1>1 DEF RecRuns, CurOwn, RoundsAccounted, ListsTrue
  <1>5. RecDisk'
    BY <1>1, DiskRests DEF RecInv
  <1> QED
    BY <1>1, <1>2, <1>3, <1>4, <1>5 DEF RecInv, RecProgress, Recorder!LspadClosed

\* A campaign without a rec_failed round has all its results.
LEMMA CampaignEndsInv == ASSUME Given, RecInv, Recorder!CampaignEnds PROVE RecInv'
  <1>1. /\ driver = "running" /\ rec_step = "round" /\ rec_todo = {} /\ rec_step' = "none" /\ lspad' = lspad \ reach
        /\ mask_failed' = IF rec_failed = {} THEN mask_failed ELSE mask_failed \cup {camp}
        /\ UNCHANGED <<driver, camp, rec_todo, rec_cur, rec_attempt, done, rec_failed, rec_measured, short,
                       moved, recv, raw, info,
                       result, record, deleted, cut, refused, unclean, reach, rec_faults, rec_crashes>>
    BY DEF Recorder!CampaignEnds, Recorder!At, Recorder!Goto, Recorder!meas, Recorder!disk, Recorder!notes,
           Recorder!StillOpen
  <1>2. RecTyped'
    <2>1. mask_failed' \subseteq DOMAIN Plan
      BY <1>1 DEF RecInv, RecTyped, DriveTyped, RecProgress, RecRuns
    <2> QED
      BY <1>1, <2>1 DEF RecInv, RecTyped, DriveTyped, StoreTyped, NodesTyped, Planned,
                        Recorder!PlannedRounds
  <1>3. CampaignsAccounted'
    <2> SUFFICES ASSUME NEW c \in DOMAIN Plan, c < camp \/ c = camp PROVE Resolved(c)'
      BY <1>1 DEF CampaignsAccounted
    <2>1. CASE c < camp
      BY <1>1, <2>1 DEF RecInv, RecProgress, CampaignsAccounted, Resolved, Res, Recorder!HasResult
    <2>2. CASE c = camp
      BY <1>1, <2>2 DEF RecInv, RecProgress, RoundsAccounted, Resolved, Res, Recorder!HasResult
    <2> QED
      BY <2>1, <2>2
  <1>4. RecRuns' /\ CurOwn' /\ RoundsAccounted' /\ ListsTrue'
    BY <1>1 DEF RecRuns, CurOwn, RoundsAccounted, ListsTrue
  <1>5. RecDisk'
    BY <1>1, DiskRests DEF RecInv
  <1> QED
    BY <1>1, <1>2, <1>3, <1>4, <1>5 DEF RecInv, RecProgress, Recorder!LspadClosed

\* A node goes, and the user brings it back.
LEMMA NodesInv == ASSUME Given, RecInv, Recorder!UserHelps \/ \E n \in Nodes : Recorder!NodeGone(n)
                  PROVE  RecInv'
  <1>1. /\ UNCHANGED <<camp, mask_failed, rec_step, rec_todo, rec_cur, rec_attempt, done, rec_failed,
                       rec_measured, short, moved, raw,
                       info, result, record, deleted, cut, refused, unclean, lspad, rec_crashes>>
        /\ \/ /\ driver = "stopped" /\ driver' = "down" /\ reach' = Nodes /\ recv' = Recorder!Nothing
              /\ rec_faults' = rec_faults
           \/ /\ UNCHANGED <<driver, recv>> /\ reach' \subseteq reach
              /\ rec_faults < MaxFaults /\ rec_faults' = rec_faults + 1
    BY DEF Recorder!UserHelps, Recorder!NodeGone, Recorder!Fault, Recorder!campaign, Recorder!meas,
           Recorder!disk, Recorder!notes, Recorder!drive
  <1>2. RecTyped'
    <2>1. DriveTyped'
      BY <1>1 DEF RecInv, RecTyped, DriveTyped, Planned, Recorder!PlannedRounds
    <2>2. StoreTyped'
      BY <1>1 DEF RecInv, RecTyped, StoreTyped, Planned, Recorder!PlannedRounds, Recorder!Nothing
    <2>3. rec_faults' \in 0 .. MaxFaults
      BY <1>1, Bounds DEF RecInv, RecTyped, NodesTyped
    <2> QED
      BY <1>1, <2>1, <2>2, <2>3 DEF RecInv, RecTyped, NodesTyped
  <1>3. RecProgress'
    BY <1>1 DEF RecInv, RecProgress, RecRuns, CurOwn, RoundsAccounted, CampaignsAccounted, ListsTrue, Resolved,
                Res, Recorder!HasResult
  <1>4. RecDisk'
    BY <1>1, DiskRests DEF RecInv, RecProgress, RecRuns
  <1> QED
    BY <1>1, <1>2, <1>3, <1>4 DEF RecInv, Recorder!LspadClosed

\* A round begins an rec_attempt only where it has no result and no checked raw data.
LEMMA RecorderNextRoundInv == ASSUME Given, RecInv, Recorder!NextRound PROVE RecInv'
  <1>1. /\ driver = "running" /\ rec_step = "round" /\ rec_todo # {} /\ rec_cur' = Recorder!Min(rec_todo)
        /\ rec_todo' = rec_todo \ {rec_cur'} /\ rec_attempt' = 0
        /\ rec_step' = IF rec_cur' \in done THEN "round" ELSE IF Recorder!HaveRaw(rec_cur') THEN "analyze" ELSE "clear"
        /\ ~Recorder!Unreadable(rec_cur')
        /\ UNCHANGED <<driver, camp, mask_failed, done, rec_failed, rec_measured, short, moved, recv, raw,
                       info, result,
                       record, deleted, cut, refused, unclean, reach, lspad, rec_faults, rec_crashes>>
    BY DEF Recorder!NextRound, Recorder!At, Recorder!meas, Recorder!disk, Recorder!notes, Recorder!drive, Recorder!nodes
  <1>2. rec_todo \in SUBSET Nat /\ rec_todo \subseteq Plan[camp] /\ Plan[camp] \subseteq Planned /\ camp \in DOMAIN Plan
    BY <1>1, PlanRounds DEF RecInv, RecProgress, RecRuns
  <1>3. rec_cur' \in rec_todo /\ rec_cur' \in Planned /\ rec_cur' \in Plan[camp] /\ rec_cur' \notin rec_todo'
    BY <1>1, <1>2, RecorderMin
  <1>4. RecTyped'
    <2>1. DriveTyped'
      BY <1>1, <1>3, Bounds DEF RecInv, RecTyped, DriveTyped, Planned, Recorder!PlannedRounds
    <2> QED
      BY <1>1, <2>1 DEF RecInv, RecTyped, StoreTyped, NodesTyped, Planned, Recorder!PlannedRounds
  <1>5. RecRuns' /\ CurOwn' /\ ListsTrue' /\ CampaignsAccounted'
    BY <1>1, <1>2, <1>3, Bounds
       DEF RecInv, RecProgress, RecRuns, CurOwn, ListsTrue, CampaignsAccounted, Resolved, Res,
           Recorder!HasResult
  <1>6. RoundsAccounted'
    <2> SUFFICES ASSUME NEW r \in Plan[camp] PROVE \/ r \in rec_todo' \cup rec_failed \/ Res(r)
                                                   \/ r = rec_cur' /\ rec_step' # "round"
      BY <1>1 DEF RoundsAccounted, Res, Recorder!HasResult
    <2>1. r \in rec_todo \cup rec_failed \/ Res(r)
      BY <1>1 DEF RecInv, RecProgress, RoundsAccounted
    <2>2. rec_cur' \in done => Res(rec_cur')
      BY <1>1 DEF RecInv, RecProgress, ListsTrue
    <2> QED
      BY <1>1, <2>1, <2>2
  <1>7. CurOpen'
    <2>1. rec_cur' \notin done => ~Res(rec_cur')
      BY <1>1, <1>3 DEF RecInv, RecProgress, ListsTrue
    <2>2. ASSUME ~Recorder!HaveRaw(rec_cur'), ~Res(rec_cur') PROVE info[rec_cur'] # "whole"
      <3> SUFFICES ASSUME info[rec_cur'] = "whole" PROVE FALSE
        OBVIOUS
      <3>1. \A n \in Nodes : raw[rec_cur'][n] # 0
        BY <1>3, <2>2 DEF RecInv, RecDisk, RawWhole, OneAcquisition
      <3> QED
        BY <2>2, <3>1, NodeOne DEF Recorder!HaveRaw
    <2>3. Recorder!HaveRaw(rec_cur') /\ rec_cur' \notin done => info[rec_cur'] = "whole"
      BY <1>1, <1>3 DEF Recorder!HaveRaw, Recorder!Unreadable, RecInv, RecTyped, StoreTyped, FileStates
    <2> QED
      BY <1>1, <2>1, <2>2, <2>3 DEF CurOpen, Attempting, Res, Recorder!HasResult
  <1>8. RecDisk'
    <2>1. ResultsSaved' /\ Recorder!DeletedSavedOrCut' /\ RawWhole' /\ OfThisAttempt'
      BY <1>1 DEF RecInv, RecDisk, ResultsSaved, Saved, Recorder!DeletedSavedOrCut,
                  RawWhole, OneAcquisition, OfThisAttempt, Res,
                  Recorder!HasResult, Recorder!Nothing, Planned, Recorder!PlannedRounds
    <2> QED
      BY <1>7, <2>1 DEF RecDisk
  <1> QED
    BY <1>1, <1>4, <1>5, <1>6, <1>8 DEF RecInv, RecProgress, Recorder!LspadClosed

\* What rmtree leaves is a part of what was there.
LEMMA KeptTyped ==
    ASSUME NEW m \in Nat, NEW f \in [Nodes -> 0 .. m], NEW K
    PROVE  Recorder!Kept(f, K) \in [Nodes -> 0 .. m]
  BY DEF Recorder!Kept

\* Steps of an rec_attempt at a round.
LEMMA ClearInv == ASSUME Given, RecInv, Recorder!Clear PROVE RecInv'
  <1>1. /\ driver = "running" /\ rec_step = "clear" /\ rec_attempt' = rec_attempt + 1 /\ rec_step' = "up"
        /\ \E K \in SUBSET Nodes : recv' = Recorder!Kept(recv, K)
        /\ unclean' = IF recv' = Recorder!Nothing THEN unclean \ {rec_cur} ELSE unclean \cup {rec_cur}
        /\ UNCHANGED <<driver, camp, mask_failed, rec_todo, rec_cur, done, rec_failed, rec_measured, short,
                       moved, raw, info,
                       result, record, deleted, cut, refused, reach, lspad, rec_faults, rec_crashes>>
    BY DEF Recorder!Clear, Recorder!At, Recorder!meas, Recorder!drive, Recorder!nodes
  <1>0. rec_cur \in Planned
    BY <1>1, PlanRounds DEF RecInv, RecProgress, CurOwn, RecRuns
  <1>2. RecTyped'
    <2>1. rec_attempt' \in 0 .. Attempts
      BY <1>1, Bounds DEF RecInv, RecTyped, DriveTyped, RecProgress, RecRuns
    <2>2. recv' \in [Nodes -> 0 .. rec_measured]
      BY <1>1, KeptTyped DEF RecInv, RecTyped, StoreTyped
    <2>3. unclean' \subseteq Planned
      BY <1>1, <1>0 DEF RecInv, RecTyped, StoreTyped
    <2> QED
      BY <1>1, <2>1, <2>2, <2>3 DEF RecInv, RecTyped, DriveTyped, StoreTyped, NodesTyped, Planned,
                              Recorder!PlannedRounds
  <1>3. RecProgress'
    BY <1>1 DEF RecInv, RecProgress, RecRuns, CurOwn, RoundsAccounted, CampaignsAccounted, ListsTrue, Resolved,
                Res, Recorder!HasResult
  <1>4. RecDisk'
    <2>1. CurOpen' /\ OfThisAttempt'
      BY <1>1 DEF RecInv, RecDisk, CurOpen, Attempting, OfThisAttempt, Res, Recorder!HasResult
    <2>2. RawWhole'
      <3>1. info[rec_cur] # "whole"
        BY <1>1 DEF RecInv, RecDisk, CurOpen, Attempting
      <3>2. \A r \in Planned : r # rec_cur /\ r \in unclean => r \in unclean'
        BY <1>1
      <3> QED
        BY <1>1, <3>1, <3>2 DEF RecInv, RecDisk, RawWhole, OneAcquisition, Res, Recorder!HasResult, Planned,
                                Recorder!PlannedRounds
    <2>3. ResultsSaved' /\ Recorder!DeletedSavedOrCut'
      BY <1>1 DEF RecInv, RecDisk, ResultsSaved, Saved, Recorder!DeletedSavedOrCut, Res, Recorder!HasResult,
                  Planned, Recorder!PlannedRounds
    <2> QED
      BY <2>1, <2>2, <2>3 DEF RecDisk
  <1> QED
    BY <1>1, <1>2, <1>3, <1>4 DEF RecInv, Recorder!LspadClosed

LEMMA BringUpInv == ASSUME Given, RecInv, Recorder!BringUp PROVE RecInv'
  <1>1. /\ driver = "running" /\ rec_step = "up" /\ lspad' = Nodes /\ rec_step' = "acquire"
        /\ UNCHANGED <<driver, camp, mask_failed, rec_todo, rec_cur, rec_attempt, done, rec_failed,
                       rec_measured, short, moved, recv,
                       raw, info, result, record, deleted, cut, refused, unclean, reach, rec_faults, rec_crashes>>
    BY DEF Recorder!BringUp, Recorder!At, Recorder!Goto, Recorder!meas, Recorder!drive, Recorder!disk, Recorder!notes
  <1>2. RecTyped'
    BY <1>1 DEF RecInv, RecTyped, DriveTyped, StoreTyped, NodesTyped, Planned, Recorder!PlannedRounds
  <1>3. RecProgress'
    BY <1>1 DEF RecInv, RecProgress, RecRuns, CurOwn, RoundsAccounted, CampaignsAccounted, ListsTrue, Resolved,
                Res, Recorder!HasResult
  <1>4. RecDisk'
    BY <1>1 DEF RecInv, RecDisk, CurOpen, Attempting, RawWhole, OneAcquisition, OfThisAttempt, ResultsSaved, Saved,
                Recorder!DeletedSavedOrCut, Res, Recorder!HasResult, Recorder!Nothing, Planned,
                Recorder!PlannedRounds
  <1> QED
    BY <1>1, <1>2, <1>3, <1>4 DEF RecInv, Recorder!LspadClosed

\* The disk after one more acquisition.
LEMMA OneMore ==
    ASSUME StoreTyped, NEW W, rec_measured' = rec_measured + 1
    PROVE  /\ rec_measured' \in Nat /\ rec_measured =< rec_measured'
           /\ Recorder!Wrote(W) \in [Nodes -> 0 .. rec_measured']
           /\ raw \in [Planned -> [Nodes -> 0 .. rec_measured']]
  <1>1. rec_measured \in Nat /\ rec_measured' \in Nat /\ 0 .. rec_measured \subseteq 0 .. rec_measured'
        /\ rec_measured' \in 0 .. rec_measured'
    BY DEF StoreTyped
  <1>2. \A n \in Nodes : recv[n] \in 0 .. rec_measured'
    BY <1>1 DEF StoreTyped
  <1>3. \A r \in Planned : raw[r] \in [Nodes -> 0 .. rec_measured']
    BY <1>1 DEF StoreTyped
  <1>4. Recorder!Wrote(W) \in [Nodes -> 0 .. rec_measured']
    BY <1>1, <1>2 DEF Recorder!Wrote
  <1>5. raw \in [Planned -> [Nodes -> 0 .. rec_measured']]
    BY <1>3 DEF StoreTyped
  <1> QED
    BY <1>1, <1>4, <1>5

LEMMA AcquireInv == ASSUME Given, RecInv, Recorder!Acquire PROVE RecInv'
  <1>1. /\ driver = "running" /\ rec_step = "acquire" /\ rec_measured' = rec_measured + 1
        /\ moved' = {} /\ rec_step' = "archive"
        /\ UNCHANGED <<driver, camp, mask_failed, rec_todo, rec_cur, rec_attempt, done, rec_failed, raw, info,
                       result, record,
                       deleted, cut, refused, unclean, reach, lspad, rec_crashes>>
    BY DEF Recorder!Acquire, Recorder!At, Recorder!Goto, Recorder!drive, Recorder!nodes, Recorder!notes
  <1>2. /\ \E W : recv' = Recorder!Wrote(W)
        /\ short' \in BOOLEAN /\ rec_faults' \in 0 .. MaxFaults
    <2>1. CASE recv' = Recorder!Wrote(Nodes) /\ short' = FALSE /\ rec_faults' = rec_faults
      <3>1. short' \in BOOLEAN
        BY <2>1
      <3> QED
        BY <2>1, <3>1 DEF RecInv, RecTyped, NodesTyped
    <2>2. CASE \E W \in SUBSET Nodes : recv' = Recorder!Wrote(W) /\ short' \in BOOLEAN /\ Recorder!Fault
      <3>1. rec_faults' \in 0 .. MaxFaults
        BY <2>2, Bounds DEF RecInv, RecTyped, NodesTyped, Recorder!Fault
      <3>2. short' \in BOOLEAN
        BY <2>2
      <3>3. \E W : recv' = Recorder!Wrote(W)
        BY <2>2
      <3> QED
        BY <3>1, <3>2, <3>3
    <2> QED
      BY <2>1, <2>2 DEF Recorder!Acquire
  <1>3. PICK W : recv' = Recorder!Wrote(W)
    BY <1>2
  <1>4. /\ rec_measured' \in Nat /\ Recorder!Wrote(W) \in [Nodes -> 0 .. rec_measured']
        /\ raw \in [Planned -> [Nodes -> 0 .. rec_measured']]
    BY <1>1, OneMore DEF RecInv, RecTyped
  <1>5. RecTyped'
    <2>1. DriveTyped'
      BY <1>1 DEF RecInv, RecTyped, DriveTyped, Planned, Recorder!PlannedRounds
    <2>2. StoreTyped'
      BY <1>1, <1>3, <1>4 DEF RecInv, RecTyped, StoreTyped, Planned, Recorder!PlannedRounds
    <2>3. NodesTyped'
      BY <1>1, <1>2 DEF RecInv, RecTyped, NodesTyped
    <2> QED
      BY <2>1, <2>2, <2>3 DEF RecTyped
  <1>6. RecProgress'
    BY <1>1 DEF RecInv, RecProgress, RecRuns, CurOwn, RoundsAccounted, CampaignsAccounted, ListsTrue, Resolved,
                Res, Recorder!HasResult
  <1>7. OfThisAttempt'
    <2>1. rec_cur \in unclean \/ recv = Recorder!Nothing
      BY <1>1 DEF RecInv, RecDisk, OfThisAttempt
    <2>2. rec_cur \in unclean \/ \A n \in Nodes : recv'[n] \in {0, rec_measured'}
      BY <1>3, <2>1 DEF Recorder!Wrote, Recorder!Nothing
    <2> QED
      BY <1>1, <2>2 DEF OfThisAttempt
  <1>8. RecDisk'
    BY <1>1, <1>7 DEF RecInv, RecDisk, CurOpen, Attempting, RawWhole, OneAcquisition,
                      ResultsSaved, Saved, Recorder!DeletedSavedOrCut,
                      Res, Recorder!HasResult, Recorder!Nothing, Planned, Recorder!PlannedRounds
  <1> QED
    BY <1>1, <1>5, <1>6, <1>8 DEF RecInv, Recorder!LspadClosed

LEMMA ArchiveInv == ASSUME Given, RecInv, Recorder!Archive PROVE RecInv'
  <1> DEFINE n == Recorder!Min(Nodes \ moved)
  <1>1. /\ driver = "running" /\ rec_step = "archive" /\ moved # Nodes /\ moved' = moved \cup {n}
        /\ raw' = [raw EXCEPT ![rec_cur][n] = recv[n]] /\ recv' = [recv EXCEPT ![n] = 0]
        /\ UNCHANGED <<driver, camp, mask_failed, rec_step, rec_todo, rec_cur, rec_attempt, done, rec_failed,
                       rec_measured, short, info,
                       result, record, deleted, cut, refused, unclean, reach, lspad, rec_faults, rec_crashes>>
    BY DEF Recorder!Archive, Recorder!At, Recorder!drive, Recorder!campaign, Recorder!nodes, Recorder!notes
  <1>2. n \in Nodes
    <2>1. Nodes \ moved \in SUBSET Nat /\ Nodes \ moved # {}
      BY <1>1, NodeOne DEF RecInv, RecTyped, NodesTyped
    <2> QED
      BY <2>1, RecorderMin
  <1> HIDE DEF n
  <1>3. rec_cur \in Planned
    BY <1>1, PlanRounds DEF RecInv, RecProgress, CurOwn, RecRuns
  <1>4. recv[n] \in 0 .. rec_measured /\ recv \in [Nodes -> 0 .. rec_measured] /\ rec_measured \in Nat
        /\ raw \in [Planned -> [Nodes -> 0 .. rec_measured]]
    BY <1>2 DEF RecInv, RecTyped, StoreTyped
  <1>5. recv' \in [Nodes -> 0 .. rec_measured] /\ raw' \in [Planned -> [Nodes -> 0 .. rec_measured]]
    <2>1. recv' \in [Nodes -> 0 .. rec_measured]
      <3>1. 0 \in 0 .. rec_measured /\ recv' = [recv EXCEPT ![n] = 0]
        BY <1>1, <1>4
      <3> QED
        BY <1>4, <3>1
    <2>2. [raw[rec_cur] EXCEPT ![n] = recv[n]] \in [Nodes -> 0 .. rec_measured]
      BY <1>3, <1>4
    <2>3. raw' = [raw EXCEPT ![rec_cur] = [raw[rec_cur] EXCEPT ![n] = recv[n]]]
      BY <1>1, <1>3, <1>4
    <2> QED
      BY <1>3, <1>4, <2>1, <2>2, <2>3
  <1>6. RecTyped'
    BY <1>1, <1>2, <1>5 DEF RecInv, RecTyped, DriveTyped, StoreTyped, NodesTyped, Planned,
                            Recorder!PlannedRounds
  <1>7. RecProgress'
    BY <1>1 DEF RecInv, RecProgress, RecRuns, CurOwn, RoundsAccounted, CampaignsAccounted, ListsTrue, Resolved,
                Res, Recorder!HasResult
  <1>8. RawWhole'
    <2> SUFFICES ASSUME NEW r \in Planned, info[r] = "whole", ~Res(r)
                 PROVE  /\ \A k \in Nodes : raw'[r][k] # 0
                        /\ r \in unclean \/ OneAcquisition(r)'
      BY <1>1 DEF RawWhole, Res, Recorder!HasResult, Planned, Recorder!PlannedRounds
    <2>1. r # rec_cur
      BY <1>1 DEF RecInv, RecDisk, CurOpen, Attempting
    <2>2. raw'[r] = raw[r]
      BY <1>1, <1>4, <2>1
    <2> QED
      BY <2>2 DEF RecInv, RecDisk, RawWhole, OneAcquisition
  <1>9. OfThisAttempt'
    <2> SUFFICES ASSUME rec_cur \notin unclean PROVE OfThisAttempt'
      BY <1>1 DEF OfThisAttempt
    <2>1. \A k \in Nodes : recv'[k] \in {0, rec_measured}
      BY <1>1, <1>4 DEF RecInv, RecDisk, OfThisAttempt
    <2>2. ASSUME NEW k \in moved' PROVE raw'[rec_cur][k] \in {0, rec_measured}
      <3>1. CASE k = n
        <4>1. raw'[rec_cur][k] = recv[n]
          BY <1>1, <1>2, <1>3, <1>4, <3>1
        <4> QED
          BY <1>1, <1>2, <4>1 DEF RecInv, RecDisk, OfThisAttempt
      <3>2. CASE k # n
        <4>1. raw'[rec_cur][k] = raw[rec_cur][k] /\ k \in moved
          BY <1>1, <1>3, <1>4, <2>2, <3>2
        <4> QED
          BY <1>1, <4>1 DEF RecInv, RecDisk, OfThisAttempt
      <3> QED
        BY <3>1, <3>2
    <2> QED
      BY <1>1, <2>1, <2>2 DEF OfThisAttempt
  <1>10. RecDisk'
    BY <1>1, <1>8, <1>9 DEF RecInv, RecDisk, CurOpen, Attempting, ResultsSaved, Saved, Recorder!DeletedSavedOrCut,
                            Res, Recorder!HasResult, Planned, Recorder!PlannedRounds
  <1> QED
    BY <1>1, <1>6, <1>7, <1>10 DEF RecInv, Recorder!LspadClosed

\* A round that passes the check holds this acquisition, of every node.
LEMMA CheckInv == ASSUME Given, RecInv, Recorder!Check PROVE RecInv'
  <1>1. /\ driver = "running" /\ rec_step = "archive" /\ moved = Nodes /\ Recorder!Fine
        /\ info' = [info EXCEPT ![rec_cur] = "whole"] /\ rec_step' = "analyze"
        /\ UNCHANGED <<driver, camp, mask_failed, rec_todo, rec_cur, rec_attempt, done, rec_failed,
                       rec_measured, short, moved, recv,
                       raw, result, record, deleted, cut, refused, unclean, reach, lspad, rec_faults, rec_crashes>>
    BY DEF Recorder!Check, Recorder!At, Recorder!Goto, Recorder!drive, Recorder!meas, Recorder!nodes,
           Recorder!notes
  <1>2. rec_cur \in Planned
    BY <1>1, PlanRounds DEF RecInv, RecProgress, CurOwn, RecRuns
  <1>3. /\ info' \in [Planned -> FileStates] /\ info'[rec_cur] = "whole"
        /\ \A r \in Planned : r # rec_cur => info'[r] = info[r]
    BY <1>1, <1>2 DEF RecInv, RecTyped, StoreTyped, FileStates
  <1>4. RecTyped'
    BY <1>1, <1>3 DEF RecInv, RecTyped, DriveTyped, StoreTyped, NodesTyped, Planned, Recorder!PlannedRounds
  <1>5. RecProgress'
    BY <1>1 DEF RecInv, RecProgress, RecRuns, CurOwn, RoundsAccounted, CampaignsAccounted, ListsTrue, Resolved,
                Res, Recorder!HasResult
  <1>6. (\A n \in Nodes : raw[rec_cur][n] # 0) /\ (rec_cur \in unclean \/ OneAcquisition(rec_cur))
    <2>1. \A n \in Nodes : raw[rec_cur][n] # 0
      BY <1>1 DEF Recorder!Fine
    <2>2. rec_cur \in unclean \/ \A n \in Nodes : raw[rec_cur][n] \in {0, rec_measured}
      BY <1>1 DEF RecInv, RecDisk, OfThisAttempt
    <2> QED
      BY <2>1, <2>2 DEF OneAcquisition
  <1>7. RawWhole'
    <2> SUFFICES ASSUME NEW r \in Planned, info'[r] = "whole", ~Res(r)
                 PROVE  (\A n \in Nodes : raw[r][n] # 0) /\ (r \in unclean \/ OneAcquisition(r))
      BY <1>1 DEF RawWhole, OneAcquisition, Res, Recorder!HasResult, Planned, Recorder!PlannedRounds
    <2> QED
      BY <1>3, <1>6 DEF RecInv, RecDisk, RawWhole
  <1>8. RecDisk'
    BY <1>1, <1>3, <1>7 DEF RecInv, RecDisk, CurOpen, Attempting, OfThisAttempt, ResultsSaved, Saved,
                            Recorder!DeletedSavedOrCut, Res, Recorder!HasResult, Planned,
                            Recorder!PlannedRounds
  <1> QED
    BY <1>1, <1>4, <1>5, <1>8 DEF RecInv, Recorder!LspadClosed

\* An attempt that fails: its round.json, if it came to that, is no whole one.
LEMMA RecorderFailsInv ==
    ASSUME Given, RecInv, driver = "running", rec_step \in {"up", "acquire", "archive"},
           NEW came, Recorder!AttemptFails(came),
           rec_measured' \in Nat, came \in [Nodes -> 0 .. rec_measured'],
           raw \in [Planned -> [Nodes -> 0 .. rec_measured']],
           moved' = moved, short' = short, rec_faults' \in 0 .. MaxFaults,
           info' = info \/ info' = [info EXCEPT ![rec_cur] = "torn"]
    PROVE  RecInv'
  <1>1. /\ \E K \in SUBSET Nodes : raw' = [raw EXCEPT ![rec_cur] = Recorder!Kept(@, K)]
        /\ recv' = came
        /\ UNCHANGED <<camp, mask_failed, rec_todo, rec_cur, rec_attempt, done, result, record, deleted,
                       cut, refused, unclean, reach,
                       rec_crashes>>
        /\ \/ rec_step' = "none" /\ rec_failed' = rec_failed /\ driver' = "stopped" /\ lspad' = lspad \ reach
           \/ /\ rec_step' = "clear" /\ rec_failed' = rec_failed /\ rec_attempt < Attempts
              /\ UNCHANGED <<driver, lspad>>
           \/ rec_step' = "round" /\ rec_failed' = rec_failed \cup {rec_cur} /\ UNCHANGED <<driver, lspad>>
    BY DEF Recorder!AttemptFails, Recorder!Goto, Recorder!StillOpen, Recorder!MoreAttempts, Recorder!FailedNow,
           Recorder!notes
  <1>2. rec_cur \in Planned /\ rec_cur \in Plan[camp]
    BY PlanRounds DEF RecInv, RecProgress, CurOwn, RecRuns
  <1>3. RecTyped'
    <2>1. DriveTyped'
      BY <1>1, <1>2 DEF RecInv, RecTyped, DriveTyped, Planned, Recorder!PlannedRounds
    <2>2. \A K : Recorder!Kept(raw[rec_cur], K) \in [Nodes -> 0 .. rec_measured']
      BY <1>2, KeptTyped
    <2>3. raw' \in [Planned -> [Nodes -> 0 .. rec_measured']]
      BY <1>1, <2>2
    <2>6. info' \in [Planned -> FileStates]
      BY <1>2 DEF RecInv, RecTyped, StoreTyped, FileStates
    <2>4. StoreTyped'
      BY <1>1, <2>3, <2>6 DEF RecInv, RecTyped, StoreTyped, Planned, Recorder!PlannedRounds
    <2>5. NodesTyped'
      BY <1>1 DEF RecInv, RecTyped, NodesTyped
    <2> QED
      BY <2>1, <2>4, <2>5 DEF RecTyped
  <1>4. RecProgress'
    BY <1>1, <1>2 DEF RecInv, RecProgress, RecRuns, CurOwn, RoundsAccounted, CampaignsAccounted, ListsTrue,
                      Resolved, Res, Recorder!HasResult
  <1>5. RawWhole'
    <2> SUFFICES ASSUME NEW r \in Planned, info'[r] = "whole", ~Res(r)
                 PROVE  (\A n \in Nodes : raw'[r][n] # 0) /\ (r \in unclean \/ OneAcquisition(r)')
      BY <1>1 DEF RawWhole, Res, Recorder!HasResult, Planned, Recorder!PlannedRounds
    <2>0. info[rec_cur] # "whole" /\ info'[rec_cur] # "whole" /\ (r # rec_cur => info'[r] = info[r])
      BY <1>2 DEF RecInv, RecDisk, CurOpen, Attempting, RecTyped, StoreTyped
    <2>1. r # rec_cur
      BY <2>0
    <2>2. raw'[r] = raw[r]
      BY <1>1, <2>1
    <2> QED
      BY <2>0, <2>1, <2>2 DEF RecInv, RecDisk, RawWhole, OneAcquisition, OneAcquisition
  <1>6. RecDisk'
    <2>1. info'[rec_cur] # "whole"
      BY <1>2 DEF RecInv, RecDisk, CurOpen, Attempting, RecTyped, StoreTyped
    <2>2. CurOpen' /\ OfThisAttempt'
      BY <1>1, <2>1 DEF RecInv, RecDisk, CurOpen, Attempting, OfThisAttempt, Res, Recorder!HasResult
    <2>3. ResultsSaved' /\ Recorder!DeletedSavedOrCut'
      BY <1>1 DEF RecInv, RecDisk, ResultsSaved, Saved, Recorder!DeletedSavedOrCut, Res, Recorder!HasResult,
                  Planned, Recorder!PlannedRounds
    <2> QED
      BY <1>5, <2>2, <2>3 DEF RecDisk
  <1> QED
    BY <1>1, <1>3, <1>4, <1>6 DEF RecInv, Recorder!LspadClosed

LEMMA RecorderFaultsInv ==
    ASSUME Given, RecInv,
           \/ Recorder!UpFails \/ Recorder!AcquireFails \/ Recorder!ArchiveFails
           \/ Recorder!CheckFails \/ Recorder!InfoFails
    PROVE  RecInv'
  <1>1. rec_faults' \in 0 .. MaxFaults
    BY Bounds DEF RecInv, RecTyped, NodesTyped, Recorder!Fault, Recorder!UpFails, Recorder!AcquireFails,
                  Recorder!ArchiveFails, Recorder!CheckFails, Recorder!InfoFails
  <1>2. driver = "running" /\ rec_step \in {"up", "acquire", "archive"} /\ moved' = moved /\ short' = short
    BY DEF Recorder!At, Recorder!meas, Recorder!UpFails, Recorder!AcquireFails, Recorder!ArchiveFails,
           Recorder!CheckFails, Recorder!InfoFails
  <1>5. info' = info \/ info' = [info EXCEPT ![rec_cur] = "torn"]
    BY DEF Recorder!UpFails, Recorder!AcquireFails, Recorder!ArchiveFails, Recorder!CheckFails,
           Recorder!InfoFails, Recorder!Half
  <1>3. CASE Recorder!AcquireFails
    <2>1. rec_measured' = rec_measured + 1 /\ \E W \in SUBSET Nodes : Recorder!AttemptFails(Recorder!Wrote(W))
      BY <1>3 DEF Recorder!AcquireFails
    <2>2. PICK W : Recorder!AttemptFails(Recorder!Wrote(W))
      BY <2>1
    <2>3. /\ rec_measured' \in Nat /\ Recorder!Wrote(W) \in [Nodes -> 0 .. rec_measured']
          /\ raw \in [Planned -> [Nodes -> 0 .. rec_measured']]
      BY <2>1, OneMore DEF RecInv, RecTyped
    <2> QED
      BY <1>1, <1>2, <1>5, <2>2, <2>3, RecorderFailsInv
  <1>4. CASE ~Recorder!AcquireFails
    <2>1. rec_measured' = rec_measured /\ Recorder!AttemptFails(recv)
      BY <1>4 DEF Recorder!meas, Recorder!UpFails, Recorder!ArchiveFails, Recorder!CheckFails,
                 Recorder!InfoFails
    <2>2. /\ rec_measured' \in Nat /\ recv \in [Nodes -> 0 .. rec_measured']
          /\ raw \in [Planned -> [Nodes -> 0 .. rec_measured']]
      BY <2>1 DEF RecInv, RecTyped, StoreTyped
    <2> QED
      BY <1>1, <1>2, <1>5, <2>1, <2>2, RecorderFailsInv
  <1> QED
    BY <1>3, <1>4

\* The analysis of a round and what is saved of it.
LEMMA AnalyzeInv == ASSUME Given, RecInv, Recorder!Analyze \/ Recorder!AnalysisEnds PROVE RecInv'
  <1>1. /\ driver = "running"
        /\ \/ rec_step = "analyze" /\ rec_step' = "written" /\ result' = [result EXCEPT ![rec_cur] = "torn"]
           \/ rec_step = "written" /\ rec_step' = "record" /\ result' = [result EXCEPT ![rec_cur] = "whole"]
        /\ UNCHANGED <<driver, camp, mask_failed, rec_todo, rec_cur, rec_attempt, done, rec_failed,
                       rec_measured, short, moved, recv,
                       raw, info, record, deleted, cut, refused, unclean, reach, lspad, rec_faults, rec_crashes>>
    BY DEF Recorder!Analyze, Recorder!AnalysisEnds, Recorder!At, Recorder!Goto, Recorder!drive, Recorder!meas,
           Recorder!nodes, Recorder!notes
  <1>2. rec_cur \in Planned /\ rec_cur \in Plan[camp] /\ rec_cur \notin rec_todo /\ camp \in DOMAIN Plan
    BY <1>1, PlanRounds DEF RecInv, RecProgress, CurOwn, RecRuns
  <1>3. /\ result' \in [Planned -> FileStates] /\ result'[rec_cur] # "none"
        /\ (rec_step' = "record" => result'[rec_cur] = "whole") /\ (rec_step = "analyze" => result[rec_cur] = "none")
        /\ \A r \in Planned : r # rec_cur => result'[r] = result[r]
    BY <1>1, <1>2 DEF RecInv, RecTyped, StoreTyped, FileStates, RecDisk, CurOpen, Res, Recorder!HasResult
  <1>4. RecTyped'
    BY <1>1, <1>3 DEF RecInv, RecTyped, DriveTyped, StoreTyped, NodesTyped, Planned, Recorder!PlannedRounds
  <1>5. \A r \in Planned : Res(r)' <=> Res(r) \/ r = rec_cur
    BY <1>3 DEF Res, Recorder!HasResult
  <1>6. \A c \in DOMAIN Plan : Resolved(c) => Resolved(c)'
    <2>1. \A c \in DOMAIN Plan : Plan[c] \subseteq Planned
      BY PlanRounds
    <2> QED
      BY <1>1, <1>5, <2>1 DEF Resolved
  <1>7. RecRuns' /\ CurOwn' /\ CampaignsAccounted'
    BY <1>1, <1>6 DEF RecInv, RecProgress, RecRuns, CurOwn, CampaignsAccounted
  <1>8. RoundsAccounted' /\ ListsTrue'
    <2>1. Plan[camp] \subseteq Planned /\ rec_todo \subseteq Planned /\ done \subseteq Planned
      BY <1>2, PlanRounds DEF RecInv, RecTyped, DriveTyped
    <2> QED
      BY <1>1, <1>2, <1>5, <2>1 DEF RecInv, RecProgress, RoundsAccounted, ListsTrue
  <1>9. RecDisk'
    <2>1. CurOpen' /\ OfThisAttempt'
      BY <1>1, <1>3 DEF RecInv, RecDisk, CurOpen, Attempting, OfThisAttempt
    <2>2. \A r \in Planned : Res(r) /\ Saved(r) => Saved(r)'
      BY <1>1, <1>3 DEF Saved, Res, Recorder!HasResult
    <2>3. ResultsSaved'
      BY <1>1, <1>5, <2>2 DEF RecInv, RecDisk, ResultsSaved, Planned, Recorder!PlannedRounds
    <2>4. Recorder!DeletedSavedOrCut'
      <3>1. \A r \in deleted : r \in Planned
        BY DEF RecInv, RecTyped, StoreTyped
      <3> QED
        BY <1>1, <1>3, <3>1 DEF RecInv, RecDisk, Recorder!DeletedSavedOrCut
    <2>5. RawWhole'
      BY <1>1, <1>5 DEF RecInv, RecDisk, RawWhole, OneAcquisition, Planned, Recorder!PlannedRounds
    <2> QED
      BY <2>1, <2>3, <2>4, <2>5 DEF RecDisk
  <1> QED
    BY <1>1, <1>4, <1>7, <1>8, <1>9 DEF RecInv, RecProgress, Recorder!LspadClosed

LEMMA AnalysisFailsInv == ASSUME Given, RecInv, Recorder!AnalysisFails PROVE RecInv'
  <1>1. /\ driver = "running" /\ rec_step \in {"analyze", "written"} /\ rec_step' = "round"
        /\ rec_failed' = rec_failed \cup {rec_cur} /\ rec_faults < MaxFaults /\ rec_faults' = rec_faults + 1
        /\ cut' = IF rec_step = "written" THEN cut \cup {rec_cur} ELSE cut
        /\ UNCHANGED <<driver, camp, mask_failed, rec_todo, rec_cur, rec_attempt, done, rec_measured, short,
                       moved, recv, raw,
                       info, result, record, deleted, refused, unclean, reach, lspad, rec_crashes>>
    BY DEF Recorder!AnalysisFails, Recorder!At, Recorder!Fault, Recorder!FailedNow, Recorder!drive,
           Recorder!meas, Recorder!nodes
  <1>2. rec_cur \in Planned
    BY <1>1, PlanRounds DEF RecInv, RecProgress, CurOwn, RecRuns
  <1>3. RecTyped'
    <2>1. rec_faults' \in 0 .. MaxFaults
      BY <1>1, Bounds DEF RecInv, RecTyped, NodesTyped
    <2> QED
      BY <1>1, <1>2, <2>1 DEF RecInv, RecTyped, DriveTyped, StoreTyped, NodesTyped, Planned,
                              Recorder!PlannedRounds
  <1>4. RecProgress'
    BY <1>1 DEF RecInv, RecProgress, RecRuns, CurOwn, RoundsAccounted, CampaignsAccounted, ListsTrue, Resolved,
                Res, Recorder!HasResult
  <1>5. RecDisk'
    <2>1. CurOpen' /\ OfThisAttempt' /\ Recorder!DeletedSavedOrCut'
      BY <1>1 DEF RecInv, RecDisk, CurOpen, Attempting, OfThisAttempt, Recorder!DeletedSavedOrCut
    <2>2. ResultsSaved'
      BY <1>1 DEF RecInv, RecDisk, ResultsSaved, Saved, CurOpen, Res, Recorder!HasResult, Planned,
                  Recorder!PlannedRounds
    <2>3. RawWhole'
      BY <1>1 DEF RecInv, RecDisk, RawWhole, OneAcquisition, Res, Recorder!HasResult, Planned, Recorder!PlannedRounds,
                  Recorder!Nothing
    <2> QED
      BY <2>1, <2>2, <2>3 DEF RecDisk
  <1> QED
    BY <1>1, <1>3, <1>4, <1>5 DEF RecInv, Recorder!LspadClosed

LEMMA RecordInv == ASSUME Given, RecInv, Recorder!Record PROVE RecInv'
  <1>1. /\ driver = "running" /\ rec_step = "record" /\ rec_step' = "budget"
        /\ done' = done \cup {rec_cur} /\ rec_faults' \in {rec_faults, rec_faults + 1}
        /\ rec_faults' = rec_faults + 1 => rec_faults < MaxFaults
        /\ \/ record' = record \cup {rec_cur} /\ refused' = refused
           \/ record' = record /\ refused' = refused \cup {rec_cur}
        /\ UNCHANGED <<driver, camp, mask_failed, rec_todo, rec_cur, rec_attempt, rec_failed, rec_measured,
                       short, moved, recv, raw,
                       info, result, deleted, cut, unclean, reach, lspad, rec_crashes>>
    BY Bounds DEF Recorder!Record, Recorder!Fault, RecInv, RecTyped, NodesTyped, Recorder!At, Recorder!drive,
                  Recorder!meas, Recorder!nodes
  <1>2. rec_cur \in Planned
    BY <1>1, PlanRounds DEF RecInv, RecProgress, CurOwn, RecRuns
  <1>3. RecTyped'
    <2>1. rec_faults' \in 0 .. MaxFaults
      BY <1>1, Bounds DEF RecInv, RecTyped, NodesTyped
    <2> QED
      BY <1>1, <1>2, <2>1 DEF RecInv, RecTyped, DriveTyped, StoreTyped, NodesTyped, Planned, Recorder!PlannedRounds
  <1>4. RecProgress'
    BY <1>1 DEF RecInv, RecProgress, RecRuns, CurOwn, RoundsAccounted, CampaignsAccounted, ListsTrue, Resolved,
                Res, Recorder!HasResult
  <1>5. RecDisk'
    BY <1>1 DEF RecInv, RecDisk, CurOpen, Attempting, OfThisAttempt, Recorder!DeletedSavedOrCut, ResultsSaved, Saved,
                RawWhole, OneAcquisition, Res, Recorder!HasResult, Planned, Recorder!PlannedRounds, Recorder!Nothing
  <1> QED
    BY <1>1, <1>3, <1>4, <1>5 DEF RecInv, Recorder!LspadClosed

\* record.py ends with exit 1: its campaign is listed.
LEMMA RecorderDiesInv ==
    ASSUME Given, RecInv, Recorder!RoundUnreadable \/ Recorder!RecordFails
    PROVE  RecInv'
  <1>1. /\ driver = "running" /\ rec_step \in {"round", "record"} /\ rec_step' = "none"
        /\ lspad' = lspad \ reach /\ mask_failed' = mask_failed \cup {camp}
        /\ rec_faults' \in 0 .. MaxFaults
        /\ cut' = IF rec_step = "record" THEN cut \cup {rec_cur} ELSE cut
        /\ UNCHANGED <<driver, camp, rec_todo, rec_cur, rec_attempt, done, rec_failed, rec_measured, short,
                       moved, recv, raw, info, result, record, deleted, refused, unclean, reach, rec_crashes>>
    BY Bounds DEF Recorder!RoundUnreadable, Recorder!RecordFails, Recorder!Dies, Recorder!At, Recorder!Goto,
           Recorder!Fault, Recorder!StillOpen, Recorder!meas, Recorder!disk, Recorder!notes, RecInv, RecTyped,
           NodesTyped
  <1>2. camp \in DOMAIN Plan /\ (rec_step = "record" => rec_cur \in Planned)
    BY <1>1, PlanRounds DEF RecInv, RecProgress, CurOwn, RecRuns
  <1>3. RecTyped'
    BY <1>1, <1>2 DEF RecInv, RecTyped, DriveTyped, StoreTyped, NodesTyped, Planned, Recorder!PlannedRounds
  <1>4. RecProgress'
    BY <1>1 DEF RecInv, RecProgress, RecRuns, CurOwn, RoundsAccounted, CampaignsAccounted, ListsTrue, Resolved,
                Res, Recorder!HasResult
  <1>5. RecDisk'
    BY <1>1 DEF RecInv, RecDisk, CurOpen, Attempting, OfThisAttempt, Recorder!DeletedSavedOrCut, ResultsSaved,
                Saved, RawWhole, OneAcquisition, Res, Recorder!HasResult, Planned, Recorder!PlannedRounds
  <1> QED
    BY <1>1, <1>3, <1>4, <1>5 DEF RecInv, Recorder!LspadClosed

\* What loses its raw stamps has its result, and is saved or was cut.
LEMMA BudgetInv == ASSUME Given, RecInv, Recorder!Budget PROVE RecInv'
  <1> DEFINE D == {r \in Plan[camp] : r =< rec_cur /\ Recorder!Deletable(r)}
  <1>1. /\ driver = "running" /\ rec_step = "budget" /\ rec_step' = "round"
        /\ \E K : raw' = [r \in Planned |-> IF r \in D THEN Recorder!Kept(raw[r], K) ELSE raw[r]]
        /\ deleted' = deleted \cup D
        /\ UNCHANGED <<driver, camp, mask_failed, rec_todo, rec_cur, rec_attempt, done, rec_failed,
                       rec_measured, short, moved, recv,
                       info, result, record, cut, refused, unclean, reach, lspad, rec_crashes>>
    BY DEF Recorder!Budget, Recorder!Fault, Recorder!notes, Recorder!At, Recorder!Goto, Recorder!drive,
           Recorder!meas, Recorder!nodes, Planned
  <1>6. rec_faults' \in 0 .. MaxFaults
    BY Bounds DEF Recorder!Budget, Recorder!Fault, RecInv, RecTyped, NodesTyped
  <1>2. \A r \in D : r \in Planned /\ Res(r)
    BY <1>1, PlanRounds DEF RecInv, RecProgress, RecRuns, Recorder!Deletable, Res
  <1> HIDE DEF D
  <1>3. RecTyped'
    <2>1. \A r \in Planned : \A K : Recorder!Kept(raw[r], K) \in [Nodes -> 0 .. rec_measured]
      BY KeptTyped DEF RecInv, RecTyped, StoreTyped
    <2>2. raw' \in [Planned -> [Nodes -> 0 .. rec_measured]]
      BY <1>1, <2>1 DEF RecInv, RecTyped, StoreTyped
    <2> QED
      BY <1>1, <1>2, <1>6, <2>2 DEF RecInv, RecTyped, DriveTyped, StoreTyped, NodesTyped, Planned,
                                    Recorder!PlannedRounds
  <1>4. RecProgress'
    BY <1>1 DEF RecInv, RecProgress, RecRuns, CurOwn, RoundsAccounted, CampaignsAccounted, ListsTrue, Resolved,
                Res, Recorder!HasResult
  <1>5. RecDisk'
    <2>1. CurOpen' /\ OfThisAttempt' /\ ResultsSaved'
      BY <1>1 DEF RecInv, RecDisk, CurOpen, Attempting, OfThisAttempt, ResultsSaved, Saved, Res, Recorder!HasResult,
                  Planned, Recorder!PlannedRounds
    <2>2. Recorder!DeletedSavedOrCut'
      BY <1>1, <1>2 DEF RecInv, RecDisk, ResultsSaved, Saved, Recorder!DeletedSavedOrCut
    <2>3. RawWhole'
      <3> SUFFICES ASSUME NEW r \in Planned, info[r] = "whole", ~Res(r)
                   PROVE  (\A n \in Nodes : raw'[r][n] # 0) /\ (r \in unclean \/ OneAcquisition(r)')
        BY <1>1 DEF RawWhole, Res, Recorder!HasResult, Planned, Recorder!PlannedRounds
      <3>1. raw'[r] = raw[r]
        BY <1>1, <1>2
      <3> QED
        BY <3>1 DEF RecInv, RecDisk, RawWhole, OneAcquisition
    <2> QED
      BY <2>1, <2>2, <2>3 DEF RecDisk
  <1> QED
    BY <1>1, <1>3, <1>4, <1>5 DEF RecInv, Recorder!LspadClosed

LEMMA RecorderCrashInv == ASSUME Given, RecInv, Recorder!Crash PROVE RecInv'
  <1>1. /\ driver = "running" /\ driver' = "down" /\ rec_step' = "none"
        /\ rec_crashes < MaxDriverDeaths /\ rec_crashes' = rec_crashes + 1
        /\ cut' = IF rec_step \in {"written", "record"} THEN cut \cup {rec_cur} ELSE cut
        /\ UNCHANGED <<camp, mask_failed, rec_todo, rec_cur, rec_attempt, done, rec_failed, short, moved, raw,
                       result, record, deleted, refused, unclean, reach, lspad, rec_faults>>
        /\ \/ info' = info
           \/ rec_step = "archive" /\ info' = [info EXCEPT ![rec_cur] = "torn"]
        /\ \/ rec_measured' = rec_measured + 1 /\ \E W : recv' = Recorder!Wrote(W)
           \/ UNCHANGED <<rec_measured, recv>>
    BY DEF Recorder!Crash, Recorder!Half, Recorder!Goto, Recorder!nodes
  <1>2. rec_step \in {"archive", "written", "record"} => rec_cur \in Planned
    BY <1>1, PlanRounds DEF RecInv, RecProgress, CurOwn, RecRuns
  <1>3. StoreTyped'
    <2>1. /\ rec_measured' \in Nat /\ recv' \in [Nodes -> 0 .. rec_measured']
          /\ raw \in [Planned -> [Nodes -> 0 .. rec_measured']]
      <3>1. CASE rec_measured' = rec_measured + 1 /\ \E W : recv' = Recorder!Wrote(W)
        BY <3>1, OneMore DEF RecInv, RecTyped
      <3>2. CASE UNCHANGED <<rec_measured, recv>>
        BY <3>2 DEF RecInv, RecTyped, StoreTyped
      <3> QED
        BY <1>1, <3>1, <3>2
    <2>2. info' \in [Planned -> FileStates]
      BY <1>1, <1>2 DEF RecInv, RecTyped, StoreTyped, FileStates
    <2> QED
      BY <1>1, <1>2, <2>1, <2>2 DEF RecInv, RecTyped, StoreTyped, Planned, Recorder!PlannedRounds
  <1>4. NodesTyped'
    <2>1. rec_crashes' \in 0 .. MaxDriverDeaths
      BY <1>1, Bounds DEF RecInv, RecTyped, NodesTyped
    <2> QED
      BY <1>1, <2>1 DEF RecInv, RecTyped, NodesTyped
  <1>5. RecTyped'
    BY <1>1, <1>3, <1>4 DEF RecInv, RecTyped, DriveTyped, Planned, Recorder!PlannedRounds
  <1>6. RecProgress'
    <2>1. rec_step' = "none" /\ driver' = "down"
      BY <1>1
    <2> QED
      BY <2>1 DEF RecProgress, RecRuns, CurOwn, RoundsAccounted, CampaignsAccounted, ListsTrue
  <1>7. RecDisk'
    <2>1. CurOpen' /\ OfThisAttempt' /\ Recorder!DeletedSavedOrCut'
      BY <1>1 DEF RecInv, RecDisk, CurOpen, Attempting, OfThisAttempt, Recorder!DeletedSavedOrCut
    <2>2. ResultsSaved'
      BY <1>1 DEF RecInv, RecDisk, ResultsSaved, Saved, Res, Recorder!HasResult, Planned, Recorder!PlannedRounds
    <2>3. RawWhole'
      <3>1. \A r \in Planned : info'[r] = "whole" => info[r] = "whole"
        BY <1>1, <1>2 DEF RecInv, RecTyped, StoreTyped
      <3> QED
        BY <1>1, <3>1 DEF RecInv, RecDisk, RawWhole, OneAcquisition, Res, Recorder!HasResult, Planned,
                          Recorder!PlannedRounds
    <2> QED
      BY <2>1, <2>2, <2>3 DEF RecDisk
  <1> QED
    BY <1>1, <1>5, <1>6, <1>7 DEF RecInv, Recorder!LspadClosed

\* For any nodes, campaigns, faults and deaths: what is analysed is one whole
\* acquisition, unless a directory could not be emptied before it; raw stamps go only
\* of rounds with a result, and a record too unless record.py ended between the two or a
\* file was held open; at the end every round is accounted for.
THEOREM RecorderAlone == ASSUME Recorder!RecordSweepAssumption PROVE Recorder!Spec => []Recorder!RecorderSound
  <1> USE DEF Given
  <1>1. Recorder!Init => RecInv
    BY RecorderInit
  <1>2. RecInv /\ [Recorder!Next]_Recorder!vars => RecInv'
    <2> SUFFICES ASSUME RecInv, [Recorder!Next]_Recorder!vars PROVE RecInv'
      OBVIOUS
    <2>1. CASE Recorder!Next
      <3>1. CASE Recorder!Attempt
        BY <3>1, ClearInv, BringUpInv, AcquireInv, ArchiveInv, CheckInv, RecorderFaultsInv DEF Recorder!Attempt
      <3>2. CASE Recorder!Results
        BY <3>2, AnalyzeInv, AnalysisFailsInv, RecordInv, RecorderDiesInv, BudgetInv DEF Recorder!Results
      <3> QED
        BY <2>1, <3>1, <3>2, DriveInv, RunCampaignInv, AllMasksDoneInv, RecorderNextRoundInv, CampaignEndsInv,
           NodesInv, RecorderDiesInv, RecorderCrashInv DEF Recorder!Next, Recorder!Program
    <2>2. CASE UNCHANGED Recorder!vars
      <3>1. UNCHANGED <<driver, camp, mask_failed, rec_step, rec_todo, rec_cur, rec_attempt, done, rec_failed,
                        rec_measured, short, moved,
                        recv, raw, info, result, record, deleted, cut, refused, unclean, reach, lspad, rec_faults, rec_crashes>>
        BY <2>2 DEF Recorder!vars, Recorder!drive, Recorder!campaign, Recorder!meas, Recorder!disk, Recorder!notes,
                    Recorder!nodes
      <3>2. RecTyped' /\ RecProgress'
        BY <3>1 DEF RecInv, RecTyped, DriveTyped, StoreTyped, NodesTyped, Planned, Recorder!PlannedRounds,
                    RecProgress, RecRuns, CurOwn, RoundsAccounted, CampaignsAccounted, ListsTrue, Resolved, Res,
                    Recorder!HasResult
      <3>3. RecDisk'
        BY <3>1, DiskRests DEF RecInv
      <3> QED
        BY <3>1, <3>2, <3>3 DEF RecInv, Recorder!LspadClosed
    <2> QED
      BY <2>1, <2>2
  <1>3. RecInv => Recorder!RecorderSound
    <2> SUFFICES ASSUME RecInv PROVE Recorder!RecorderSound
      OBVIOUS
    <2>1. Recorder!TypeOK
      <3>1. short \in BOOLEAN
        BY DEF RecInv, RecTyped, NodesTyped
      <3> QED
        BY <3>1 DEF RecInv, RecTyped, DriveTyped, StoreTyped, NodesTyped, FileStates, Planned, Recorder!TypeOK
    <2>2. rec_step \notin {"none", "round"} => rec_cur \in Planned
      BY PlanRounds DEF RecInv, RecProgress, CurOwn, RecRuns
    <2>6. ASSUME NEW r \in Planned, \A n \in Nodes : raw[r][n] # 0 PROVE raw[r] # Recorder!Nothing
      BY <2>6, NodeOne DEF Recorder!Nothing
    <2>3. Recorder!AnalysedWhole
      BY <2>2, <2>6 DEF RecInv, RecDisk, CurOpen, Attempting, RawWhole, OneAcquisition, Recorder!AnalysedWhole,
                        Recorder!At
    <2>4. Recorder!ArchivedIsThisAttempt /\ Recorder!RawKeptUntilResult
      <3>1. Recorder!ArchivedIsThisAttempt
        BY DEF RecInv, RecDisk, OfThisAttempt, Recorder!ArchivedIsThisAttempt, Recorder!At
      <3>2. Recorder!RawKeptUntilResult
        BY <2>6 DEF RecInv, RecDisk, RawWhole, Planned, Res, Recorder!RawKeptUntilResult
      <3> QED
        BY <3>1, <3>2
    <2>5. Recorder!EveryRoundAccounted
      <3> SUFFICES ASSUME driver = "complete", NEW c \in DOMAIN Plan PROVE Recorder!Done(c) = Plan[c] \/ c \in mask_failed
        BY DEF Recorder!EveryRoundAccounted
      <3>1. Resolved(c)
        BY DEF RecInv, RecProgress, CampaignsAccounted
      <3> QED
        BY <3>1 DEF Resolved, Res, Recorder!Done
    <2> QED
      BY <2>1, <2>3, <2>4, <2>5 DEF RecInv, RecDisk, Recorder!RecorderSound
  <1> QED
    BY <1>1, <1>2, <1>3, PTL DEF Recorder!Spec
-----------------------------------------------------------------------------
(***************************************************************************)
(* A round.  While an round_attempt runs, a session that is over has ended well  *)
(* or left its error; what the graph released is in the histograms or in   *)
(* the hands of one of the two threads that add; and the last poll of the  *)
(* tail leaves nothing of what was sent unreleased.                        *)
(***************************************************************************)
Underway == pc \in {"calibrate", "poll", "tail", "recorded"}
UnitSet == SUBSET (1 .. Units)
Adding == [step : {"none", "run", "add"}, batch : UnitSet, seen : UnitSet]

MainTyped ==
    /\ pc \in {"reset", "start", "calibrate", "poll", "tail", "recorded", "gave_up"}
    /\ round_attempt \in 0 .. Attempts /\ (pc = "reset" => round_attempt < Attempts)
    /\ polls \in 0 .. 3 /\ faults \in 0 .. Faults /\ clock \in {"run", "due", "late"}
    /\ fit \in [by : {"none", "dwell", "timeout"}, of : SUBSET (1 .. Attempts)]
    /\ round_attempt = 0 => pc = "reset" /\ \A n \in Nodes : acq[n] = "off"
FlagsTyped == correlating \in BOOLEAN /\ stop_sent \in BOOLEAN /\ lost \in BOOLEAN
LinkTyped ==
    /\ session_active \in [Nodes -> BOOLEAN] /\ error \in [Nodes -> BOOLEAN]
    /\ acq \in [Nodes -> Round!Acqs] /\ node_status \in [Nodes -> {"none", "done", "error", "busy"}]
    /\ dwell \in [Nodes -> SUBSET (1 .. Attempts)]
UnitsTyped ==
    /\ sent \in [Nodes -> 0 .. Units] /\ got \in [Nodes -> 0 .. Units]
    /\ released \in 0 .. Units /\ hist \in UnitSet /\ bg \in Adding /\ tail \in Adding

OffsetOwn ==
    /\ pc = "calibrate" => \A n \in Nodes : dwell[n] \subseteq {round_attempt}
    /\ Underway => fit.of \subseteq {round_attempt}
Sessions ==
    Underway => \A n \in Nodes :
        /\ node_status[n] = "done" => acq[n] = "done"
        /\ node_status[n] = "error" => acq[n] = "failed"
        /\ node_status[n] = "busy" => acq[n] = "refused"
        /\ error[n] => acq[n] \in {"failed", "refused"}
        /\ session_active[n] => Round!Streaming(n) \/ acq[n] = "dead" \/ node_status[n] # "none"
        /\ session_active[n] \/ error[n] \/ acq[n] = "done"
SessionsEnded ==
    pc \in {"tail", "recorded"} /\ clock # "late" => \A n \in Nodes : ~session_active[n]
Hands ==
    /\ pc # "tail" => tail = Round!Idle
    /\ Underway =>
        /\ correlating <=> bg.step # "none"
        /\ bg.step = "none" => bg.batch = {}
        /\ tail.step = "none" => tail.batch = {}
        /\ pc = "calibrate" => bg = Round!Idle /\ hist = {} /\ released = 0
        /\ pc = "recorded" => bg.step = "none" /\ polls = 0
Behind == Underway => \A n \in Nodes : released =< got[n] /\ got[n] =< sent[n]
Added ==
    Underway /\ ~lost =>
        /\ hist \cup bg.batch \cup tail.batch = 1 .. released
        /\ bg.step = "add" => bg.seen = hist /\ tail.step # "add"
        /\ tail.step = "add" => tail.seen = hist
LastPoll ==
    Settled /\ pc \in {"tail", "recorded"} /\ clock # "late" /\ polls = 0 =>
        got = sent /\ released = Round!Complete(got)

RoundTyped == MainTyped /\ FlagsTyped /\ LinkTyped /\ UnitsTyped
RoundInv == /\ RoundTyped /\ OffsetOwn /\ Sessions /\ SessionsEnded /\ Round!RecordedMeansDone
            /\ Hands /\ Behind /\ Added /\ LastPoll

LEMMA RoundBounds ==
    ASSUME Round!SweepRoundAssumption
    PROVE  /\ Attempts \in Nat /\ Attempts > 0 /\ Units \in Nat /\ Units > 0 /\ Faults \in Nat
           /\ Nodes # {} /\ IsFiniteSet(Nodes)
  BY DEF Round!SweepRoundAssumption, Round!IsFiniteSet, IsFiniteSet

\* What every node has delivered: the least of what they have.
LEMMA LeastDelivered ==
    ASSUME Round!SweepRoundAssumption, NEW s \in [Nodes -> 0 .. Units]
    PROVE  /\ Round!Complete(s) \in 0 .. Units
           /\ \A n \in Nodes : Round!Complete(s) =< s[n]
           /\ \E n \in Nodes : Round!Complete(s) = s[n]
  <1> DEFINE S == {s[n] : n \in Nodes}
  <1>1. S \in SUBSET Nat /\ S # {}
    BY RoundBounds
  <1>2. PICK k \in S : \A u \in S : k =< u
    BY <1>1, OldestRound
  <1>3. k \in 0 .. Units /\ (\A n \in Nodes : k =< s[n]) /\ \E n \in Nodes : k = s[n]
    BY <1>2
  <1> QED
    BY <1>3 DEF Round!Complete

LEMMA UnitsJoin ==
    ASSUME NEW a \in Nat, NEW b \in Nat, a =< b
    PROVE  1 .. a \cup (a + 1) .. b = 1 .. b
  OBVIOUS

LEMMA SumRead ==
    ASSUME NEW a \in Adding, NEW h \in UnitSet
    PROVE  /\ [a EXCEPT !.step = "add", !.seen = h] = [step |-> "add", batch |-> a.batch, seen |-> h]
           /\ [a EXCEPT !.step = "add", !.seen = h] \in Adding
  <1>1. /\ a = [step |-> a.step, batch |-> a.batch, seen |-> a.seen]
        /\ a.batch \in UnitSet
    BY DEF Adding
  <1>2. [a EXCEPT !.step = "add", !.seen = h] = [step |-> "add", batch |-> a.batch, seen |-> h]
    <2>1. PICK s, b, z : a = [step |-> s, batch |-> b, seen |-> z]
      BY <1>1
    <2>2. [[step |-> s, batch |-> b, seen |-> z] EXCEPT !.step = "add"] = [step |-> "add", batch |-> b,
                                                                           seen |-> z]
      OBVIOUS
    <2>3. [[step |-> "add", batch |-> b, seen |-> z] EXCEPT !.seen = h] = [step |-> "add", batch |-> b,
                                                                           seen |-> h]
      OBVIOUS
    <2> QED
      BY <2>1, <2>2, <2>3
  <1>3. [step |-> "add", batch |-> a.batch, seen |-> h] \in Adding
    BY <1>1 DEF Adding
  <1> QED
    BY <1>2, <1>3

LEMMA IdleTyped == Round!Idle \in Adding /\ Round!Idle.batch = {} /\ Round!Idle.step = "none"
  BY DEF Round!Idle, Adding, UnitSet

LEMMA RoundInit == ASSUME Round!SweepRoundAssumption, Round!Init PROVE RoundInv
  <1>1. MainTyped
    BY RoundBounds DEF Round!Init, MainTyped, Round!NoFit
  <1>2. FlagsTyped
    BY DEF Round!Init, FlagsTyped
  <1>3. LinkTyped
    <2>1. session_active \in [Nodes -> BOOLEAN] /\ error \in [Nodes -> BOOLEAN]
      BY DEF Round!Init
    <2>2. /\ acq \in [Nodes -> Round!Acqs] /\ node_status \in [Nodes -> {"none", "done", "error", "busy"}]
          /\ dwell \in [Nodes -> SUBSET (1 .. Attempts)]
      BY DEF Round!Init, Round!Acqs
    <2> QED
      BY <2>1, <2>2 DEF LinkTyped
  <1>4. UnitsTyped
    BY RoundBounds DEF Round!Init, UnitsTyped, Round!None, Round!Idle, Adding, UnitSet
  <1>5. pc = "reset" /\ tail = Round!Idle
    BY DEF Round!Init
  <1> QED
    BY <1>1, <1>2, <1>3, <1>4, <1>5
       DEF RoundInv, RoundTyped, OffsetOwn, Sessions, SessionsEnded, Round!RecordedMeansDone, Hands, Behind,
           Added,
           LastPoll, Underway

\* Between the attempts nothing is promised but the types.
LEMMA BetweenAttempts ==
    ASSUME MainTyped', FlagsTyped', LinkTyped', UnitsTyped', tail' = Round!Idle,
           pc' \in {"reset", "start", "gave_up"}
    PROVE  RoundInv'
  BY DEF RoundInv, RoundTyped, OffsetOwn, Sessions, SessionsEnded, Round!RecordedMeansDone, Hands, Behind,
         Added,
         LastPoll, Underway, Round!Idle

LEMMA BringsUp ==
    ASSUME Round!SweepRoundAssumption, RoundInv, Round!BringUp \/ Round!BringUpFails
    PROVE  RoundInv'
  <1>1. /\ pc = "reset" /\ round_attempt' = round_attempt + 1
        /\ acq' = [n \in Nodes |-> "off"] /\ node_status' = [n \in Nodes |-> "none"]
        /\ pc' = "start" \/ pc' = IF round_attempt' < Attempts THEN "reset" ELSE "gave_up"
        /\ UNCHANGED <<fit, released, correlating, polls, stop_sent, session_active, error, sent, dwell, got,
                       hist, bg, tail, clock, lost>>
    BY DEF Round!BringUp, Round!BringUpFails, Round!AttemptFailed, Round!MoreAttempts, Round!data, Round!adders
  <1>2. faults' \in 0 .. Faults
    BY RoundBounds DEF Round!BringUp, Round!BringUpFails, RoundInv, RoundTyped, MainTyped
  <1>3. MainTyped'
    BY <1>1, <1>2, RoundBounds DEF RoundInv, RoundTyped, MainTyped
  <1>4. LinkTyped'
    BY <1>1 DEF RoundInv, RoundTyped, LinkTyped, Round!Acqs
  <1>5. FlagsTyped' /\ UnitsTyped'
    BY <1>1 DEF RoundInv, RoundTyped, FlagsTyped, UnitsTyped
  <1> QED
    BY <1>1, <1>3, <1>4, <1>5, BetweenAttempts DEF RoundInv, Hands

\* The instance has its own name for the cardinality.
LEMMA RoundCardinality == ASSUME NEW S PROVE Round!Cardinality(S) = Cardinality(S)
  BY DEF Round!Cardinality, Cardinality

LEMMA Starts == ASSUME Round!SweepRoundAssumption, RoundInv, Round!Start PROVE RoundInv'
  <1>1. /\ pc = "start" /\ pc' = "calibrate" /\ dwell' = [n \in Nodes |-> {}]
        /\ error' = [n \in Nodes |-> FALSE] /\ session_active' = [n \in Nodes |-> TRUE]
        /\ sent' = Round!None /\ got' = Round!None /\ released' = 0 /\ hist' = {} /\ fit' = Round!NoFit
        /\ correlating' = FALSE /\ bg' = Round!Idle /\ tail' = Round!Idle
        /\ stop_sent' = FALSE /\ clock' = "run" /\ lost' = FALSE
        /\ UNCHANGED <<round_attempt, polls>>
    BY DEF Round!Start, Round!Flushed
  <1>2. PICK B \in SUBSET Nodes :
          /\ faults + Round!Cardinality(B) =< Faults /\ faults' = faults + Round!Cardinality(B)
          /\ acq' = [n \in Nodes |-> IF n \in B THEN "refused" ELSE "on"]
          /\ node_status' = [n \in Nodes |-> IF n \in B THEN "busy" ELSE "none"]
    BY DEF Round!Start
  <1>3. faults' \in 0 .. Faults
    <2>1. Cardinality(B) \in Nat
      BY RoundBounds, FS_Subset, FS_CardinalityType
    <2>2. Round!Cardinality(B) \in Nat
      BY <2>1, RoundCardinality
    <2> QED
      BY <1>2, <2>2, RoundBounds DEF RoundInv, RoundTyped, MainTyped
  <1>4. MainTyped'
    BY <1>1, <1>3 DEF RoundInv, RoundTyped, MainTyped, Round!NoFit
  <1>5. FlagsTyped'
    BY <1>1 DEF FlagsTyped
  <1>6. LinkTyped'
    <2>1. session_active' \in [Nodes -> BOOLEAN] /\ error' \in [Nodes -> BOOLEAN]
      BY <1>1
    <2>2. /\ acq' \in [Nodes -> Round!Acqs] /\ node_status' \in [Nodes -> {"none", "done", "error", "busy"}]
          /\ dwell' \in [Nodes -> SUBSET (1 .. Attempts)]
      BY <1>1, <1>2 DEF Round!Acqs
    <2> QED
      BY <2>1, <2>2 DEF LinkTyped
  <1>7. UnitsTyped'
    BY <1>1, RoundBounds DEF UnitsTyped, Round!None, Round!Idle, Adding, UnitSet
  <1>8. OffsetOwn' /\ Hands' /\ Behind' /\ Added'
    BY <1>1 DEF OffsetOwn, Hands, Behind, Added, Underway, Round!NoFit, Round!Idle, Round!None
  <1>9. Sessions'
    BY <1>1, <1>2 DEF Sessions, Round!Streaming
  <1>10. SessionsEnded' /\ Round!RecordedMeansDone' /\ LastPoll'
    BY <1>1 DEF SessionsEnded, Round!RecordedMeansDone, LastPoll
  <1> QED
    BY <1>4, <1>5, <1>6, <1>7, <1>8, <1>9, <1>10 DEF RoundInv, RoundTyped

LEMMA Calibrates ==
    ASSUME Round!SweepRoundAssumption, RoundInv, Round!Calibrate("dwell") \/ Round!Calibrate("timeout")
    PROVE  RoundInv'
  <1>1. /\ pc = "calibrate" /\ pc' = "poll"
        /\ fit' \in [by : {"dwell", "timeout"}, of : {UNION {dwell[n] : n \in Nodes}}]
        /\ sent' = Round!None /\ got' = Round!None /\ dwell' = [n \in Nodes |-> {}]
        /\ UNCHANGED <<round_attempt, released, correlating, polls, stop_sent, session_active, error,
                       node_status, acq, hist,
                       bg, tail, clock, faults, lost>>
    BY DEF Round!Calibrate, Round!link, Round!adders
  <1>2. UNION {dwell[n] : n \in Nodes} \subseteq {round_attempt} /\ UNION {dwell[n] : n \in Nodes} \subseteq 1 .. Attempts
    BY <1>1 DEF RoundInv, OffsetOwn, RoundTyped, LinkTyped
  <1>3. MainTyped'
    BY <1>1, <1>2 DEF RoundInv, RoundTyped, MainTyped
  <1>4. FlagsTyped' /\ LinkTyped'
    BY <1>1 DEF RoundInv, RoundTyped, FlagsTyped, LinkTyped
  <1>5. UnitsTyped'
    BY <1>1, RoundBounds DEF RoundInv, RoundTyped, UnitsTyped, Round!None
  <1>6. OffsetOwn'
    BY <1>1, <1>2 DEF OffsetOwn, Underway
  <1>7. Hands' /\ Behind' /\ Added'
    BY <1>1 DEF RoundInv, Hands, Behind, Added, Underway, Round!Idle, Round!None
  <1>8. Sessions'
    BY <1>1 DEF RoundInv, Sessions, Round!Streaming, Underway
  <1>9. SessionsEnded' /\ Round!RecordedMeansDone' /\ LastPoll'
    BY <1>1 DEF SessionsEnded, Round!RecordedMeansDone, LastPoll
  <1> QED
    BY <1>3, <1>4, <1>5, <1>6, <1>7, <1>8, <1>9 DEF RoundInv, RoundTyped

\* A turn of the poll loop: what it hands over is what was released by it.
LEMMA TurnHands ==
    ASSUME Round!SweepRoundAssumption, RoundInv, Round!Turn
    PROVE  /\ pc = "poll" /\ tail = Round!Idle
           /\ released' \in 0 .. Units /\ bg' \in Adding /\ correlating' \in BOOLEAN
           /\ correlating' <=> bg'.step # "none"
           /\ bg'.step = "none" => bg'.batch = {}
           /\ \A n \in Nodes : released' =< got[n]
           /\ ~lost => /\ hist \cup bg'.batch \cup tail.batch = 1 .. released'
                       /\ bg'.step = "add" => bg'.seen = hist
           /\ UNCHANGED <<fit, session_active, error, node_status, sent, dwell, got, hist, tail, clock, faults,
                          lost>>
  <1>1. /\ pc = "poll" /\ Underway
        /\ UNCHANGED <<fit, session_active, error, node_status, sent, dwell, got, hist, tail, clock, faults,
                       lost>>
    BY DEF Round!Turn, Round!link, Round!data, Underway
  <1>2. tail = Round!Idle
    BY <1>1 DEF RoundInv, Hands
  <1>3. /\ Round!Complete(got) \in 0 .. Units
        /\ \A n \in Nodes : Round!Complete(got) =< got[n]
        /\ \E n \in Nodes : Round!Complete(got) = got[n]
    BY LeastDelivered DEF RoundInv, RoundTyped, UnitsTyped
  <1>4. CASE correlating \/ Round!Ready = {}
    <2>1. UNCHANGED <<released, correlating, bg>>
      BY <1>4 DEF Round!Turn
    <2> QED
      BY <1>1, <1>2, <2>1 DEF RoundInv, RoundTyped, FlagsTyped, UnitsTyped, Hands, Behind, Added
  <1>5. CASE ~(correlating \/ Round!Ready = {})
    <2>1. /\ released' = Round!Complete(got) /\ correlating' = TRUE
          /\ bg' = [step |-> "run", batch |-> Round!Ready, seen |-> {}]
      BY <1>5 DEF Round!Turn
    <2>2. Round!Ready \in UnitSet /\ 1 .. released \cup Round!Ready = 1 .. Round!Complete(got)
      <3>1. released \in Nat /\ Round!Complete(got) \in Nat /\ released =< Round!Complete(got)
        BY <1>1, <1>3 DEF RoundInv, RoundTyped, UnitsTyped, Behind
      <3>2. 1 .. released \cup Round!Ready = 1 .. Round!Complete(got)
        BY <3>1, UnitsJoin DEF Round!Ready
      <3>3. 1 .. Round!Complete(got) \subseteq 1 .. Units
        BY <1>3, RoundBounds
      <3> QED
        BY <3>2, <3>3 DEF UnitSet
    <2>3. bg' \in Adding
      BY <2>1, <2>2 DEF Adding, UnitSet
    <2>4. bg.batch = {} /\ (~lost => hist \cup bg.batch \cup tail.batch = 1 .. released)
      BY <1>1, <1>5 DEF RoundInv, Hands, Added
    <2>5. ~lost => hist \cup bg'.batch \cup tail.batch = 1 .. released'
      BY <1>2, <2>1, <2>2, <2>4 DEF Round!Idle
    <2> QED
      BY <1>1, <1>2, <1>3, <2>1, <2>3, <2>5
  <1> QED
    BY <1>4, <1>5

LEMMA Turns ==
    ASSUME Round!SweepRoundAssumption, RoundInv,
           Round!Poll \/ Round!StallAbort \/ Round!SoftStop \/ Round!SoftStopFails \/ Round!GiveUp
    PROVE  RoundInv'
  <1>1. Round!Turn
    BY DEF Round!Poll, Round!StallAbort, Round!SoftStop, Round!SoftStopFails, Round!GiveUp
  <1>2. /\ pc = "poll" /\ tail = Round!Idle
        /\ released' \in 0 .. Units /\ bg' \in Adding /\ correlating' \in BOOLEAN
        /\ correlating' <=> bg'.step # "none"
        /\ bg'.step = "none" => bg'.batch = {}
        /\ \A n \in Nodes : released' =< got[n]
        /\ ~lost => /\ hist \cup bg'.batch \cup tail.batch = 1 .. released'
                    /\ bg'.step = "add" => bg'.seen = hist
        /\ UNCHANGED <<fit, session_active, error, node_status, sent, dwell, got, hist, tail, clock, faults,
                       lost>>
    BY <1>1, TurnHands
  <1>3. /\ round_attempt' = round_attempt /\ stop_sent' \in BOOLEAN /\ polls' \in 0 .. 3
        /\ \/ pc' \in {"reset", "gave_up"} /\ (pc' = "reset" => round_attempt < Attempts)
           \/ pc' = "poll"
           \/ pc' = "tail" /\ polls' = 3 /\ clock = "late"
        /\ \/ acq' = acq
           \/ /\ pc' \in {"reset", "gave_up"}
              /\ acq' = [n \in Nodes |-> IF Round!Streaming(n) THEN "off" ELSE acq[n]]
           \/ acq' = [n \in Nodes |-> IF acq[n] = "on" THEN "stopping" ELSE acq[n]]
    <2>1. polls \in 0 .. 3 /\ stop_sent \in BOOLEAN
      BY DEF RoundInv, RoundTyped, MainTyped, FlagsTyped
    <2>2. CASE Round!Poll
      BY <1>2, <2>1, <2>2 DEF Round!Poll
    <2>3. CASE Round!StallAbort
      BY <2>1, <2>3 DEF Round!StallAbort, Round!AttemptFailed, Round!MoreAttempts
    <2>4. CASE Round!SoftStop
      BY <1>2, <2>1, <2>4 DEF Round!SoftStop
    <2>5. CASE Round!SoftStopFails
      BY <2>1, <2>5 DEF Round!SoftStopFails, Round!AttemptFailed, Round!MoreAttempts
    <2>6. CASE Round!GiveUp
      BY <2>1, <2>6 DEF Round!GiveUp, Round!GivesUp, Round!TailPolls
    <2> QED
      BY <2>2, <2>3, <2>4, <2>5, <2>6
  <1>4. acq' \in [Nodes -> Round!Acqs]
    BY <1>3 DEF RoundInv, RoundTyped, LinkTyped, Round!Acqs
  <1>5. MainTyped' /\ FlagsTyped' /\ LinkTyped' /\ UnitsTyped'
    <2>1. MainTyped'
      BY <1>2, <1>3 DEF RoundInv, RoundTyped, MainTyped
    <2>2. FlagsTyped'
      BY <1>2, <1>3 DEF RoundInv, RoundTyped, FlagsTyped
    <2>3. LinkTyped' /\ UnitsTyped'
      BY <1>2, <1>4 DEF RoundInv, RoundTyped, LinkTyped, UnitsTyped
    <2> QED
      BY <2>1, <2>2, <2>3
  <1>6. CASE pc' \in {"reset", "gave_up"}
    BY <1>2, <1>5, <1>6, BetweenAttempts
  <1>7. CASE pc' \in {"poll", "tail"}
    <2>1. Underway /\ pc' # "recorded" /\ pc' # "calibrate" /\ (pc' = "tail" => clock' = "late")
      BY <1>2, <1>3, <1>7 DEF Underway
    <2>2. OffsetOwn' /\ SessionsEnded' /\ Round!RecordedMeansDone' /\ LastPoll'
      BY <1>2, <1>3, <2>1 DEF RoundInv, OffsetOwn, SessionsEnded, Round!RecordedMeansDone, LastPoll
    <2>3. Hands' /\ Behind'
      BY <1>2, <2>1 DEF RoundInv, Hands, Behind, Round!Idle
    <2>4. Added'
      BY <1>2, <2>1 DEF Added, Round!Idle
    <2>5. Sessions'
      <3>1. \A n \in Nodes : acq'[n] = acq[n] \/ (acq[n] = "on" /\ acq'[n] = "stopping")
        BY <1>3, <1>7 DEF RoundInv, RoundTyped, LinkTyped
      <3> QED
        BY <1>2, <2>1, <3>1 DEF RoundInv, Sessions, Round!Streaming
    <2> QED
      BY <1>5, <2>2, <2>3, <2>4, <2>5 DEF RoundInv, RoundTyped
  <1> QED
    BY <1>3, <1>6, <1>7

\* The tail: the main thread takes what is left, and adds it itself.
LEMMA TailStarts == ASSUME Round!SweepRoundAssumption, RoundInv, Round!SessionsOver PROVE RoundInv'
  <1>1. /\ pc = "poll" /\ ~Round!Active /\ pc' = "tail" /\ polls' = 3
        /\ UNCHANGED <<round_attempt, fit, released, correlating, stop_sent, session_active, error,
                       node_status, acq, sent,
                       dwell, got, hist, bg, tail, clock, faults, lost>>
    BY DEF Round!SessionsOver, Round!TailPolls, Round!link, Round!node, Round!data, Round!adders
  <1>2. RoundTyped'
    BY <1>1 DEF RoundInv, RoundTyped, MainTyped, FlagsTyped, LinkTyped, UnitsTyped
  <1>3. OffsetOwn' /\ Sessions' /\ Hands' /\ Behind' /\ Added'
    BY <1>1 DEF RoundInv, OffsetOwn, Sessions, Hands, Behind, Added, Underway, Round!Streaming
  <1>4. SessionsEnded' /\ Round!RecordedMeansDone' /\ LastPoll'
    BY <1>1 DEF SessionsEnded, Round!RecordedMeansDone, LastPoll, Round!Active
  <1> QED
    BY <1>2, <1>3, <1>4 DEF RoundInv

LEMMA TailPolls == ASSUME Round!SweepRoundAssumption, RoundInv, Round!TailPoll PROVE RoundInv'
  <1>1. /\ pc = "tail" /\ tail = Round!Idle /\ polls > 0 /\ polls' = polls - 1
        /\ (Settled /\ polls = 1) => got = sent
        /\ released' = IF Round!Ready = {} THEN released ELSE Round!Complete(got)
        /\ tail' = IF Round!Ready = {} THEN Round!Idle ELSE [step |-> "run", batch |-> Round!Ready, seen |-> {}]
        /\ UNCHANGED <<pc, round_attempt, fit, correlating, stop_sent, session_active, error, node_status, acq,
                       sent, dwell,
                       got, hist, bg, clock, faults, lost>>
    BY DEF Round!TailPoll, Round!link, Round!node, Round!data
  <1>2. /\ Round!Complete(got) \in 0 .. Units
        /\ \A n \in Nodes : Round!Complete(got) =< got[n]
        /\ \E n \in Nodes : Round!Complete(got) = got[n]
    BY LeastDelivered DEF RoundInv, RoundTyped, UnitsTyped
  <1>3. released \in 0 .. Units /\ \A n \in Nodes : released =< got[n]
    BY <1>1 DEF RoundInv, RoundTyped, UnitsTyped, Behind, Underway
  <1>4. released' \in 0 .. Units /\ released' = Round!Complete(got)
    BY <1>1, <1>2, <1>3 DEF Round!Ready
  <1>5. Round!Ready \in UnitSet /\ 1 .. released \cup Round!Ready = 1 .. released'
    <2>1. 1 .. released \cup Round!Ready = 1 .. released'
      BY <1>2, <1>3, <1>4, UnitsJoin DEF Round!Ready
    <2>2. 1 .. released' \subseteq 1 .. Units
      BY <1>4, RoundBounds
    <2> QED
      BY <2>1, <2>2 DEF UnitSet
  <1>6. /\ tail' \in Adding /\ tail'.batch = Round!Ready /\ tail'.step \in {"none", "run"}
        /\ tail'.step = "none" => tail'.batch = {}
    BY <1>1, <1>5 DEF Round!Idle, Adding, UnitSet
  <1>7. RoundTyped'
    <2>1. polls' \in 0 .. 3
      BY <1>1 DEF RoundInv, RoundTyped, MainTyped
    <2> QED
      BY <1>1, <1>4, <1>6, <2>1 DEF RoundInv, RoundTyped, MainTyped, FlagsTyped, LinkTyped, UnitsTyped
  <1>8. Hands' /\ Behind'
    BY <1>1, <1>2, <1>4, <1>6 DEF RoundInv, Hands, Behind, Underway
  <1>9. Added'
    <2> SUFFICES ASSUME ~lost PROVE /\ hist \cup bg.batch \cup tail'.batch = 1 .. released'
                                    /\ bg.step = "add" => bg.seen = hist
      BY <1>1, <1>6 DEF Added
    <2>1. /\ hist \cup bg.batch \cup tail.batch = 1 .. released
          /\ bg.step = "add" => bg.seen = hist
      BY <1>1 DEF RoundInv, Added, Underway
    <2> QED
      BY <1>1, <1>5, <1>6, <2>1 DEF Round!Idle
  <1>10. OffsetOwn' /\ Sessions' /\ SessionsEnded' /\ Round!RecordedMeansDone'
    BY <1>1 DEF RoundInv, OffsetOwn, Sessions, SessionsEnded, Round!RecordedMeansDone, Underway, Round!Streaming
  <1>11. LastPoll'
    BY <1>1, <1>4 DEF LastPoll, Round!Complete, RoundInv, RoundTyped, MainTyped
  <1> QED
    BY <1>7, <1>8, <1>9, <1>10, <1>11 DEF RoundInv

\* The two threads that add: a read, then a write of the sum.
LEMMA Adds ==
    ASSUME Round!SweepRoundAssumption, RoundInv,
           Round!TailRead \/ Round!TailWrite \/ Round!BgRead \/ Round!BgWrite \/ Round!BgFails
    PROVE  RoundInv'
  <1>1. /\ UNCHANGED <<pc, round_attempt, fit, released, polls, stop_sent, session_active, error, node_status,
                       acq, sent,
                       dwell, got, clock>>
        /\ faults' = faults \/ (faults < Faults /\ faults' = faults + 1)
        /\ \/ /\ tail.step = "run" /\ tail' = [tail EXCEPT !.step = "add", !.seen = hist]
              /\ lost' = (lost \/ bg.step = "add") /\ UNCHANGED <<hist, bg, correlating>>
           \/ /\ tail.step = "add" /\ hist' = tail.seen \cup tail.batch /\ tail' = Round!Idle
              /\ UNCHANGED <<bg, correlating, lost>>
           \/ /\ bg.step = "run" /\ bg' = [bg EXCEPT !.step = "add", !.seen = hist]
              /\ lost' = (lost \/ tail.step = "add") /\ UNCHANGED <<hist, tail, correlating>>
           \/ /\ bg.step = "add" /\ hist' = bg.seen \cup bg.batch /\ bg' = Round!Idle
              /\ correlating' = FALSE /\ UNCHANGED <<tail, lost>>
           \/ /\ bg.step = "run" /\ bg' = Round!Idle /\ correlating' = FALSE /\ lost' = TRUE
              /\ UNCHANGED <<hist, tail>>
    BY DEF Round!TailRead, Round!TailWrite, Round!BgRead, Round!BgWrite, Round!BgFails, Round!main, Round!link,
           Round!node, Round!data
  <1>2. hist \in UnitSet /\ bg \in Adding /\ tail \in Adding
    BY DEF RoundInv, RoundTyped, UnitsTyped
  <1>3. /\ \/ /\ tail.step = "run" /\ tail'.step = "add" /\ tail'.batch = tail.batch /\ tail'.seen = hist
              /\ lost' = (lost \/ bg.step = "add") /\ UNCHANGED <<hist, bg, correlating>>
           \/ /\ tail.step = "add" /\ hist' = tail.seen \cup tail.batch /\ tail' = Round!Idle
              /\ UNCHANGED <<bg, correlating, lost>>
           \/ /\ bg.step = "run" /\ bg'.step = "add" /\ bg'.batch = bg.batch /\ bg'.seen = hist
              /\ lost' = (lost \/ tail.step = "add") /\ UNCHANGED <<hist, tail, correlating>>
           \/ /\ bg.step = "add" /\ hist' = bg.seen \cup bg.batch /\ bg' = Round!Idle
              /\ correlating' = FALSE /\ UNCHANGED <<tail, lost>>
           \/ /\ bg.step = "run" /\ bg' = Round!Idle /\ correlating' = FALSE /\ lost' = TRUE
              /\ UNCHANGED <<hist, tail>>
    <2>1. /\ [tail EXCEPT !.step = "add", !.seen = hist] = [step |-> "add", batch |-> tail.batch, seen |-> hist]
          /\ [bg EXCEPT !.step = "add", !.seen = hist] = [step |-> "add", batch |-> bg.batch, seen |-> hist]
      BY <1>2, SumRead
    <2> QED
      BY <1>1, <2>1
  <1>4. FlagsTyped'
    <2>1. lost' \in BOOLEAN
      BY <1>1 DEF RoundInv, RoundTyped, FlagsTyped
    <2>2. correlating' \in BOOLEAN /\ stop_sent' \in BOOLEAN
      BY <1>1 DEF RoundInv, RoundTyped, FlagsTyped
    <2> QED
      BY <2>1, <2>2 DEF FlagsTyped
  <1>5. UnitsTyped'
    <2>1. hist' \in UnitSet
      BY <1>1, <1>2 DEF Adding, UnitSet
    <2>2. bg' \in Adding /\ tail' \in Adding
      <3>1. /\ [tail EXCEPT !.step = "add", !.seen = hist] \in Adding
            /\ [bg EXCEPT !.step = "add", !.seen = hist] \in Adding
        BY <1>2, SumRead
      <3> QED
        BY <1>1, <1>2, <3>1, IdleTyped
    <2> QED
      BY <1>1, <2>1, <2>2 DEF RoundInv, RoundTyped, UnitsTyped
  <1>6. RoundTyped'
    <2>1. faults' \in 0 .. Faults
      BY <1>1, RoundBounds DEF RoundInv, RoundTyped, MainTyped
    <2> QED
      BY <1>1, <1>4, <1>5, <2>1 DEF RoundInv, RoundTyped, MainTyped, LinkTyped
  <1>7. OffsetOwn' /\ Sessions' /\ SessionsEnded' /\ Round!RecordedMeansDone' /\ Behind' /\ LastPoll'
    BY <1>1 DEF RoundInv, OffsetOwn, Sessions, SessionsEnded, Round!RecordedMeansDone, Behind, LastPoll,
                Underway,
                Round!Streaming, Round!Complete
  <1>8. Hands'
    <2>1. Hands /\ Underway' = Underway
      BY <1>1 DEF RoundInv, Underway
    <2> QED
      BY <1>1, <1>3, <2>1, IdleTyped DEF Hands
  <1>9. Added'
    <2> SUFFICES ASSUME Underway, ~lost'
                 PROVE  /\ hist' \cup bg'.batch \cup tail'.batch = 1 .. released
                        /\ bg'.step = "add" => bg'.seen = hist' /\ tail'.step # "add"
                        /\ tail'.step = "add" => tail'.seen = hist'
      BY <1>1 DEF Added, Underway
    <2>1. ~lost
      BY <1>1
    <2>2. /\ hist \cup bg.batch \cup tail.batch = 1 .. released
          /\ bg.step = "add" => bg.seen = hist /\ tail.step # "add"
          /\ tail.step = "add" => tail.seen = hist
      BY <2>1 DEF RoundInv, Added
    <2>3. CASE tail' # tail
      BY <1>3, <2>1, <2>2, <2>3, IdleTyped
    <2>4. CASE tail' = tail
      BY <1>3, <2>1, <2>2, <2>4, IdleTyped
    <2> QED
      BY <2>3, <2>4
  <1> QED
    BY <1>6, <1>7, <1>8, <1>9 DEF RoundInv

\* A round is recorded when both threads have added all they took.
LEMMA TailEnds == ASSUME Round!SweepRoundAssumption, RoundInv, Round!TailFails \/ Round!Finish PROVE RoundInv'
  <1>1. /\ pc = "tail"
        /\ UNCHANGED <<round_attempt, fit, released, correlating, polls, stop_sent, session_active, error,
                       node_status, acq,
                       sent, dwell, got, hist, bg, clock, lost>>
        /\ \/ /\ tail' = Round!Idle /\ pc' # "recorded" /\ faults < Faults /\ faults' = faults + 1
           \/ /\ tail = Round!Idle /\ tail' = tail /\ polls = 0 /\ faults' = faults
              /\ pc' = "recorded" => ~correlating /\ \A n \in Nodes : ~error[n]
        /\ \/ pc' = "recorded"
           \/ pc' \in {"reset", "gave_up"} /\ (pc' = "reset" => round_attempt < Attempts)
    <2>1. CASE Round!TailFails
      BY <2>1, IdleTyped DEF RoundInv, Hands, Round!TailFails, Round!AttemptFailed, Round!MoreAttempts,
                             Round!link, Round!node, Round!data
    <2>2. CASE Round!Finish
      BY <2>2 DEF Round!Finish, Round!AttemptFailed, Round!MoreAttempts, Round!Joined, Round!link, Round!node,
                  Round!data, Round!adders
    <2> QED
      BY <2>1, <2>2
  <1>2. RoundTyped'
    <2>1. faults' \in 0 .. Faults
      BY <1>1, RoundBounds DEF RoundInv, RoundTyped, MainTyped
    <2>2. MainTyped'
      BY <1>1, <2>1 DEF RoundInv, RoundTyped, MainTyped
    <2>3. UnitsTyped'
      BY <1>1 DEF RoundInv, RoundTyped, UnitsTyped, Round!Idle, Adding, UnitSet
    <2> QED
      BY <1>1, <2>2, <2>3 DEF RoundInv, RoundTyped, FlagsTyped, LinkTyped
  <1>3. CASE pc' # "recorded"
    BY <1>1, <1>2, <1>3, BetweenAttempts DEF RoundTyped
  <1>4. CASE pc' = "recorded"
    <2>1. OffsetOwn' /\ Sessions' /\ SessionsEnded' /\ Behind' /\ Added' /\ LastPoll'
      BY <1>1, <1>4 DEF RoundInv, OffsetOwn, Sessions, SessionsEnded, Behind, Added, LastPoll, Underway,
                        Round!Streaming, Round!Complete
    <2>2. Hands'
      BY <1>1, <1>4 DEF RoundInv, Hands, Underway
    <2>3. Round!RecordedMeansDone'
      BY <1>1, <1>4 DEF RoundInv, Sessions, SessionsEnded, Underway, Round!RecordedMeansDone
    <2> QED
      BY <1>2, <2>1, <2>2, <2>3 DEF RoundInv
  <1> QED
    BY <1>3, <1>4

\* In a tail that is not late, every session is over and nothing streams.
LEMMA NothingStreams ==
    ASSUME RoundInv, pc \in {"tail", "recorded"}, clock # "late", NEW n \in Nodes
    PROVE  ~Round!Streaming(n) /\ (error[n] \/ acq[n] = "done")
  BY DEF RoundInv, SessionsEnded, Sessions, Underway, Round!Streaming

\* What a node streams and what arrives of it.
LEMMA Streams ==
    ASSUME Round!SweepRoundAssumption, RoundInv, NEW n \in Nodes, Round!Stream(n) \/ Round!Deliver(n)
    PROVE  RoundInv'
  <1>1. UNCHANGED <<pc, round_attempt, fit, released, correlating, polls, stop_sent, session_active, error,
                    node_status, acq,
                    hist, bg, tail, clock, faults, lost>>
    BY DEF Round!Stream, Round!Deliver, Round!main, Round!link, Round!node, Round!adders
  <1>2. sent \in [Nodes -> 0 .. Units] /\ got \in [Nodes -> 0 .. Units] /\ dwell \in [Nodes -> SUBSET (1 .. Attempts)]
    BY DEF RoundInv, RoundTyped, UnitsTyped, LinkTyped
  <1>3. /\ \/ dwell' = dwell
           \/ dwell' = [dwell EXCEPT ![n] = @ \cup {round_attempt}] /\ Round!Streaming(n)
        /\ \/ sent' = sent /\ got' = got
           \/ /\ Round!Streaming(n) /\ pc # "calibrate" /\ sent[n] < Units
              /\ sent' = [sent EXCEPT ![n] = @ + 1] /\ got' = got
           \/ got[n] < sent[n] /\ got' = [got EXCEPT ![n] = @ + 1] /\ sent' = sent
    BY DEF Round!Stream, Round!Deliver, Round!node
  <1>4. /\ sent' \in [Nodes -> 0 .. Units] /\ got' \in [Nodes -> 0 .. Units]
        /\ \A m \in Nodes : got[m] =< got'[m] /\ sent[m] =< sent'[m]
        /\ \A m \in Nodes : got[m] =< sent[m] => got'[m] =< sent'[m]
    BY <1>2, <1>3, RoundBounds
  <1>5. LinkTyped'
    <2>1. Round!Streaming(n) => round_attempt \in 1 .. Attempts
      BY RoundBounds DEF RoundInv, RoundTyped, MainTyped, Round!Streaming
    <2>2. dwell' \in [Nodes -> SUBSET (1 .. Attempts)]
      BY <1>2, <1>3, <2>1
    <2> QED
      BY <1>1, <2>2 DEF RoundInv, RoundTyped, LinkTyped
  <1>6. RoundTyped'
    BY <1>1, <1>4, <1>5 DEF RoundInv, RoundTyped, MainTyped, FlagsTyped, UnitsTyped
  <1>7. OffsetOwn'
    BY <1>1, <1>2, <1>3 DEF RoundInv, OffsetOwn, Underway
  <1>8. Behind'
    <2> SUFFICES ASSUME Underway, NEW m \in Nodes PROVE released =< got'[m] /\ got'[m] =< sent'[m]
      BY <1>1 DEF Behind, Underway
    <2>1. released =< got[m] /\ got[m] =< sent[m] /\ released \in Nat
      BY DEF RoundInv, Behind, RoundTyped, UnitsTyped
    <2> QED
      BY <1>2, <1>4, <2>1
  <1>9. LastPoll'
    <2> SUFFICES ASSUME Settled, pc \in {"tail", "recorded"}, clock # "late", polls = 0
                 PROVE  got' = sent' /\ released = Round!Complete(got')
      BY <1>1 DEF LastPoll, Round!Complete
    <2>1. got = sent /\ released = Round!Complete(got)
      BY DEF RoundInv, LastPoll
    <2>2. got' = got /\ sent' = sent
      BY <1>2, <1>3, <2>1, NothingStreams
    <2> QED
      BY <2>1, <2>2
  <1>10. Sessions' /\ SessionsEnded' /\ Round!RecordedMeansDone' /\ Hands' /\ Added'
    BY <1>1 DEF RoundInv, Sessions, SessionsEnded, Round!RecordedMeansDone, Hands, Added, Underway,
                Round!Streaming
  <1> QED
    BY <1>6, <1>7, <1>8, <1>9, <1>10 DEF RoundInv

\* How a node's acquisition ends, and how the receiver learns of it.
LEMMA Ends ==
    ASSUME Round!SweepRoundAssumption, RoundInv, NEW n \in Nodes,
           Round!NodeDone(n) \/ Round!NodeError(n) \/ Round!NodeDies(n) \/ Round!OnStatus(n)
    PROVE  RoundInv'
  <1>1. /\ UNCHANGED <<pc, round_attempt, fit, released, correlating, polls, stop_sent, sent, dwell, got, hist,
                       bg, tail,
                       clock, lost>>
        /\ faults' = faults \/ (faults < Faults /\ faults' = faults + 1)
        /\ \/ /\ Round!Streaming(n) /\ acq' = [acq EXCEPT ![n] = "done"] /\ node_status' = [node_status EXCEPT ![n] = "done"]
              /\ UNCHANGED <<session_active, error>>
           \/ /\ Round!Streaming(n) /\ acq' = [acq EXCEPT ![n] = "failed"]
              /\ node_status' = [node_status EXCEPT ![n] = "error"] /\ UNCHANGED <<session_active, error>>
           \/ /\ Round!Streaming(n) /\ acq' = [acq EXCEPT ![n] = "dead"] /\ UNCHANGED <<node_status,
                                                                                        session_active, error>>
           \/ /\ node_status[n] # "none" /\ node_status' = [node_status EXCEPT ![n] = "none"] /\ acq' = acq
              /\ session_active' = [session_active EXCEPT ![n] = @ /\ ~Round!Ends(node_status[n])]
              /\ error' = [error EXCEPT ![n] = @ \/ Round!Fails(node_status[n])]
    BY DEF Round!NodeDone, Round!NodeError, Round!NodeDies, Round!OnStatus, Round!main, Round!link, Round!node,
           Round!data, Round!adders, Round!Streaming
  <1>2. LinkTyped
    BY DEF RoundInv, RoundTyped
  <1>3. /\ acq' \in [Nodes -> Round!Acqs] /\ node_status' \in [Nodes -> {"none", "done", "error", "busy"}]
    BY <1>1, <1>2 DEF LinkTyped, Round!Acqs
  <1>4. session_active' \in [Nodes -> BOOLEAN] /\ error' \in [Nodes -> BOOLEAN]
    <2>1. CASE UNCHANGED <<session_active, error>>
      BY <1>2, <2>1 DEF LinkTyped
    <2>2. CASE ~UNCHANGED <<session_active, error>>
      <3>1. /\ session_active' = [session_active EXCEPT ![n] = @ /\ ~Round!Ends(node_status[n])]
            /\ error' = [error EXCEPT ![n] = @ \/ Round!Fails(node_status[n])]
        BY <1>1, <2>2
      <3>2. session_active \in [Nodes -> BOOLEAN] /\ error \in [Nodes -> BOOLEAN]
        BY <1>2 DEF LinkTyped
      <3> QED
        BY <3>1, <3>2
    <2> QED
      BY <2>1, <2>2
  <1>5. RoundTyped'
    <2>1. faults' \in 0 .. Faults
      BY <1>1, RoundBounds DEF RoundInv, RoundTyped, MainTyped
    <2>2. round_attempt # 0 \/ acq' = acq
      BY <1>1 DEF RoundInv, RoundTyped, MainTyped, Round!Streaming
    <2>3. MainTyped'
      BY <1>1, <2>1, <2>2 DEF RoundInv, RoundTyped, MainTyped
    <2>4. LinkTyped'
      BY <1>1, <1>2, <1>3, <1>4 DEF LinkTyped
    <2> QED
      BY <1>1, <2>3, <2>4 DEF RoundInv, RoundTyped, FlagsTyped, UnitsTyped
  <1>6. \A m \in Nodes : m # n => /\ acq'[m] = acq[m] /\ node_status'[m] = node_status[m]
                                  /\ session_active'[m] = session_active[m] /\ error'[m] = error[m]
    BY <1>1, <1>2 DEF LinkTyped
  <1>7. node_status[n] # "none" => Round!Ends(node_status[n])
    BY <1>2 DEF LinkTyped, Round!Ends
  <1>8. \/ /\ Round!Streaming(n) /\ acq'[n] = "done" /\ node_status'[n] = "done"
           /\ session_active'[n] = session_active[n] /\ error'[n] = error[n]
        \/ /\ Round!Streaming(n) /\ acq'[n] = "failed" /\ node_status'[n] = "error"
           /\ session_active'[n] = session_active[n] /\ error'[n] = error[n]
        \/ /\ Round!Streaming(n) /\ acq'[n] = "dead" /\ node_status'[n] = node_status[n]
           /\ session_active'[n] = session_active[n] /\ error'[n] = error[n]
        \/ /\ node_status[n] # "none" /\ acq'[n] = acq[n] /\ node_status'[n] = "none"
           /\ ~session_active'[n] /\ (error'[n] <=> error[n] \/ Round!Fails(node_status[n]))
    BY <1>1, <1>2, <1>7 DEF LinkTyped
  <1>9. Sessions'
    <2> SUFFICES ASSUME Underway, NEW m \in Nodes
                 PROVE  /\ node_status'[m] = "done" => acq'[m] = "done"
                        /\ node_status'[m] = "error" => acq'[m] = "failed"
                        /\ node_status'[m] = "busy" => acq'[m] = "refused"
                        /\ error'[m] => acq'[m] \in {"failed", "refused"}
                        /\ session_active'[m] => Round!Streaming(m)' \/ acq'[m] = "dead" \/ node_status'[m] # "none"
                        /\ session_active'[m] \/ error'[m] \/ acq'[m] = "done"
      BY <1>1 DEF Sessions, Underway
    <2>1. /\ node_status[m] = "done" => acq[m] = "done"
          /\ node_status[m] = "error" => acq[m] = "failed"
          /\ node_status[m] = "busy" => acq[m] = "refused"
          /\ error[m] => acq[m] \in {"failed", "refused"}
          /\ session_active[m] => Round!Streaming(m) \/ acq[m] = "dead" \/ node_status[m] # "none"
          /\ session_active[m] \/ error[m] \/ acq[m] = "done"
      BY DEF RoundInv, Sessions
    <2>2. CASE m # n
      BY <1>6, <2>1, <2>2 DEF Round!Streaming
    <2>3. CASE m = n
      <3>1. node_status[n] \in {"none", "done", "error", "busy"}
        BY <1>2 DEF LinkTyped
      <3> QED
        BY <1>8, <2>1, <2>3, <3>1 DEF Round!Streaming, Round!Fails
    <2> QED
      BY <2>2, <2>3
  <1>10. SessionsEnded' /\ Round!RecordedMeansDone'
    <2> SUFFICES ASSUME pc \in {"tail", "recorded"}, clock # "late", NEW m \in Nodes
                 PROVE  ~session_active'[m] /\ (pc = "recorded" => acq'[m] = "done")
      BY <1>1 DEF SessionsEnded, Round!RecordedMeansDone
    <2>1. ~Round!Streaming(n)
      BY NothingStreams
    <2>2. ~session_active[m] /\ (pc = "recorded" => acq[m] = "done")
      BY DEF RoundInv, SessionsEnded, Round!RecordedMeansDone
    <2> QED
      BY <1>6, <1>8, <2>1, <2>2
  <1>11. OffsetOwn' /\ Hands' /\ Behind' /\ Added' /\ LastPoll'
    BY <1>1 DEF RoundInv, OffsetOwn, Hands, Behind, Added, LastPoll, Underway, Round!Complete
  <1> QED
    BY <1>5, <1>9, <1>10, <1>11 DEF RoundInv

LEMMA TimeGoes == ASSUME RoundInv, Round!Elapse \/ UNCHANGED Round!vars PROVE RoundInv'
  <1>1. /\ UNCHANGED <<pc, round_attempt, fit, released, correlating, polls, stop_sent, session_active, error,
                       node_status,
                       acq, sent, dwell, got, hist, bg, tail, faults, lost>>
        /\ clock' = clock \/ (pc = "poll" /\ clock' \in {"due", "late"})
    BY DEF Round!Elapse, Round!vars, Round!main, Round!link, Round!node, Round!data, Round!adders
  <1>2. RoundTyped'
    BY <1>1 DEF RoundInv, RoundTyped, MainTyped, FlagsTyped, LinkTyped, UnitsTyped
  <1>3. OffsetOwn' /\ Sessions' /\ Hands' /\ Behind' /\ Added'
    BY <1>1 DEF RoundInv, OffsetOwn, Sessions, Hands, Behind, Added, Underway, Round!Streaming
  <1>4. SessionsEnded' /\ Round!RecordedMeansDone' /\ LastPoll'
    BY <1>1 DEF RoundInv, SessionsEnded, Round!RecordedMeansDone, LastPoll, Round!Complete
  <1> QED
    BY <1>2, <1>3, <1>4 DEF RoundInv

\* run_round, for any nodes, attempts, units and faults, where the last poll of the
\* tail finds what was sent: a round recorded before the 180 s run out was calibrated
\* on its own session and finished by every node, and has every unit they streamed in
\* its histograms, unless an exception was swallowed or the two threads added at once.
THEOREM RoundAlone ==
    ASSUME Round!SweepRoundAssumption, Settled
    PROVE  Round!Init /\ [][Round!Next]_(Round!vars) => []Round!RoundSound
  <1>1. Round!Init => RoundInv
    BY RoundInit
  <1>2. RoundInv /\ [Round!Next]_Round!vars => RoundInv'
    <2> SUFFICES ASSUME RoundInv, [Round!Next]_Round!vars PROVE RoundInv'
      OBVIOUS
    <2>1. CASE Round!Main
      BY <2>1, BringsUp, Starts, Calibrates, Turns, TailStarts, TailPolls, Adds, TailEnds DEF Round!Main
    <2>2. CASE Round!Background
      BY <2>2, Adds DEF Round!Background
    <2>3. CASE \E n \in Nodes : Round!Node(n) \/ Round!Receiver(n)
      BY <2>3, Streams, Ends DEF Round!Node, Round!Receiver
    <2>4. CASE Round!Elapse \/ UNCHANGED Round!vars
      BY <2>4, TimeGoes
    <2> QED
      BY <2>1, <2>2, <2>3, <2>4 DEF Round!Next
  <1>3. RoundInv => Round!RoundSound
    <2> SUFFICES ASSUME RoundInv PROVE Round!RoundSound
      OBVIOUS
    <2>1. Round!TypeOK
      <3>1. {correlating, stop_sent, lost} \subseteq BOOLEAN
        BY DEF RoundInv, RoundTyped, FlagsTyped
      <3>2. session_active \in [Nodes -> BOOLEAN] /\ error \in [Nodes -> BOOLEAN]
        BY DEF RoundInv, RoundTyped, LinkTyped
      <3> QED
        BY <3>1, <3>2 DEF RoundInv, RoundTyped, MainTyped, LinkTyped, UnitsTyped, UnitSet, Adding, Round!Adders,
                          Round!TypeOK
    <2>2. Round!CalibratedOnOwnSession
      BY DEF RoundInv, RoundTyped, MainTyped, OffsetOwn, Underway, Round!CalibratedOnOwnSession
    <2>3. Round!FlagMeansSession
      BY DEF RoundInv, Sessions, Underway, Round!FlagMeansSession
    <2>4. Round!EverythingCounted
      <3> SUFFICES ASSUME pc = "recorded", clock # "late", ~lost PROVE hist = 1 .. Round!Complete(sent)
        BY DEF Round!EverythingCounted
      <3>1. bg.batch = {} /\ tail.batch = {} /\ polls = 0
        BY IdleTyped DEF RoundInv, Hands, Underway
      <3>2. hist \cup bg.batch \cup tail.batch = 1 .. released
        BY DEF RoundInv, Added, Underway
      <3>3. got = sent /\ released = Round!Complete(got)
        BY <3>1 DEF RoundInv, LastPoll
      <3> QED
        BY <3>1, <3>2, <3>3
    <2> QED
      BY <2>1, <2>2, <2>3, <2>4 DEF RoundInv, Round!RoundSound
  <1> QED
    BY <1>1, <1>2, <1>3, PTL
-----------------------------------------------------------------------------
(***************************************************************************)
(* The sum.  Every step of it is a step of each machine, or leaves that    *)
(* machine as it is: what was proved of a machine alone holds in the sum.  *)
(***************************************************************************)
LEMMA StepOfEach ==
    ASSUME [SumNext]_sumvars
    PROVE  /\ [Next]_vars /\ [Round!Next]_(Round!vars) /\ [Recorder!Next]_(Recorder!vars)
           /\ [Page!Next]_(Page!vars) /\ [Offsets!Next]_(Offsets!vars)
  <1>1. /\ roundvars' = roundvars => UNCHANGED Round!vars
        /\ recordvars' = recordvars => UNCHANGED Recorder!vars
        /\ pagevars' = pagevars => UNCHANGED Page!vars
        /\ offsetvars' = offsetvars => UNCHANGED Offsets!vars
    BY DEF roundvars, recordvars, pagevars, offsetvars, Round!vars, Round!main, Round!link, Round!node,
           Round!data,
           Round!adders, Recorder!vars, Recorder!drive, Recorder!campaign, Recorder!meas, Recorder!disk, Recorder!notes,
           Recorder!nodes, Page!vars, Page!sweep, Page!page, Offsets!vars, Offsets!ledgers
  <1>2. CASE UNCHANGED sumvars
    BY <1>1, <1>2 DEF sumvars
  <1>3. CASE SumNext
    BY <1>1, <1>3 DEF SumNext, Steps, InCampaign, InRound, InRecorder, InPage, InOffsets, InPlans
  <1> QED
    BY <1>2, <1>3

LEMMA EachInSum ==
    SumSpec => /\ Init /\ [][Next]_vars
               /\ Round!Init /\ [][Round!Next]_(Round!vars)
               /\ Recorder!Spec /\ Page!Spec /\ Offsets!Spec
  <1>1. SumInit => Init /\ Round!Init /\ Recorder!Init /\ Page!Init /\ Offsets!Init
    BY DEF SumInit
  <1>2. [SumNext]_sumvars => /\ [Next]_vars /\ [Round!Next]_(Round!vars) /\ [Recorder!Next]_(Recorder!vars)
                             /\ [Page!Next]_(Page!vars) /\ [Offsets!Next]_(Offsets!vars)
    BY StepOfEach
  <1> QED
    BY <1>1, <1>2, PTL DEF SumSpec, Recorder!Spec, Page!Spec, Offsets!Spec

\* main of run.py, in a sweep: a record has its files whatever died, nothing recorded
\* is measured again unasked, every round is accounted for, the final status is true.
THEOREM CampaignInSum == SumSpec => []CampaignSound
  BY InitInv, NextInv, Enough, EachInSum, PTL

\* run_round, where the last poll of the tail finds what was sent: a round recorded
\* before the 180 s run out was calibrated on its own session, finished by every node,
\* and counted whole unless an exception was swallowed or two adds met.
THEOREM RoundIsSound == ASSUME Settled PROVE SumSpec => []RoundSound
  <1>1. Round!SweepRoundAssumption
    BY SweepAssumption
  <1> QED
    BY <1>1, RoundAlone, EachInSum, PTL DEF RoundSound

\* record.py and run_masks.py: what is analysed is one whole acquisition of
\* this attempt, unless a directory could not be emptied before it; raw stamps go
\* only of rounds that have a result, and a record beside it unless record.py or its
\* analysis ended between the two or a file was held open; every round is
\* accounted for at the end, and lSPAD is closed however the sweep stops.
THEOREM RecorderIsSound == SumSpec => []RecorderSound
  <1>1. Recorder!RecordSweepAssumption
    BY SweepAssumption
  <1> QED
    BY <1>1, RecorderAlone, EachInSum, PTL DEF RecorderSound

\* publish.py: DONE is said only when the page has every round, a round marked
\* uploaded is on the page, and the batch of a line has the rounds it names.
THEOREM PageIsTrue == SumSpec => []PageSound
  BY PageAlone, EachInSum, PTL DEF PageSound

\* backup_and_zero_offsets, restore_offsets, push_offsets, killed anywhere and run again:
\* a calibration that a zeroing run took is whole on the node or in the backups, except
\* one the last save of which was killed and that a restore or a push then wrote over.
THEOREM CalibrationSurvives == SumSpec => []CalibrationKept
  <1>1. Offsets!OffsetAssumption
    BY SweepAssumption
  <1> QED
    BY <1>1, OffsetsAlone, EachInSum, PTL DEF CalibrationKept
=============================================================================
