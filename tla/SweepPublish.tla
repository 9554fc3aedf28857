---------------------------- MODULE SweepPublish ----------------------------
(***************************************************************************)
(* Publishing a sweep while it runs (tools/sweep/publish.py): `wait` reads *)
(* the status, the records and its own state file one after the other,     *)
(* prints one line and, after it, the batch of writes built from what the  *)
(* files hold by then; an operator uploads the batch and marks the rounds  *)
(* of the line, in the order the module docstring gives, or does neither.  *)
(*                                                                         *)
(* A record or a document is the number of times the round was measured    *)
(* by then, 0 for none.                                                    *)
(***************************************************************************)
EXTENDS Integers, FiniteSets

CONSTANTS Rounds, MaxMeasured, MaxDeaths

PublishAssumption == IsFiniteSet(Rounds) /\ {MaxMeasured, MaxDeaths} \subseteq Nat

VARIABLES records,        \* rounds.jsonl
          phase, alive,   \* the sweep: its status, its process
          deaths,
          slow,           \* no progress for stall-min
          again,          \* ledger: started again since the status was read
          due,            \* cadence-min since last_wake_ts
          uploaded,       \* the state file
          pc,             \* "idle", "look", "decide", "build", "upload", "mark"
          seen,           \* the status that was read first
          line, lined,    \* the line printed, the rounds it names
          batch,          \* round -> document, and what the status counts
          artifact, shown

sweep == <<records, phase, alive, deaths, slow, again>>
page == <<artifact, shown>>
vars == <<sweep, due, uploaded, pc, seen, line, lined, batch, page>>

Recorded == {r \in Rounds : records[r] > 0}
Held == {r \in Rounds : artifact[r] > 0}
-----------------------------------------------------------------------------
\* Mutants of definitions below.
DoneWhenOver(status, pending) == status = "complete"
-----------------------------------------------------------------------------
\* pending_rounds
Pending == Recorded \ uploaded

\* decide
IsDone(status, pending) == status = "complete" /\ pending = {}
Decision(status, pending) ==
    IF IsDone(status, pending) THEN "DONE"
    ELSE IF status = "running" /\ ~alive THEN "DEAD"
    ELSE IF status = "running" /\ slow THEN "STALL"
    ELSE IF status = "complete" \/ due THEN "READY"
    ELSE "none"

\* build_writes: the rounds not uploaded yet, and what the page will hold.
Wanted == Pending
Count(wanted) == Cardinality(uploaded \cup wanted)

Init ==
    /\ records = [r \in Rounds |-> 0] /\ phase = "running" /\ alive = TRUE
    /\ deaths = 0 /\ slow = FALSE /\ again = FALSE /\ due = FALSE
    /\ uploaded = {} /\ pc = "idle"
    /\ seen = "none" /\ line = "none" /\ lined = {}
    /\ batch = [docs |-> [r \in Rounds |-> 0], count |-> 0]
    /\ artifact = [r \in Rounds |-> 0] /\ shown = 0

ofSweep == <<due, uploaded, pc, seen, line, lined, batch, page>>

\* The sweep finishes a round; a re-run one replaces its record.
Record(r) ==
    /\ phase = "running" /\ alive
    /\ records[r] < MaxMeasured
    /\ records' = [records EXCEPT ![r] = @ + 1]
    /\ slow' = FALSE
    /\ UNCHANGED <<phase, alive, deaths, again, ofSweep>>

\* A round may have failed for good.
Complete ==
    /\ phase = "running" /\ alive
    /\ phase' = "complete" /\ alive' = FALSE
    /\ UNCHANGED <<records, deaths, slow, again, ofSweep>>

Dies ==
    /\ alive /\ deaths < MaxDeaths
    /\ alive' = FALSE /\ deaths' = deaths + 1
    /\ UNCHANGED <<records, phase, slow, again, ofSweep>>

\* Resumed, or started once more with --redo.
Restarts ==
    /\ ~alive /\ \E r \in Rounds : records[r] < MaxMeasured
    /\ alive' = TRUE /\ phase' = "running" /\ slow' = FALSE
    /\ again' = TRUE
    /\ UNCHANGED <<records, deaths, ofSweep>>

Stalls ==
    /\ phase = "running" /\ alive /\ ~slow
    /\ slow' = TRUE
    /\ UNCHANGED <<records, phase, alive, deaths, again, ofSweep>>

CadencePasses ==
    /\ ~due /\ due' = TRUE
    /\ UNCHANGED <<sweep, uploaded, pc, seen, line, lined, batch, page>>

\* cmd_wait, one look: the status is read before the records and the state.
ReadStatus ==
    /\ pc = "look"
    /\ seen' = phase /\ pc' = "decide"
    /\ again' = FALSE
    /\ UNCHANGED <<records, phase, alive, deaths, slow, due, uploaded, line, lined, batch, page>>

Decide ==
    /\ pc = "decide"
    /\ line' = Decision(seen, Pending)
    /\ lined' = Pending
    /\ pc' = IF line' = "none" THEN "look" ELSE "build"
    /\ UNCHANGED <<sweep, due, uploaded, seen, batch, page>>

Build ==
    /\ pc = "build"
    /\ batch' = [docs |-> [r \in Rounds |-> IF r \in Wanted THEN records[r] ELSE 0],
                 count |-> Count(Wanted)]
    /\ pc' = "upload"
    /\ UNCHANGED <<sweep, due, uploaded, seen, line, lined, page>>

\* The operator's ArtifactData batch.
Upload ==
    /\ pc = "upload"
    /\ artifact' = [r \in Rounds |-> IF batch.docs[r] > 0 THEN batch.docs[r] ELSE artifact[r]]
    /\ shown' = batch.count
    /\ pc' = "mark"
    /\ UNCHANGED <<sweep, due, uploaded, seen, line, lined, batch>>

\* The rounds of a READY line, not the ones that were finished since.
Named(named) == IF line = "READY" THEN named ELSE {}

\* cmd_mark; with --wait it goes on to the next look.
Mark ==
    /\ pc = "mark"
    /\ uploaded' = uploaded \cup Named(lined)
    /\ due' = FALSE
    /\ pc' \in {"look", "idle"}
    /\ UNCHANGED <<sweep, seen, line, lined, batch, page>>

\* The operator, or `wait`, is interrupted between two steps; and starts again.
Interrupted ==
    /\ pc # "idle" /\ pc' = "idle"
    /\ UNCHANGED <<sweep, due, uploaded, seen, line, lined, batch, page>>

Wait ==
    /\ pc = "idle" /\ pc' = "look"
    /\ UNCHANGED <<sweep, due, uploaded, seen, line, lined, batch, page>>

Next ==
    \/ \E r \in Rounds : Record(r)
    \/ Complete \/ Dies \/ Restarts \/ Stalls \/ CadencePasses
    \/ ReadStatus \/ Decide \/ Build \/ Upload \/ Mark \/ Interrupted \/ Wait

Spec == Init /\ [][Next]_vars
-----------------------------------------------------------------------------
TypeOK ==
    /\ artifact \in [Rounds -> 0 .. MaxMeasured] /\ records \in [Rounds -> 0 .. MaxMeasured]
    /\ uploaded \subseteq Recorded /\ lined \subseteq Recorded
    /\ shown \in 0 .. Cardinality(Rounds)

\* DONE is said only when the page holds a document of every round of the sweep:
\* the status was read before the records (publish.py:22-28, 188-193, 250-253).
DoneMeansAll == pc = "build" /\ line = "DONE" /\ ~again => Recorded \subseteq Held

\* A round marked uploaded is on the page, although the batch is built after the
\* line and the rounds of the line are marked (publish.py:225-240, 250-259).
MarkedIsHeld == uploaded \subseteq Held

\* What the page lacks is in the batch of each line, DEAD and STALL included.
EveryLineCarries ==
    pc = "upload" => \A r \in lined : batch.docs[r] > 0

\* publish.py: whatever the sweep does meanwhile and wherever the upload is
\* interrupted, DONE means all rounds are on the page, and a round marked
\* uploaded is there.
PageSound == TypeOK /\ DoneMeansAll /\ MarkedIsHeld /\ EveryLineCarries
=============================================================================
