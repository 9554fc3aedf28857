------------------------------ MODULE TModeRows ------------------------------
(***************************************************************************)
(* The rows of one chip's T-mode files, from the file to the buffers of    *)
(* the keys: node_backend._process_tmode_file and the part of              *)
(* _reassemble_tmode_file that shifts and files its result, with the       *)
(* kernels of tmode_kernel.py.  TModeIngest has the files and the threads  *)
(* around them.                                                            *)
(*                                                                         *)
(* Init takes what the detector saw, and what it recorded: coarse counts   *)
(* that wrap, and a reset row with a wrapping number for each wrap, of     *)
(* which one may be lost.  The files are any cut of the rows.              *)
(***************************************************************************)
EXTENDS Integers, Sequences, FiniteSets
LOCAL INSTANCE SequencesExt

CONSTANTS SlavePixels, MasterPixels,    \* 170 and 150: the ids below are pixels
          SpecialIds, OverflowId, ResetId,
          CountsPerReset, PsPerCount,
          OffsetPs,                     \* pixel_offsets_ps, the same for all pixels
          Seen                          \* what a chip may see: sequences of [t, id]

RowsAssumption ==
    /\ MasterPixels =< SlavePixels /\ CountsPerReset \in Nat \ {0} /\ PsPerCount \in Nat \ {0}
    /\ (SpecialIds \cup {OverflowId, ResetId}) \cap (0 .. SlavePixels - 1) = {}
    /\ OverflowId \notin SpecialIds /\ ResetId \notin SpecialIds \cup {OverflowId}

VARIABLES chip, truth, lost,   \* what was seen; the reset row that is lost, 0: none
          rows,                \* what the files hold
          at,                  \* rows read: stats["records"]
          accumulated,         \* accumulated_offset of the chip
          bufs,                \* key -> time stamps
          abnormal,            \* the abnormal rows reported: [id, record]
          failed               \* the session ended with a ValueError

vars == <<chip, truth, lost, rows, at, accumulated, bufs, abnormal, failed>>
-----------------------------------------------------------------------------
\* The recorder of the detector.
EpochOf(t) == t \div (CountsPerReset * PsPerCount)
Row(e) == [id |-> e.id, coarse |-> (e.t \div PsPerCount) % CountsPerReset,
           fine |-> e.t % PsPerCount]
ResetRow(epoch) == [id |-> ResetId, coarse |-> 0, fine |-> (epoch - 1) % CountsPerReset]

Recorded(seen) ==
    FlattenSeq([i \in DOMAIN seen |->
        LET from == IF i = 1 THEN 0 ELSE EpochOf(seen[i - 1].t)
        IN  [k \in 1 .. EpochOf(seen[i].t) - from |-> ResetRow(from + k)] \o <<Row(seen[i])>>])

IsReset(row) == row.id = ResetId
ResetsOf(rs) == SelectSeq(rs, IsReset)
PlaceOfReset(rs, k) == CHOOSE i \in DOMAIN rs :
                          IsReset(rs[i]) /\ Len(ResetsOf(SubSeq(rs, 1, i))) = k
-----------------------------------------------------------------------------
\* Mutants of definitions below.
ContiguousUnwrapped(seqs) == \A k \in DOMAIN seqs : seqs[k] = seqs[1] + k - 1
-----------------------------------------------------------------------------
\* SLOT_DEST: the destination of an id, none for the ids of no pixel.
KeyOf(c, id) ==
    IF id < (IF c = "master" THEN MasterPixels ELSE SlavePixels) \/ id \in SpecialIds
    THEN {<<c, id>>} ELSE {}

DestKeys ==
    {<<"slave", i>> : i \in (0 .. SlavePixels - 1) \cup SpecialIds}
      \cup {<<"master", i>> : i \in (0 .. MasterPixels - 1) \cup SpecialIds}
IsPixel(key) == key[2] \notin SpecialIds

\* reconstruct_epochs, from the epoch of the file's start.
Epoch(rs, i) == Len(ResetsOf(SubSeq(rs, 1, i)))
ReconstructEpochs(rs, offset) ==
    LET times == [i \in DOMAIN rs |->
            [id |-> rs[i].id,
             t |-> ((offset + Epoch(rs, i)) * CountsPerReset + rs[i].coarse) * PsPerCount
                     + rs[i].fine]]
    IN  SelectSeq(times, LAMBDA x : x.id # ResetId)

\* counting_sort_bucket: the rows of a destination, packed one destination
\* after the other; the place of a row inside its own is its rank.
Rank(d, i) == Cardinality({k \in DOMAIN d : k < i /\ d[k] = d[i]})
Bucket(c, photons, key) ==
    LET d == [i \in DOMAIN photons |-> KeyOf(c, photons[i].id)]
        mine == {i \in DOMAIN photons : d[i] = {key}}
    IN  [r \in 1 .. Cardinality(mine) |->
            photons[CHOOSE i \in mine : Rank(d, i) = r - 1].t]

Contiguous(seqs) ==
    \A k \in DOMAIN seqs : seqs[k] = (seqs[1] + k - 1) % CountsPerReset

\* The first reset row of a file has the number the files before it lead to.
StartsRight(seqs) == seqs # <<>> => seqs[1] = accumulated % CountsPerReset

Shift == accumulated * CountsPerReset * PsPerCount

\* _offset_pixel_slice
Offset(key, ts) == [i \in DOMAIN ts |-> ts[i] + (IF IsPixel(key) THEN OffsetPs ELSE 0)]

IsAbnormal(photon) ==
    /\ photon.id >= (IF chip = "master" THEN MasterPixels ELSE SlavePixels)
    /\ photon.id \notin SpecialIds

\* What report_abnormal logs: the count of records before the file plus the
\* place among the rows of the file that are not resets.
Reports(photons) ==
    LET odd == {i \in DOMAIN photons : IsAbnormal(photons[i])}
    IN  {[id |-> photons[i].id, record |-> at + i - 1] : i \in odd}
-----------------------------------------------------------------------------
Init ==
    /\ chip \in {"slave", "master"}
    /\ truth \in Seen
    /\ LET whole == Recorded(truth)
       IN  /\ lost \in 0 .. Len(ResetsOf(whole))
           /\ rows = IF lost = 0 THEN whole ELSE RemoveAt(whole, PlaceOfReset(whole, lost))
    /\ at = 0
    /\ accumulated = 0
    /\ bufs = [key \in DestKeys |-> <<>>]
    /\ abnormal = {}
    /\ failed = FALSE

ProcessFile(n) ==
    LET file == SubSeq(rows, at + 1, at + n)
        seqs == [k \in DOMAIN ResetsOf(file) |-> ResetsOf(file)[k].fine]
        photons == ReconstructEpochs(file, 0)
        Filed(key) == LET ts == Bucket(chip, photons, key)
                      IN  Offset(key, [i \in DOMAIN ts |-> ts[i] + Shift])
    IN  /\ ~failed
        /\ IF Contiguous(seqs) /\ StartsRight(seqs)
           THEN /\ bufs' = [key \in DestKeys |-> bufs[key] \o Filed(key)]
                /\ abnormal' = abnormal \cup Reports(photons)
                /\ accumulated' = accumulated + Len(seqs)
                /\ at' = at + n
                /\ UNCHANGED failed
           ELSE /\ failed' = TRUE
                /\ UNCHANGED <<at, accumulated, bufs, abnormal>>
        /\ UNCHANGED <<chip, truth, lost, rows>>

Next == \E n \in 1 .. Len(rows) - at : ProcessFile(n)

Spec == Init /\ [][Next]_vars
-----------------------------------------------------------------------------
Read == SubSeq(rows, 1, at)
\* The events read so far, as the detector saw them.
EventsRead == SubSeq(truth, 1, at - Len(ResetsOf(Read)))
TrueOf(key) ==
    Offset(key, LET mine == SelectSeq(EventsRead, LAMBDA e : KeyOf(chip, e.id) = {key})
                IN  [i \in DOMAIN mine |-> mine[i].t])
LostBefore == lost > 0 /\ EpochOf(EventsRead[Len(EventsRead)].t) >= lost

\* However the rows are cut into files, each event is filed under its own key,
\* in order, with the time at which the detector saw it plus the offset of its
\* pixel, as long as no reset row is missing (node_backend.py:437-534 with the
\* shift of _reassemble_tmode_file, tmode_kernel.py:39-127).
TrueTimes ==
    EventsRead # <<>> /\ ~LostBefore => \A key \in DestKeys : bufs[key] = TrueOf(key)

\* A complete recording never ends a session, its numbers wrapping or not; and
\* no file with a reset row after a lost one gets into the buffers: a shift of
\* 6.5536 ms goes on until the next reset row at most (node_backend.py:409-416).
MismatchExact ==
    /\ failed => lost > 0
    /\ lost > 0 => Len(ResetsOf(Read)) < lost

\* Each row that is not a reset row is filed, or it is reported as abnormal
\* and not filed: the ids 150-169 of the master chip are the slave's alone
\* (node_backend.py:289-292, 499-511).
FiledOrReported ==
    /\ \A key \in DestKeys : key[1] # chip => bufs[key] = <<>>
    /\ \A i \in DOMAIN EventsRead :
          KeyOf(chip, EventsRead[i].id) = {} <=> \E x \in abnormal : x.id = EventsRead[i].id
=============================================================================
