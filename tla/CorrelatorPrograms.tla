-------------------------- MODULE CorrelatorPrograms --------------------------
(***************************************************************************)
(* The two machines of the correlator window (correlate_multi.py): the     *)
(* batches on their way from the channel graph to the histograms           *)
(* (CorrelatorWindow, extended with its variables), and the tracking of    *)
(* the chips' dwell offsets (ChipTracking).  MCCorrelator adds what they   *)
(* and the sweep compute on the data.                                      *)
(***************************************************************************)
EXTENDS CorrelatorWindow

CONSTANTS Nodes, Referenced, MaxSessions, MaxMarkers   \* of ChipTracking

VARIABLES session, sent, active, chips_accumulating, corr, queue, tracker, due, idle, latched,
          told, run

Chips == INSTANCE ChipTracking WITH accumulating <- chips_accumulating

chipvars == <<session, sent, active, chips_accumulating, corr, queue, tracker, due, idle,
              latched, told, run>>
-----------------------------------------------------------------------------
\* correlate_multi.py:919-1011: the trackers of a run know the markers of that
\* run's session only, and the receiver is asked about a dead one at most once.
TrackersSound == Chips!TypeOK /\ Chips!TrackersOfThisRun /\ Chips!AskedOnce
=============================================================================
