------------------------------ MODULE MCMaster ------------------------------
(*
  The master with a run of two nodes, a launch and its successor, two connections of the
  receiver and the calibration of two runs. The bounds of each machine are in the cfg.
*)
EXTENDS MasterPrograms

\* Two marker inputs, by priority.
TwoKinds == <<"dwell", "line">>
=============================================================================
