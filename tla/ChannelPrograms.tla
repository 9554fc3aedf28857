--------------------------- MODULE ChannelPrograms ---------------------------
(***************************************************************************)
(* The two ways a ChannelGraph of correlate_engine.py keeps what it waits  *)
(* for: in RAM (ChannelGraph) or with a disk tail (ChannelSpill).  Both    *)
(* have the stall detection and its variables; a behaviour is one of a     *)
(* single graph, named by tail.                                            *)
(***************************************************************************)
EXTENDS ChannelGraph, ChannelSpill

CONSTANT Tails   \* the kinds of graph to consider

VARIABLE tail

ramvars == <<queue, held, accumulating, batch, delivered, counted>>
diskvars == <<buf, released, drained, tallied, inOrder>>

GraphInit ==
    /\ tail \in Tails
    /\ tail = "ram" => StallInit
    /\ tail = "disk" => SpillInit
    /\ GraphEmpty /\ SpillEmpty

GraphNext ==
    \/ tail = "ram" /\ Next /\ UNCHANGED <<tail, diskvars>>
    \/ tail = "disk" /\ SpillNext /\ UNCHANGED <<tail, ramvars>>

GraphSpec == GraphInit /\ [][GraphNext]_<<tail, vars, spillvars>>
=============================================================================
