---------------------------- MODULE MCWriteQueue ----------------------------
(***************************************************************************)
(* Two payload rows, one of which the store refuses, the inbound and the   *)
(* outbound message of a turn, the first larger than the whole budget; a   *)
(* pause that may be given up, and the stop of a shutdown.                 *)
(***************************************************************************)
EXTENDS WriteQueue

CONSTANTS rowA, rowB, inbound, outbound, vacuum, shutdown

MCItem == {rowA, rowB, inbound, outbound}
MCKind == [i \in MCItem |-> CASE i \in {rowA, rowB} -> "payload"
                              [] OTHER -> "task"]
MCCost == [i \in MCItem |-> CASE i = inbound -> 4
                              [] OTHER -> 1]
MCPoison == {rowB}
MCPause == {vacuum}
MCStop == {shutdown}

=============================================================================
