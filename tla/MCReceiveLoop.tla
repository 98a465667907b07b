--------------------------- MODULE MCReceiveLoop ---------------------------
(* One board, the code's limit of five missed keep-alives. *)
EXTENDS ReceiveLoop

MCCans    == {1}
MCNodeIds == {0}
MCIds     == {"front"}
=============================================================================
