------------------------------ MODULE MCTxRing ------------------------------
(* A ring just larger than the longest message, so that every message        *)
(* starts at every place of the buffer and wraps at every byte.              *)
EXTENDS TxRing

MCTags == {"a", "b"}
=============================================================================
