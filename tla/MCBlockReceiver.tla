--------------------------- MODULE MCBlockReceiver ---------------------------
EXTENDS BlockReceiver

(* A short message, and transfers of one to three blocks; the longest is    *)
(* longer than SizeLimit.                                                   *)
MCLengths    == {1, 4, 6, 9}
ShortLengths == {1, 4, 6, 7}

Zeroed        == {0}
Uninitialized == {0, 1, 2}
=============================================================================
