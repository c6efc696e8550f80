--------------------------- MODULE MCMemPoolFill ---------------------------
(***************************************************************************)
(* An instance of MemPoolFill for TLC: a million of 30 bytes, transactions *)
(* that divide it, do not, fill more than a tenth, or do not fit at all.   *)
(***************************************************************************)
EXTENDS MemPoolFill

MCMaxMempool == {-1, 0, 1, 2}
MCTxSize == {2, 4, 7, 30, 40}
=============================================================================
