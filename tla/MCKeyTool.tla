----------------------------- MODULE MCKeyTool -----------------------------
(***************************************************************************)
(* An instance of KeyTool for TLC: two key pairs to draw, one of which     *)
(* does not sign uncompressed, two messages and both networks.             *)
(***************************************************************************)
EXTENDS KeyTool

MCSigns == {k \in PrivKey : k.pair = "a" \/ k.compressed}
MCCount == {-1, 0, 1, 2}
=============================================================================
