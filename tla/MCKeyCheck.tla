----------------------------- MODULE MCKeyCheck -----------------------------
(***************************************************************************)
(* An instance of KeyCheck for TLC: a key in both written forms, one that  *)
(* does not sign and a value that is no key, on up to MaxLines lines of    *)
(* each setting, so that keys are repeated, bad or unmatched.              *)
(***************************************************************************)
EXTENDS KeyCheck

MCKey(pair, compressed) == [pair |-> pair, compressed |-> compressed]
MCSigns == {MCKey("a", TRUE), MCKey("a", FALSE)}
MCDecodes == MCSigns \cup {MCKey("b", TRUE)}
=============================================================================
