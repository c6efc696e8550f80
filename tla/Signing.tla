------------------------------ MODULE Signing ------------------------------
(***************************************************************************)
(* Signing and checking of messages (common/keytool.cpp).  A key is named  *)
(* by its key pair and by whether its public key is written compressed;    *)
(* the address (GetID, the hash of the written public key) tells the same  *)
(* apart.  The library's cryptography is ideal: a signature names the pair *)
(* and the message it was made for, a compact one the written form too.    *)
(***************************************************************************)
CONSTANTS
  Pair,     \* the key pairs, and texts that are no public key
  Message,
  Signs     \* the private keys for which the library's Sign works

PrivKey == [pair : Pair, compressed : BOOLEAN]
PubKey == [pair : Pair, compressed : BOOLEAN]

ASSUME SigningAssumption == Signs \subseteq PrivKey

NoSignature == [form |-> "none"]
Signature ==
  [form : {"der"}, pair : Pair, msg : Message]
    \cup [form : {"compact"}, key : PubKey, msg : Message]

GetPubKey(privkey) == [pair |-> privkey.pair, compressed |-> privkey.compressed]

MsgSign(privkey, msg) ==
  IF privkey \in Signs THEN [form |-> "der", pair |-> privkey.pair, msg |-> msg]
  ELSE NoSignature

\* A signature checks with either form of its public key.
MsgVerify(pubkey, msg, sig) ==
  sig.form = "der" /\ sig.pair = pubkey.pair /\ sig.msg = msg

CompactSign(privkey, msg) ==
  IF privkey \in Signs
  THEN [form |-> "compact", key |-> GetPubKey(privkey), msg |-> msg]
  ELSE NoSignature

\* Faulty: a public key is recovered, whichever it is.
CompactVerify_Recovered(pubkey, msg, sig) == sig.form = "compact" /\ sig.msg = msg

\* The public key is recovered from the signature and its address compared;
\* from a signature of another message no key anybody holds is recovered.
CompactVerify(pubkey, msg, sig) ==
  sig.form = "compact" /\ sig.msg = msg /\ sig.key = pubkey

\* Faulty: the plain signature is all that is tried.
IsPairOfKey_Plain(privkey, pubkey, msg) ==
  privkey \in Signs /\ MsgVerify(pubkey, msg, MsgSign(privkey, msg))

\* IsPairOfKey signs both ways and checks both.
IsPairOfKey(privkey, pubkey, msg) ==
  LET sig == MsgSign(privkey, msg)
      compact == CompactSign(privkey, msg)
  IN  /\ sig # NoSignature /\ MsgVerify(pubkey, msg, sig)
      /\ compact # NoSignature /\ CompactVerify(pubkey, msg, compact)
=============================================================================
