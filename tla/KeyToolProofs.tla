--------------------------- MODULE KeyToolProofs ---------------------------
(***************************************************************************)
(* What the user of the key commands may rely on, for any session on any   *)
(* networks: theorems of KeyTool!Spec.                                     *)
(***************************************************************************)
EXTENDS KeyTool, FiniteSetTheorems, TLAPS

\* A key as newaddress prints it has the two parts of a private key.
LEMMA NewKeyText ==
  ASSUME TypeOK, NEW pair \in Pair
  PROVE  /\ NewKey(pair) \in Text
         /\ NewKey(pair).key.pair = pair /\ NewKey(pair).net = net
         /\ NewKey(pair).key.compressed = request.compressed
<1>1. net \in Network /\ request.compressed \in BOOLEAN
  BY DEF TypeOK
<1> QED
  BY <1>1 DEF NewKey, Text, PrivKey

\* A step of UseKey prints nothing, or one signature that says what it is of.
LEMMA UseKeySigns ==
  ASSUME TypeOK, UseKey
  PROVE  \/ signatures' = signatures
         \/ \E cmd \in {"signmsg", "compactsign"}, text \in Text, msg \in Message :
              LET sig == IF cmd = "signmsg" THEN MsgSign(text.key, msg)
                         ELSE CompactSign(text.key, msg)
              IN  /\ text.key \in Signs /\ sig \in Signature
                  /\ signatures' = signatures \cup
                       {[cmd |-> cmd, on |-> net, text |-> text, msg |-> msg, sig |-> sig]}
<1>1. PICK text \in Text :
        \/ signatures' = signatures
        \/ \E msg \in Message :
             \/ PrintSignature("signmsg", text, msg, MsgSign(text.key, msg))
             \/ PrintSignature("compactsign", text, msg, CompactSign(text.key, msg))
  BY DEF UseKey, TypeOK
<1>2. text.key \in PrivKey /\ text.key.pair \in Pair /\ GetPubKey(text.key) \in PubKey
  BY DEF Text, PrivKey, PubKey, GetPubKey
<1>3. ASSUME NEW msg \in Message
      PROVE  /\ MsgSign(text.key, msg) # NoSignature =>
                  text.key \in Signs /\ MsgSign(text.key, msg) \in Signature
             /\ CompactSign(text.key, msg) # NoSignature =>
                  text.key \in Signs /\ CompactSign(text.key, msg) \in Signature
  BY <1>2 DEF MsgSign, CompactSign, Signature
<1>4. ASSUME NEW msg \in Message,
             PrintSignature("signmsg", text, msg, MsgSign(text.key, msg)),
             signatures' # signatures
      PROVE  /\ text.key \in Signs /\ MsgSign(text.key, msg) \in Signature
             /\ signatures' = signatures \cup
                  {[cmd |-> "signmsg", on |-> net, text |-> text, msg |-> msg,
                    sig |-> MsgSign(text.key, msg)]}
  BY <1>3, <1>4 DEF PrintSignature
<1>5. ASSUME NEW msg \in Message,
             PrintSignature("compactsign", text, msg, CompactSign(text.key, msg)),
             signatures' # signatures
      PROVE  /\ text.key \in Signs /\ CompactSign(text.key, msg) \in Signature
             /\ signatures' = signatures \cup
                  {[cmd |-> "compactsign", on |-> net, text |-> text, msg |-> msg,
                    sig |-> CompactSign(text.key, msg)]}
  BY <1>3, <1>5 DEF PrintSignature
<1> QED
  BY <1>1, <1>4, <1>5

\* The variables keep their types.
THEOREM TypeCorrect == Spec => []TypeOK
<1>1. Init => TypeOK
  <2>1. Init => died \in BOOLEAN
    BY Zenon DEF Init
  <2>2. Init => request \in [compressed : BOOLEAN, num : Int]
    BY DEF Init
  <2> QED
    BY <2>1, <2>2 DEF Init, TypeOK
<1>2. TypeOK /\ [Next]_vars => TypeOK'
  <2> SUFFICES ASSUME TypeOK, [Next]_vars PROVE TypeOK'
    OBVIOUS
  <2> USE DEF making
  <2>1. CASE Restart
    BY <2>1 DEF Restart, TypeOK
  <2>2. CASE NewAddress
    <3>1. \A num \in Count : num \in Int
      BY KeyToolAssumption
    <3>2. died' \in BOOLEAN
      BY <2>2, Zenon DEF NewAddress
    <3>3. request' \in [compressed : BOOLEAN, num : Int]
      BY <2>2, <3>1 DEF NewAddress
    <3> QED
      BY <2>2, <3>2, <3>3 DEF NewAddress, TypeOK
  <2>3. CASE MakeNewKey
    <3>1. PICK pair \in Pair \ drawn :
            /\ drawn' = drawn \cup {pair}
            /\ batch' = batch \cup {NewKey(pair)} /\ wallet' = wallet \cup {NewKey(pair)}
      BY <2>3 DEF MakeNewKey
    <3>2. NewKey(pair) \in Text
      BY NewKeyText
    <3> QED
      BY <2>3, <3>1, <3>2 DEF MakeNewKey, More, TypeOK
  <2>4. CASE MakeNewKeyFails
    BY <2>4 DEF MakeNewKeyFails, More, AfterFailure, TypeOK
  <2>5. CASE MakeNewKeyDies
    BY <2>5 DEF MakeNewKeyDies, TypeOK
  <2>6. CASE NewAddressReturns
    BY <2>6 DEF NewAddressReturns, TypeOK
  <2>7. CASE UseKey
    <3>1. UNCHANGED <<net, making>>
      BY <2>7 DEF UseKey
    <3> DEFINE Printed == [cmd : {"signmsg", "compactsign"}, on : Network, text : Text,
                           msg : Message, sig : Signature]
    <3>2. signatures \in SUBSET Printed /\ net \in Network
      BY DEF TypeOK
    <3>3. signatures' \in SUBSET Printed
      <4>1. CASE signatures' = signatures
        BY <3>2, <4>1
      <4>2. ASSUME NEW cmd \in {"signmsg", "compactsign"}, NEW text \in Text,
                   NEW msg \in Message, NEW sig \in Signature
            PROVE  [cmd |-> cmd, on |-> net, text |-> text, msg |-> msg, sig |-> sig] \in Printed
        BY <3>2, <4>2
      <4> HIDE DEF Printed
      <4> QED
        BY <2>7, <3>2, <4>1, <4>2, UseKeySigns
    <3> QED
      BY <3>1, <3>3 DEF TypeOK
  <2>8. CASE UseSignature
    BY <2>8 DEF UseSignature, TypeOK
  <2>9. CASE UNCHANGED vars
    BY <2>9 DEF vars, TypeOK
  <2> QED
    BY <2>1, <2>2, <2>3, <2>4, <2>5, <2>6, <2>7, <2>8, <2>9 DEF Next
<1> QED
  BY <1>1, <1>2, PTL DEF Spec
-----------------------------------------------------------------------------
(***************************************************************************)
(* newaddress.  The keys of a batch are in the wallet, a finite number of  *)
(* them, whose pair has been drawn is never drawn again, and a newaddress  *)
(* that died is not in its loop.                                           *)
(***************************************************************************)
Drawn ==
  /\ KeysAddUp
  /\ i \in Nat \cup {-1} /\ IsFiniteSet(batch) /\ (died => i = -1)
  /\ batch \subseteq wallet
  /\ \A text \in wallet : text.key.pair \in drawn

\* At first nothing has been drawn.
LEMMA InitDrawn == Init => Drawn
<1>1. IsFiniteSet({}) /\ Cardinality({}) = 0
  BY FS_EmptySet
<1> QED
  BY <1>1 DEF Init, Drawn, KeysAddUp

\* No step prints a key twice, miscounts or changes what has been printed.
LEMMA NextDrawn ==
  ASSUME TypeOK, Drawn, [Next]_vars
  PROVE  Drawn'
<1> USE DEF making
<1>0. /\ request.num \in Int /\ failures \in Nat /\ i \in Nat \cup {-1}
      /\ IsFiniteSet(batch) /\ Cardinality(batch) \in Nat
  BY FS_CardinalityType DEF TypeOK, Drawn
<1>1. CASE Restart
  BY <1>1 DEF Restart, Drawn, KeysAddUp, GetKeysFromSecret
<1>2. CASE NewAddress
  <2>1. /\ i' = 0 /\ batch' = {} /\ failures' = 0 /\ died' = FALSE
        /\ wallet' = wallet /\ drawn' = drawn
    BY <1>2 DEF NewAddress
  <2>2. IsFiniteSet(batch') /\ Cardinality(batch') = 0
    BY <2>1, FS_EmptySet
  <2> QED
    BY <2>1, <2>2 DEF Drawn, KeysAddUp
<1>3. CASE MakeNewKey
  <2>1. PICK pair \in Pair \ drawn :
          /\ drawn' = drawn \cup {pair}
          /\ batch' = batch \cup {NewKey(pair)} /\ wallet' = wallet \cup {NewKey(pair)}
    BY <1>3 DEF MakeNewKey
  <2> DEFINE new == NewKey(pair)
  <2>2. /\ new.key.pair = pair /\ new.net = net
        /\ new.key.compressed = request.compressed
    BY NewKeyText
  <2>3. i >= 0 /\ i' = i + 1 /\ ~died /\ UNCHANGED <<net, request, failures, died>>
    BY <1>3 DEF MakeNewKey, Drawn
  <2> HIDE DEF new
  <2>4. new \notin wallet
    BY <2>1, <2>2 DEF Drawn
  <2>5. IsFiniteSet(batch') /\ Cardinality(batch') = Cardinality(batch) + 1
    BY <1>0, <2>1, <2>4, FS_AddElement DEF Drawn, new
  <2>6. Cardinality(batch') + failures' = i'
    BY <1>0, <2>3, <2>5 DEF Drawn, KeysAddUp
  <2>7. \A text \in batch' : text.key.compressed = request'.compressed
    BY <2>1, <2>2, <2>3 DEF Drawn, KeysAddUp, new
  <2>8. \A text \in batch' : text.net = net'
    BY <2>1, <2>2, <2>3 DEF Drawn, KeysAddUp, GetKeysFromSecret, new
  <2>9. \A t, u \in wallet' : t # u => t.key.pair # u.key.pair
    BY <2>1, <2>2 DEF Drawn, KeysAddUp, new
  <2>10. batch' \subseteq wallet' /\ \A text \in wallet' : text.key.pair \in drawn'
    BY <2>1, <2>2 DEF Drawn, new
  <2>11. i' \in Nat /\ i' >= 0
    BY <1>0, <2>3
  <2> QED
    BY <2>3, <2>5, <2>6, <2>7, <2>8, <2>9, <2>10, <2>11 DEF Drawn, KeysAddUp, GetKeysFromSecret
<1>4. CASE MakeNewKeyFails
  <2>1. /\ i >= 0 /\ i' = i + 1 /\ failures' = failures + 1 /\ ~died
        /\ UNCHANGED <<net, request, batch, died, wallet>>
    BY <1>4 DEF MakeNewKeyFails, AfterFailure, Drawn
  <2>2. drawn \subseteq drawn'
    BY <1>4 DEF MakeNewKeyFails
  <2> QED
    BY <1>0, <2>1, <2>2 DEF Drawn, KeysAddUp, GetKeysFromSecret
<1>5. CASE MakeNewKeyDies
  <2>1. /\ i >= 0 /\ i < request.num /\ i' = -1 /\ failures' = failures + 1 /\ died' = TRUE
        /\ ~died /\ UNCHANGED <<request, batch, wallet>>
    BY <1>5 DEF MakeNewKeyDies, More, Drawn
  <2>2. drawn \subseteq drawn' /\ ~request.compressed
    <3>1. ~(MessageSize(TRUE) > BufferSize)
      BY DEF MessageSize, BufferSize
    <3>2. request.compressed \in BOOLEAN
      BY DEF TypeOK
    <3> QED
      BY <1>5, <3>1, <3>2 DEF MakeNewKeyDies, Overruns
  <2>3. Cardinality(batch') + failures' <= request'.num /\ failures' > 0
    <3>1. Cardinality(batch) + failures = i
      BY <2>1 DEF Drawn, KeysAddUp
    <3> QED
      BY <1>0, <2>1, <3>1
  <2> QED
    BY <2>1, <2>2, <2>3 DEF Drawn, KeysAddUp
<1>6. CASE NewAddressReturns
  <2>1. /\ i >= 0 /\ ~(i < request.num) /\ i' = -1 /\ ~died
        /\ UNCHANGED <<request, drawn, batch, failures, died, wallet>>
    BY <1>6 DEF NewAddressReturns, More, Drawn
  <2>2. i = IF request.num > 0 THEN request.num ELSE 0
    BY <1>0, <2>1 DEF TypeOK
  <2> QED
    BY <1>0, <2>1, <2>2 DEF Drawn, KeysAddUp
<1>7. CASE UseKey \/ UseSignature \/ UNCHANGED vars
  BY <1>7 DEF UseKey, UseSignature, vars, Drawn, KeysAddUp, GetKeysFromSecret
<1> QED
  BY <1>1, <1>2, <1>3, <1>4, <1>5, <1>6, <1>7 DEF Next

\* Any newaddress prints what it was asked for, less what did not verify, unless
\* it dies of an uncompressed key, and no key of any session is printed twice.
THEOREM KeysAlwaysAddUp == Spec => []KeysAddUp
<1>1. TypeOK /\ Drawn /\ [Next]_vars => Drawn'
  BY NextDrawn
<1>2. Drawn => KeysAddUp
  BY DEF Drawn
<1> QED
  BY TypeCorrect, InitDrawn, <1>1, <1>2, PTL DEF Spec
-----------------------------------------------------------------------------
(***************************************************************************)
(* Signatures.  What was printed is what the command makes of the key and  *)
(* the message, and the key can sign.                                      *)
(***************************************************************************)
Signed ==
  \A made \in signatures :
    /\ made.text.key \in Signs
    /\ made.sig = IF made.cmd = "signmsg" THEN MsgSign(made.text.key, made.msg)
                  ELSE CompactSign(made.text.key, made.msg)

\* What a printed signature says.
LEMMA SignatureSays ==
  ASSUME TypeOK, Signed, NEW made \in signatures
  PROVE  /\ made.cmd \in {"signmsg", "compactsign"}
         /\ made.cmd = "signmsg" => /\ made.sig.form = "der"
                                    /\ made.sig.pair = made.text.key.pair
                                    /\ made.sig.msg = made.msg
         /\ made.cmd = "compactsign" => /\ made.sig.form = "compact"
                                        /\ made.sig.key = made.text.key
                                        /\ made.sig.msg = made.msg
<1>1. /\ made.cmd \in {"signmsg", "compactsign"} /\ made.text \in Text
      /\ made.text.key \in Signs
  BY DEF TypeOK, Signed
<1>2. made.text.key \in PrivKey
  BY <1>1 DEF Text
<1>3. GetPubKey(made.text.key) = made.text.key
  BY <1>2 DEF GetPubKey, PrivKey
<1>4. CASE made.cmd = "signmsg"
  <2>1. made.sig = MsgSign(made.text.key, made.msg)
    BY <1>4 DEF Signed
  <2>2. made.sig = [form |-> "der", pair |-> made.text.key.pair, msg |-> made.msg]
    BY <1>1, <2>1 DEF MsgSign
  <2> QED
    BY <1>1, <1>4, <2>2
<1>5. CASE made.cmd = "compactsign"
  <2>1. made.sig = CompactSign(made.text.key, made.msg)
    BY <1>5 DEF Signed
  <2>2. made.sig = [form |-> "compact", key |-> made.text.key, msg |-> made.msg]
    BY <1>1, <1>3, <2>1 DEF CompactSign
  <2> QED
    BY <1>1, <1>5, <2>2
<1> QED
  BY <1>1, <1>4, <1>5

\* A step that prints a signature prints one of these.
LEMMA NextSigned ==
  ASSUME TypeOK, Signed, [Next]_vars
  PROVE  Signed'
<1> USE DEF making
<1>1. CASE UseKey
  <2>1. CASE signatures' = signatures
    BY <2>1 DEF Signed
  <2>2. CASE signatures' # signatures
    <3>1. PICK cmd \in {"signmsg", "compactsign"}, text \in Text, msg \in Message :
            /\ text.key \in Signs
            /\ signatures' = signatures \cup
                 {[cmd |-> cmd, on |-> net, text |-> text, msg |-> msg,
                   sig |-> IF cmd = "signmsg" THEN MsgSign(text.key, msg)
                           ELSE CompactSign(text.key, msg)]}
      BY <1>1, <2>2, UseKeySigns
    <3> QED
      BY <3>1 DEF Signed
  <2> QED
    BY <2>1, <2>2
<1>2. CASE ~UseKey
  <2>1. signatures' = signatures
    BY <1>2 DEF Next, Restart, NewAddress, MakeNewKey, MakeNewKeyFails,
                MakeNewKeyDies, NewAddressReturns, UseSignature, vars
  <2> QED
    BY <2>1 DEF Signed
<1> QED
  BY <1>1, <1>2

\* A verdict is exact when it is given, and nothing it is about changes after it.
LEMMA NextVerdict ==
  ASSUME TypeOK, Signed, VerdictExact, [Next]_vars
  PROVE  VerdictExact'
<1> USE DEF making
<1>1. CASE UseSignature
  <2>1. PICK made \in signatures, pubkey \in PubKey, msg \in Message :
          \/ Verdict("verifymsg", pubkey, msg, made.sig, MsgVerify(pubkey, msg, made.sig))
          \/ Verdict("compactverify", pubkey, msg, made.sig,
                     CompactVerify(pubkey, msg, made.sig))
    BY <1>1 DEF UseSignature
  <2>2. signatures' = signatures
    BY <1>1 DEF UseSignature
  <2>3. MsgVerify(pubkey, msg, made.sig) <=>
          \E m \in signatures : /\ m.cmd = "signmsg" /\ m.sig = made.sig
                                /\ m.msg = msg /\ m.text.key.pair = pubkey.pair
    BY SignatureSays DEF MsgVerify
  <2>4. CompactVerify(pubkey, msg, made.sig) <=>
          \E m \in signatures : /\ m.cmd = "compactsign" /\ m.sig = made.sig
                                /\ m.msg = msg /\ m.text.key = pubkey
    BY SignatureSays DEF CompactVerify
  <2>5. CASE Verdict("verifymsg", pubkey, msg, made.sig, MsgVerify(pubkey, msg, made.sig))
    <3>1. /\ answer'.cmd = "verifymsg" /\ answer'.pubkey = pubkey /\ answer'.msg = msg
          /\ answer'.sig = made.sig /\ answer'.ok = MsgVerify(pubkey, msg, made.sig)
      BY <2>5 DEF Verdict
    <3> QED
      BY <2>2, <2>3, <3>1 DEF VerdictExact
  <2>6. CASE Verdict("compactverify", pubkey, msg, made.sig,
                     CompactVerify(pubkey, msg, made.sig))
    <3>1. /\ answer'.cmd = "compactverify" /\ answer'.pubkey = pubkey /\ answer'.msg = msg
          /\ answer'.sig = made.sig /\ answer'.ok = CompactVerify(pubkey, msg, made.sig)
      BY <2>6 DEF Verdict
    <3> QED
      BY <2>2, <2>4, <3>1 DEF VerdictExact
  <2> QED
    BY <2>1, <2>5, <2>6
<1>2. CASE UseKey \/ Restart \/ NewAddress
  <2>1. answer'.cmd \in {"none", "privkey"}
    BY <1>2 DEF UseKey, Restart, NewAddress, NoAnswer, PrivKeyCommand
  <2> QED
    BY <2>1 DEF VerdictExact
<1>3. CASE \/ MakeNewKey \/ MakeNewKeyFails \/ MakeNewKeyDies \/ NewAddressReturns
           \/ UNCHANGED vars
  <2>1. answer' = answer /\ signatures' = signatures
    BY <1>3 DEF MakeNewKey, MakeNewKeyFails, MakeNewKeyDies, NewAddressReturns, vars
  <2> QED
    BY <2>1 DEF VerdictExact
<1> QED
  BY <1>1, <1>2, <1>3 DEF Next

\* For any keys, messages and networks a check succeeds exactly for what was signed.
THEOREM VerdictsExact == Spec => []VerdictExact
<1>1. Init => Signed /\ VerdictExact
  BY DEF Init, Signed, VerdictExact, NoAnswer
<1>2. TypeOK /\ Signed /\ VerdictExact /\ [Next]_vars => Signed' /\ VerdictExact'
  BY NextSigned, NextVerdict
<1> QED
  BY TypeCorrect, <1>1, <1>2, PTL DEF Spec
=============================================================================
