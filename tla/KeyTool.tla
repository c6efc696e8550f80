------------------------------ MODULE KeyTool ------------------------------
(***************************************************************************)
(* The key commands (common/keytool.cpp): newaddress, privkey, signmsg,    *)
(* verifymsg, compactsign and compactverify.  Each is a process of its own *)
(* that keeps nothing; what goes from one to the next is what the user     *)
(* copies from the terminal, on whichever network the next one runs.       *)
(***************************************************************************)
EXTENDS Signing, Integers, FiniteSets

CONSTANTS
  Network,
  Count,          \* what atoi may make of the number argument of newaddress
  MaxSignatures   \* bound on the signatures the user makes

ASSUME KeyToolAssumption ==
  Count \subseteq Int /\ MaxSignatures \in Nat /\ IsFiniteSet(Pair)

\* A private key as CBitcoinSecret writes it: the prefix is the network's.
Text == [net : Network, key : PrivKey]

VARIABLES
  net,          \* the network the process runs on
  request,      \* arguments of newaddress: written form and number
  i,            \* the loop of newaddress; -1 outside of it
  drawn,        \* the key pairs MakeNewKey has drawn
  batch,        \* the private keys this newaddress has printed
  failures,     \* how many keys of it did not verify
  died,         \* it was cut short: the process died in showerror
  wallet,       \* the private keys printed so far
  signatures,   \* the signatures printed so far, with key, message and command
  answer        \* what the last other command said

vars == <<net, request, i, drawn, batch, failures, died, wallet, signatures, answer>>
making == <<request, i, drawn, batch, failures, died, wallet>>

NoAnswer == [cmd |-> "none"]

Init ==
  /\ net \in Network /\ request = [compressed |-> TRUE, num |-> 0] /\ i = -1
  /\ drawn = {} /\ batch = {} /\ failures = 0 /\ died = FALSE
  /\ wallet = {} /\ signatures = {} /\ answer = NoAnswer

\* The user starts the tool again, with another tool.conf perhaps.
Restart ==
  /\ i = -1
  /\ net' \in Network /\ answer' = NoAnswer
  /\ UNCHANGED <<making, signatures>>

\* newaddress is called; the instance has key pairs for it.
NewAddress ==
  /\ i = -1
  /\ \E c \in BOOLEAN, num \in Count :
       /\ num <= Cardinality(Pair \ drawn)
       /\ request' = [compressed |-> c, num |-> num]
  /\ i' = 0 /\ batch' = {} /\ failures' = 0 /\ died' = FALSE /\ answer' = NoAnswer
  /\ UNCHANGED <<net, drawn, wallet, signatures>>

More == i < request.num

NewKey(pair) == [net |-> net, key |-> [pair |-> pair, compressed |-> request.compressed]]

\* Faulty: a key that does not verify is made again.
AfterFailure_Retry == i

AfterFailure == i + 1

\* A round of newaddress: a key nobody has had before is printed, ...
MakeNewKey ==
  /\ i >= 0 /\ More
  /\ \E pair \in Pair \ drawn :
       /\ drawn' = drawn \cup {pair}
       /\ batch' = batch \cup {NewKey(pair)} /\ wallet' = wallet \cup {NewKey(pair)}
  /\ i' = i + 1
  /\ UNCHANGED <<net, request, failures, died, signatures, answer>>

\* The array that showerror prints into, and the text MakeNewKey gives it: 20
\* characters, two for each byte of the public key and the closing zero.
BufferSize == 100
MessageSize(compressed) == 20 + 2 * (IF compressed THEN 33 ELSE 65) + 1

\* The text is longer than the array.
Overruns == MessageSize(request.compressed) > BufferSize

\* ... or does not verify.  The loop does not look at that and carries on, the
\* only outcome if the text fits; if not it overwrites what lies behind the
\* array, which may be nothing the process still needs ...
MakeNewKeyFails ==
  /\ i >= 0 /\ More
  /\ \E pair \in Pair \ drawn : drawn' = drawn \cup {pair}
  /\ failures' = failures + 1 /\ i' = AfterFailure
  /\ UNCHANGED <<net, request, batch, died, wallet, signatures, answer>>

\* ... or kill it there and then.
MakeNewKeyDies ==
  /\ i >= 0 /\ More /\ Overruns
  /\ \E pair \in Pair \ drawn : drawn' = drawn \cup {pair}
  /\ failures' = failures + 1 /\ died' = TRUE /\ i' = -1
  /\ UNCHANGED <<net, request, batch, wallet, signatures, answer>>

NewAddressReturns ==
  /\ i >= 0 /\ ~More
  /\ i' = -1
  /\ UNCHANGED <<net, request, drawn, batch, failures, died, wallet, signatures, answer>>

\* A private key of the other network is none.
GetKeysFromSecret(text) == text.net = net

PrivKeyCommand(text) ==
  answer' = [cmd |-> "privkey", on |-> net, text |-> text,
             shown |-> IF GetKeysFromSecret(text) THEN {GetPubKey(text.key)} ELSE {}]

\* A command that signs prints the signature if the text is a key and it signs.
PrintSignature(cmd, text, msg, sig) ==
  signatures' = IF GetKeysFromSecret(text) /\ sig # NoSignature
                THEN signatures \cup {[cmd |-> cmd, on |-> net, text |-> text,
                                       msg |-> msg, sig |-> sig]}
                ELSE signatures

\* privkey, signmsg and compactsign on a key that was printed.
UseKey ==
  /\ i = -1
  /\ \E text \in wallet :
       \/ PrivKeyCommand(text) /\ UNCHANGED signatures
       \/ /\ Cardinality(signatures) < MaxSignatures
          /\ \E msg \in Message :
               \/ PrintSignature("signmsg", text, msg, MsgSign(text.key, msg))
               \/ PrintSignature("compactsign", text, msg, CompactSign(text.key, msg))
          /\ answer' = NoAnswer
  /\ UNCHANGED <<net, making>>

Verdict(cmd, pubkey, msg, sig, ok) ==
  answer' = [cmd |-> cmd, pubkey |-> pubkey, msg |-> msg, sig |-> sig, ok |-> ok]

\* verifymsg and compactverify on a signature that was printed, with any
\* public key and message.
UseSignature ==
  /\ i = -1
  /\ \E made \in signatures, pubkey \in PubKey, msg \in Message :
       \/ Verdict("verifymsg", pubkey, msg, made.sig, MsgVerify(pubkey, msg, made.sig))
       \/ Verdict("compactverify", pubkey, msg, made.sig,
                  CompactVerify(pubkey, msg, made.sig))
  /\ UNCHANGED <<net, making, signatures>>

Next ==
  \/ Restart \/ NewAddress \/ MakeNewKey \/ MakeNewKeyFails \/ MakeNewKeyDies
  \/ NewAddressReturns \/ UseKey \/ UseSignature

Spec == Init /\ [][Next]_vars
-----------------------------------------------------------------------------
\* The types of the variables.
TypeOK ==
  /\ net \in Network /\ request \in [compressed : BOOLEAN, num : Int]
  /\ i \in Int /\ (i <= 0 \/ i <= request.num)
  /\ drawn \in SUBSET Pair /\ batch \in SUBSET Text /\ failures \in Nat /\ died \in BOOLEAN
  /\ wallet \in SUBSET Text
  /\ signatures \in SUBSET [cmd : {"signmsg", "compactsign"}, on : Network, text : Text,
                            msg : Message, sig : Signature]

\* newaddress prints as many keys as it was asked for, less those that did
\* not verify, in the form it was asked for, each usable on the network it
\* ran on, and none that was printed before.  Only where it was asked for
\* uncompressed keys may one that does not verify keep the others from being
\* made: then fewer are printed, the one it died of not among them.
KeysAddUp ==
  /\ ~died => Cardinality(batch) + failures =
                IF i >= 0 THEN i ELSE IF request.num > 0 THEN request.num ELSE 0
  /\ died => /\ ~request.compressed /\ failures > 0
             /\ Cardinality(batch) + failures <= request.num
  /\ \A text \in batch : text.key.compressed = request.compressed
  /\ i >= 0 => \A text \in batch : GetKeysFromSecret(text)
  /\ \A t, u \in wallet : t # u => t.key.pair # u.key.pair

\* A check succeeds exactly for the message and the key a signature of that
\* kind was printed for: verifymsg takes either written form of the public
\* key, compactverify only the one of the private key that signed, and
\* neither takes a signature of the other kind.  The networks do not matter.
VerdictExact ==
  /\ answer.cmd = "verifymsg" =>
       (answer.ok <=> \E made \in signatures :
          /\ made.cmd = "signmsg" /\ made.sig = answer.sig
          /\ made.msg = answer.msg /\ made.text.key.pair = answer.pubkey.pair)
  /\ answer.cmd = "compactverify" =>
       (answer.ok <=> \E made \in signatures :
          /\ made.cmd = "compactsign" /\ made.sig = answer.sig
          /\ made.msg = answer.msg /\ made.text.key = answer.pubkey)
=============================================================================
