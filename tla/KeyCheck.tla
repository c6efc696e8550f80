------------------------------ MODULE KeyCheck ------------------------------
(***************************************************************************)
(* CheckKey (common/keytool.cpp): of the private and public keys the       *)
(* settings list it prints which belong together.  Every private key is    *)
(* tried on the public keys no earlier one has claimed; a public key that  *)
(* is claimed is erased from the vector the loop is walking along.         *)
(***************************************************************************)
EXTENDS Signing, Integers, Sequences, SequencesExt

CONSTANTS
  MaxLines,  \* bound on the lines of each setting
  Decodes    \* the values of -privkey GetKeysFromSecret makes a key of

ASSUME KeyCheckAssumption == MaxLines \in Nat /\ Decodes \subseteq PrivKey

VARIABLES
  privs,    \* the values of -privkey
  pubs,     \* the values of -pubkey
  msgs,     \* the values of -message
  pc,       \* where CheckKey is
  next,     \* the line of -privkey to read
  vSecret,  \* the private keys
  vPublic,  \* the public keys nobody has claimed, by the number of their line
  at,       \* the private key that is tried ...
  iter,     \* ... on this position of vPublic
  bIsPair,  \* whether it has claimed any
  listed,   \* stdout: the public keys claimed, with the claimant
  own,      \* stdout: the private keys whose own public key was printed
  rest      \* stdout: the public keys listed at the end

given == <<privs, pubs, msgs>>
printed == <<listed, own, rest>>
vars == <<given, pc, next, vSecret, vPublic, at, iter, bIsPair, printed>>

Init ==
  /\ privs \in BoundedSeq(PrivKey, MaxLines)
  /\ pubs \in BoundedSeq(PubKey, MaxLines) /\ msgs \in BoundedSeq(Message, 1)
  /\ pc = "read" /\ next = 1 /\ vSecret = <<>> /\ vPublic = <<>>
  /\ at = 1 /\ iter = 1 /\ bIsPair = FALSE
  /\ listed = <<>> /\ own = {} /\ rest = <<>>

\* GetKeysFromSecret on the next value of -privkey; a bad one is passed over.
ReadPrivKey ==
  /\ pc = "read" /\ next <= Len(privs)
  /\ vSecret' = IF privs[next] \in Decodes THEN Append(vSecret, privs[next]) ELSE vSecret
  /\ next' = next + 1
  /\ UNCHANGED <<given, pc, vPublic, at, iter, bIsPair, printed>>

\* "File without ...": one of the three settings is missing.
Missing ==
  /\ pc = "read" /\ next > Len(privs)
  /\ privs = <<>> \/ pubs = <<>> \/ msgs = <<>>
  /\ pc' = "failed"
  /\ UNCHANGED <<given, next, vSecret, vPublic, at, iter, bIsPair, printed>>

\* Every value of -pubkey makes a public key.
ReadPubKeys ==
  /\ pc = "read" /\ next > Len(privs)
  /\ privs # <<>> /\ pubs # <<>> /\ msgs # <<>>
  /\ vPublic' = [l \in DOMAIN pubs |-> l]
  /\ pc' = "match"
  /\ UNCHANGED <<given, next, vSecret, at, iter, bIsPair, printed>>

\* Faulty: the last public key is erased in its place.
Erase_Last(seq, i) == Front(seq)

\* erase takes the element at a position out of the vector ...
Erase(seq, i) == RemoveAt(seq, i)

\* Faulty: after an erase the position advances as well.
AfterErase_Next(i) == i + 1

\* ... and returns the position of the one behind it.
AfterErase(i) == i

Trying == pc = "match" /\ at <= Len(vSecret)
Belongs == IsPairOfKey(vSecret[at], pubs[vPublic[iter]], msgs[1])

\* The public key belongs to the private key: it is printed and erased.
Claim ==
  /\ Trying /\ iter <= Len(vPublic) /\ Belongs
  /\ listed' = Append(listed, [line |-> vPublic[iter], under |-> at])
  /\ vPublic' = Erase(vPublic, iter) /\ iter' = AfterErase(iter)
  /\ bIsPair' = TRUE
  /\ UNCHANGED <<given, pc, next, vSecret, at, own, rest>>

\* Faulty: the position stays.
Onward_Not(i) == i

Onward(i) == i + 1

Pass ==
  /\ Trying /\ iter <= Len(vPublic) /\ ~Belongs
  /\ iter' = Onward(iter)
  /\ UNCHANGED <<given, pc, next, vSecret, vPublic, at, bIsPair, printed>>

\* Faulty: bIsPair is kept for the next private key.
Fresh_Kept == bIsPair

\* bIsPair of the next private key.
Fresh == FALSE

\* All public keys tried: one that claimed none has its own printed.
NextSecret ==
  /\ Trying /\ iter > Len(vPublic)
  /\ own' = IF bIsPair THEN own ELSE own \cup {at}
  /\ at' = at + 1 /\ iter' = 1 /\ bIsPair' = Fresh
  /\ UNCHANGED <<given, pc, next, vSecret, vPublic, listed, rest>>

\* The public keys nobody claimed.
ListRest ==
  /\ pc = "match" /\ at > Len(vSecret)
  /\ rest' = vPublic /\ pc' = "done"
  /\ UNCHANGED <<given, next, vSecret, vPublic, at, iter, bIsPair, listed, own>>

\* CheckKey has returned.
Ended == pc \in {"failed", "done"} /\ UNCHANGED vars

Next ==
  \/ ReadPrivKey \/ Missing \/ ReadPubKeys \/ Claim \/ Pass \/ NextSecret
  \/ ListRest \/ Ended

\* CheckKey runs on its own in one thread.
Spec == Init /\ [][Next]_vars /\ WF_vars(Next)
-----------------------------------------------------------------------------
\* The types of the variables.
TypeOK ==
  /\ privs \in Seq(PrivKey) /\ pubs \in Seq(PubKey) /\ msgs \in Seq(Message)
  /\ pc \in {"read", "match", "failed", "done"} /\ next \in Nat \ {0}
  /\ vSecret \in Seq(PrivKey) /\ vPublic \in Seq(DOMAIN pubs)
  /\ at \in Nat \ {0} /\ iter \in 1..Len(vPublic) + 1 /\ bIsPair \in BOOLEAN
  /\ listed \in Seq([line : DOMAIN pubs, under : DOMAIN vSecret])
  /\ own \in SUBSET Nat /\ rest \in Seq(DOMAIN pubs)

\* The line of a public key under the private keys, and the lines at the end.
ClaimedLines == {listed[i].line : i \in DOMAIN listed}

\* No public key is printed twice or lost while the vector is erased from
\* under the loop: each is either printed or still waiting, and in the end
\* each has been printed once.
NoneLost ==
  /\ \A i, j \in DOMAIN listed : i # j => listed[i].line # listed[j].line
  /\ \A i, j \in DOMAIN vPublic : i # j => vPublic[i] # vPublic[j]
  /\ pc \in {"match", "done"} =>
       /\ ClaimedLines \cap Range(vPublic) = {}
       /\ ClaimedLines \cup Range(vPublic) = DOMAIN pubs
  /\ pc = "done" => rest = vPublic

\* The first private key that has the public key claims it, and no other: a
\* key that is listed compressed is not claimed by the same key uncompressed
\* although its signatures check.  A public key is left to the end only if no
\* private key that can sign has it.
ClaimedRight ==
  /\ \A i \in DOMAIN listed :
       /\ pubs[listed[i].line] = GetPubKey(vSecret[listed[i].under])
       /\ \A s \in 1..listed[i].under - 1 :
            vSecret[s] \in Signs => pubs[listed[i].line] # GetPubKey(vSecret[s])
  /\ pc = "done" =>
       \A i \in DOMAIN rest, s \in DOMAIN vSecret :
         vSecret[s] \in Signs => pubs[rest[i]] # GetPubKey(vSecret[s])

\* A private key's own public key is printed exactly when none was claimed by
\* it, so for the second of two equal private keys too.
OwnShown ==
  \A s \in DOMAIN vSecret :
    s < at => (s \in own <=> \A i \in DOMAIN listed : listed[i].under # s)

\* CheckKey returns, although the loop advances only when nothing is erased.
Termination == <>(pc \in {"failed", "done"})
=============================================================================
