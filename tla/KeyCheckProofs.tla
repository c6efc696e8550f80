--------------------------- MODULE KeyCheckProofs ---------------------------
(***************************************************************************)
(* What CheckKey prints, proved for any number of lines, any keys and any  *)
(* of them that cannot sign.                                               *)
(***************************************************************************)
EXTENDS KeyCheck, SequenceTheorems, TLAPS

\* Signing both ways and checking both tells whether the public key is, in
\* the very form it is written in, the one of the private key.
LEMMA PairsBelong ==
  ASSUME NEW k \in PrivKey, NEW p \in PubKey, NEW m
  PROVE  IsPairOfKey(k, p, m) <=> k \in Signs /\ p = GetPubKey(k)
<1> DEFINE sig == MsgSign(k, m)
           compact == CompactSign(k, m)
<1>1. CASE k \notin Signs
  BY <1>1 DEF IsPairOfKey, MsgSign, NoSignature
<1>2. CASE k \in Signs
  <2>1. sig = [form |-> "der", pair |-> k.pair, msg |-> m]
    BY <1>2 DEF MsgSign
  <2>2. compact = [form |-> "compact", key |-> GetPubKey(k), msg |-> m]
    BY <1>2 DEF CompactSign
  <2>3. sig # NoSignature /\ compact # NoSignature
    <3>1. sig.form # NoSignature.form /\ compact.form # NoSignature.form
      BY <2>1, <2>2 DEF NoSignature
    <3> QED
      BY <3>1
  <2>4. MsgVerify(p, m, sig) <=> p.pair = k.pair
    BY <2>1 DEF MsgVerify
  <2>5. CompactVerify(p, m, compact) <=> p = GetPubKey(k)
    BY <2>2 DEF CompactVerify
  <2>6. p = GetPubKey(k) => p.pair = k.pair
    BY DEF GetPubKey
  <2> HIDE DEF sig, compact
  <2>7. IsPairOfKey(k, p, m) <=> /\ sig # NoSignature /\ MsgVerify(p, m, sig)
                                 /\ compact # NoSignature /\ CompactVerify(p, m, compact)
    BY DEF IsPairOfKey, sig, compact
  <2> QED
    BY <1>2, <2>3, <2>4, <2>5, <2>6, <2>7
<1> QED
  BY <1>1, <1>2

\* What is left of a sequence without its i-th element.
LEMMA RemoveAtProperties ==
  ASSUME NEW S, NEW s \in Seq(S), NEW i \in 1..Len(s)
  PROVE  /\ RemoveAt(s, i) \in Seq(S)
         /\ Len(RemoveAt(s, i)) = Len(s) - 1
         /\ \A j \in 1..Len(s) - 1 :
              RemoveAt(s, i)[j] = IF j < i THEN s[j] ELSE s[j + 1]
<1> DEFINE a == SubSeq(s, 1, i - 1)
           b == SubSeq(s, i + 1, Len(s))
<1>0. Len(s) \in Nat /\ \A j \in 1..Len(s) : s[j] \in S
  BY LenProperties, ElementOfSeq
<1>1. /\ a \in Seq(S) /\ Len(a) = i - 1
      /\ \A j \in 1..i - 1 : a[j] = s[j]
  <2>1. \A j \in 1..i - 1 : s[j] \in S
    BY <1>0
  <2>2. /\ a \in Seq(S)
        /\ Len(a) = IF 1 <= i - 1 THEN (i - 1) - 1 + 1 ELSE 0
        /\ \A j \in 1..(i - 1) - 1 + 1 : a[j] = s[1 + j - 1]
    BY <1>0, <2>1, SubSeqProperties
  <2> QED
    BY <1>0, <2>2
<1>2. /\ b \in Seq(S) /\ Len(b) = Len(s) - i
      /\ \A j \in 1..Len(s) - i : b[j] = s[i + j]
  <2>1. \A j \in i + 1..Len(s) : s[j] \in S
    BY <1>0
  <2>2. /\ b \in Seq(S)
        /\ Len(b) = IF i + 1 <= Len(s) THEN Len(s) - (i + 1) + 1 ELSE 0
        /\ \A j \in 1..Len(s) - (i + 1) + 1 : b[j] = s[(i + 1) + j - 1]
    BY <1>0, <2>1, SubSeqProperties
  <2> QED
    BY <1>0, <2>2
<1>3. RemoveAt(s, i) = a \o b
  BY DEF RemoveAt
<1> HIDE DEF a, b
<1>4. /\ a \o b \in Seq(S) /\ Len(a \o b) = Len(a) + Len(b)
      /\ \A j \in 1..Len(a) + Len(b) :
           (a \o b)[j] = IF j <= Len(a) THEN a[j] ELSE b[j - Len(a)]
  BY <1>1, <1>2, ConcatProperties
<1>5. ASSUME NEW j \in 1..Len(s) - 1
      PROVE  (a \o b)[j] = IF j < i THEN s[j] ELSE s[j + 1]
  <2>1. CASE j < i
    BY <1>0, <1>1, <1>2, <1>4, <2>1
  <2>2. CASE ~(j < i)
    <3>1. (a \o b)[j] = b[j - (i - 1)]
      BY <1>0, <1>1, <1>2, <1>4, <2>2
    <3>2. j - (i - 1) \in 1..Len(s) - i
      BY <1>0, <2>2
    <3>4. b[j - (i - 1)] = s[i + (j - (i - 1))]
      BY <1>2, <3>2
    <3>3. i + (j - (i - 1)) = j + 1
      BY <1>0
    <3> QED
      BY <2>2, <3>1, <3>3, <3>4
  <2> QED
    BY <2>1, <2>2
<1> QED
  BY <1>0, <1>1, <1>2, <1>3, <1>4, <1>5

\* ... holds what it held before, without that element, if it had no repetition.
LEMMA RemoveAtRange ==
  ASSUME NEW S, NEW s \in Seq(S), NEW i \in 1..Len(s),
         \A j, k \in 1..Len(s) : j # k => s[j] # s[k]
  PROVE  /\ \A j, k \in 1..Len(RemoveAt(s, i)) : j # k => RemoveAt(s, i)[j] # RemoveAt(s, i)[k]
         /\ Range(RemoveAt(s, i)) = Range(s) \ {s[i]}
<1> DEFINE r == RemoveAt(s, i)
<1>0. /\ Len(s) \in Nat /\ DOMAIN s = 1..Len(s)
      /\ r \in Seq(S) /\ Len(r) = Len(s) - 1 /\ DOMAIN r = 1..Len(s) - 1
      /\ \A j \in 1..Len(s) - 1 : r[j] = IF j < i THEN s[j] ELSE s[j + 1]
  BY LenProperties, RemoveAtProperties
<1> HIDE DEF r
<1>1. \A j, k \in 1..Len(r) : j # k => r[j] # r[k]
  <2> SUFFICES ASSUME NEW j \in 1..Len(r), NEW k \in 1..Len(r), j # k
               PROVE  r[j] # r[k]
    OBVIOUS
  <2> DEFINE p(x) == IF x < i THEN x ELSE x + 1
  <2>1. p(j) # p(k) /\ p(j) \in 1..Len(s) /\ p(k) \in 1..Len(s)
    BY <1>0
  <2>2. r[j] = s[p(j)] /\ r[k] = s[p(k)]
    BY <1>0
  <2> HIDE DEF p
  <2> QED
    BY <2>1, <2>2
<1>2. ASSUME NEW j \in 1..Len(s) - 1
      PROVE  r[j] \in Range(s) \ {s[i]}
  <2> DEFINE p == IF j < i THEN j ELSE j + 1
  <2>1. p # i /\ p \in 1..Len(s) /\ r[j] = s[p]
    BY <1>0
  <2> HIDE DEF p
  <2> QED
    BY <1>0, <2>1 DEF Range
<1>3. ASSUME NEW j \in 1..Len(s), j # i
      PROVE  s[j] \in Range(r)
  <2> DEFINE p == IF j < i THEN j ELSE j - 1
  <2>1. p \in 1..Len(s) - 1 /\ r[p] = s[j]
    BY <1>0, <1>3
  <2> HIDE DEF p
  <2> QED
    BY <1>0, <2>1 DEF Range
<1>4. Range(r) \subseteq Range(s) \ {s[i]}
  BY <1>0, <1>2 DEF Range
<1>5. Range(s) \ {s[i]} \subseteq Range(r)
  BY <1>0, <1>3 DEF Range
<1> QED
  BY <1>1, <1>4, <1>5 DEF r

-----------------------------------------------------------------------------
(***************************************************************************)
(* Type correctness.  Before the loop there is nothing but vSecret; in it  *)
(* there is a message.                                                     *)
(***************************************************************************)
Idle ==
  /\ vPublic = <<>> /\ listed = <<>> /\ own = {} /\ rest = <<>>
  /\ at = 1 /\ iter = 1 /\ bIsPair = FALSE

Phases ==
  /\ pc \in {"read", "failed"} => Idle
  /\ pc \in {"match", "done"} => msgs # <<>>

\* Before anything is read the types hold.
LEMMA InitTypes == Init => TypeOK /\ Phases
<1> SUFFICES ASSUME Init PROVE TypeOK /\ Phases
  OBVIOUS
<1>1. \A S : <<>> \in Seq(S)
  BY EmptySeq
<1>2. ASSUME NEW S, NEW n, NEW s \in BoundedSeq(S, n), n \in Nat
      PROVE  s \in Seq(S)
  <2>1. PICK m \in 0..n : s \in [1..m -> S]
    BY DEF BoundedSeq, SeqOf
  <2>2. m \in Nat
    BY <1>2
  <2> QED
    BY <2>1, <2>2, SeqDef
<1>3. /\ privs \in Seq(PrivKey) /\ pubs \in Seq(PubKey) /\ msgs \in Seq(Message)
  BY <1>2, KeyCheckAssumption DEF Init
<1>4. Len(vPublic) = 0 /\ iter \in 1..Len(vPublic) + 1
  BY EmptySeq DEF Init
<1>5. bIsPair \in BOOLEAN
  BY Zenon DEF Init
<1>6. Phases
  BY DEF Init, Phases, Idle
<1> QED
  BY <1>1, <1>3, <1>4, <1>5, <1>6 DEF Init, TypeOK

\* The element the loop looks at, and what it asks of it.
LEMMA Looking ==
  ASSUME TypeOK, Phases, Trying, iter <= Len(vPublic)
  PROVE  /\ Len(vPublic) \in Nat /\ iter \in 1..Len(vPublic)
         /\ at \in DOMAIN vSecret /\ vSecret[at] \in PrivKey
         /\ vPublic[iter] \in DOMAIN pubs
         /\ pubs[vPublic[iter]] \in PubKey
         /\ Belongs <=> /\ vSecret[at] \in Signs
                        /\ pubs[vPublic[iter]] = GetPubKey(vSecret[at])
<1>1. /\ Len(vPublic) \in Nat /\ iter \in 1..Len(vPublic)
      /\ at \in 1..Len(vSecret)
  BY LenProperties DEF TypeOK, Trying
<1>2. at \in DOMAIN vSecret /\ vSecret[at] \in PrivKey
  BY <1>1, LenProperties, ElementOfSeq DEF TypeOK
<1>3. vPublic[iter] \in DOMAIN pubs
  BY <1>1, ElementOfSeq DEF TypeOK
<1>4. pubs[vPublic[iter]] \in PubKey
  BY <1>3, LenProperties, ElementOfSeq DEF TypeOK
<1> QED
  BY <1>1, <1>2, <1>3, <1>4, PairsBelong DEF Belongs

\* Every step keeps them: an erase leaves the position in the vector or behind it.
LEMMA NextTypes ==
  ASSUME TypeOK, Phases, [Next]_vars
  PROVE  TypeOK' /\ Phases'
<1> USE DEF given, printed
<1>1. CASE ReadPrivKey
  <2>1. vSecret' \in Seq(PrivKey)
    <3>1. next \in 1..Len(privs)
      BY <1>1, LenProperties DEF TypeOK, ReadPrivKey
    <3>2. privs[next] \in PrivKey
      BY <3>1, ElementOfSeq DEF TypeOK
    <3> QED
      BY <1>1, <3>2, AppendProperties DEF TypeOK, ReadPrivKey
  <2>2. Phases' /\ listed' = <<>>
    BY <1>1 DEF ReadPrivKey, Phases, Idle
  <2>3. listed' \in Seq([line : DOMAIN pubs', under : DOMAIN vSecret'])
    BY <2>2, EmptySeq
  <2> QED
    BY <1>1, <2>1, <2>2, <2>3 DEF ReadPrivKey, TypeOK
<1>2. CASE Missing
  BY <1>2 DEF Missing, TypeOK, Phases, Idle
<1>3. CASE ReadPubKeys
  <2>1. DOMAIN pubs = 1..Len(pubs) /\ Len(pubs) \in Nat
    BY LenProperties DEF TypeOK
  <2>2. vPublic' = [l \in 1..Len(pubs) |-> l]
    BY <1>3, <2>1 DEF ReadPubKeys
  <2>3. vPublic' \in [1..Len(pubs) -> DOMAIN pubs]
    BY <2>1, <2>2
  <2>4. vPublic' \in Seq(DOMAIN pubs)
    BY <2>1, <2>3, SeqDef
  <2>5. Len(vPublic') \in Nat
    BY <2>4, LenProperties
  <2>6. iter' \in 1..Len(vPublic') + 1
    BY <1>3, <2>5 DEF ReadPubKeys, Phases, Idle
  <2> QED
    BY <1>3, <2>4, <2>6 DEF ReadPubKeys, TypeOK, Phases
<1>4. CASE Claim
  <2>0. Trying /\ iter <= Len(vPublic)
    BY <1>4 DEF Claim
  <2>1. /\ vPublic' \in Seq(DOMAIN pubs) /\ Len(vPublic') = Len(vPublic) - 1
    BY <1>4, <2>0, Looking, RemoveAtProperties DEF Claim, TypeOK, Erase
  <2>2. iter' \in 1..Len(vPublic') + 1
    BY <1>4, <2>0, <2>1, Looking DEF Claim, AfterErase
  <2>3. [line |-> vPublic[iter], under |-> at] \in [line : DOMAIN pubs, under : DOMAIN vSecret]
    BY <2>0, Looking
  <2>4. listed' \in Seq([line : DOMAIN pubs, under : DOMAIN vSecret])
    BY <1>4, <2>3, AppendProperties DEF Claim, TypeOK
  <2> QED
    BY <1>4, <2>0, <2>1, <2>2, <2>4 DEF Claim, TypeOK, Phases, Trying
<1>5. CASE Pass
  <2>1. iter' \in 1..Len(vPublic) + 1
    BY <1>5, Looking DEF Pass, Onward
  <2> QED
    BY <1>5, <2>1 DEF Pass, TypeOK, Phases, Trying
<1>6. CASE NextSecret
  <2>1. Len(vPublic) \in Nat /\ own' \in SUBSET Nat
    BY <1>6, LenProperties DEF NextSecret, TypeOK
  <2>2. bIsPair' \in BOOLEAN
    BY <1>6, Zenon DEF NextSecret, Fresh
  <2>3. at' \in Nat \ {0} /\ iter' \in 1..Len(vPublic') + 1
    BY <1>6, <2>1 DEF NextSecret, TypeOK
  <2> QED
    BY <1>6, <2>1, <2>2, <2>3 DEF NextSecret, TypeOK, Phases, Trying
<1>7. CASE ListRest
  BY <1>7 DEF ListRest, TypeOK, Phases
<1>8. CASE UNCHANGED vars
  BY <1>8 DEF vars, TypeOK, Phases, Idle
<1> QED
  BY <1>1, <1>2, <1>3, <1>4, <1>5, <1>6, <1>7, <1>8 DEF Next, Ended

\* The variables of CheckKey keep their types: in particular the position in
\* the vector stays in it, or right behind its end, whatever is erased.
THEOREM TypeCorrect == Spec => []TypeOK
<1>1. Spec => [](TypeOK /\ Phases)
  BY InitTypes, NextTypes, PTL DEF Spec
<1> QED
  BY <1>1, PTL

-----------------------------------------------------------------------------
(***************************************************************************)
(* The public keys.  Those that are claimed and those that wait make up    *)
(* the list that was given, nothing twice.                                 *)
(***************************************************************************)
Kept ==
  /\ NoneLost
  /\ pc = "done" => at > Len(vSecret)

\* Nothing is printed at first.
LEMMA InitKept == Init => Kept
<1> SUFFICES ASSUME Init PROVE Kept
  OBVIOUS
<1>1. DOMAIN listed = {} /\ DOMAIN vPublic = {}
  BY EmptySeq, LenProperties DEF Init
<1> QED
  BY <1>1 DEF Init, Kept, NoneLost

\* A claim moves one line from the one to the other.
LEMMA ClaimMoves ==
  ASSUME TypeOK, Phases, Kept, Claim
  PROVE  /\ DOMAIN listed = 1..Len(listed) /\ Len(listed) \in Nat
         /\ DOMAIN listed' = 1..Len(listed) + 1
         /\ \A i \in 1..Len(listed) : listed'[i] = listed[i]
         /\ listed'[Len(listed) + 1] = [line |-> vPublic[iter], under |-> at]
         /\ ClaimedLines' = ClaimedLines \cup {vPublic[iter]}
         /\ Range(vPublic') = Range(vPublic) \ {vPublic[iter]}
         /\ DOMAIN vPublic' = 1..Len(vPublic) - 1
         /\ \A j \in 1..Len(vPublic) - 1 :
              vPublic'[j] = IF j < iter THEN vPublic[j] ELSE vPublic[j + 1]
         /\ \A j, k \in DOMAIN vPublic' : j # k => vPublic'[j] # vPublic'[k]
<1> DEFINE new == [line |-> vPublic[iter], under |-> at]
           Item == [line : DOMAIN pubs, under : DOMAIN vSecret]
<1>1. /\ Trying /\ iter <= Len(vPublic) /\ listed' = Append(listed, new)
      /\ vPublic' = RemoveAt(vPublic, iter)
  BY DEF Claim, Erase
<1>2. iter \in 1..Len(vPublic) /\ new \in Item
  BY <1>1, Looking
<1>3. listed \in Seq(Item) /\ vPublic \in Seq(DOMAIN pubs)
  BY DEF TypeOK
<1>4. /\ DOMAIN listed = 1..Len(listed) /\ Len(listed) \in Nat
      /\ listed' \in Seq(Item) /\ Len(listed') = Len(listed) + 1
      /\ DOMAIN listed' = 1..Len(listed')
      /\ \A i \in 1..Len(listed) : listed'[i] = listed[i]
      /\ listed'[Len(listed) + 1] = new
  <2> HIDE DEF new, Item
  <2> QED
    BY <1>1, <1>2, <1>3, LenProperties, AppendProperties
<1>5. ClaimedLines' = ClaimedLines \cup {vPublic[iter]}
  <2>1. ClaimedLines' = {listed'[i].line : i \in 1..Len(listed) + 1}
    BY <1>4 DEF ClaimedLines
  <2>2. ClaimedLines = {listed[i].line : i \in 1..Len(listed)}
    BY <1>4 DEF ClaimedLines
  <2>3. new.line = vPublic[iter]
    OBVIOUS
  <2>4. 1..Len(listed) + 1 = 1..Len(listed) \cup {Len(listed) + 1}
    BY <1>4
  <2> HIDE DEF new
  <2> QED
    BY <1>4, <2>1, <2>2, <2>3, <2>4
<1>6. \A j, k \in 1..Len(vPublic) : j # k => vPublic[j] # vPublic[k]
  BY <1>3, LenProperties DEF Kept, NoneLost
<1>7. /\ Range(vPublic') = Range(vPublic) \ {vPublic[iter]}
      /\ \A j, k \in 1..Len(vPublic') : j # k => vPublic'[j] # vPublic'[k]
      /\ vPublic' \in Seq(DOMAIN pubs) /\ Len(vPublic') = Len(vPublic) - 1
      /\ \A j \in 1..Len(vPublic) - 1 :
           vPublic'[j] = IF j < iter THEN vPublic[j] ELSE vPublic[j + 1]
  <2>1. /\ Range(vPublic') = Range(vPublic) \ {vPublic[iter]}
        /\ \A j, k \in 1..Len(vPublic') : j # k => vPublic'[j] # vPublic'[k]
    BY <1>1, <1>2, <1>3, <1>6, RemoveAtRange
  <2>2. /\ vPublic' \in Seq(DOMAIN pubs) /\ Len(vPublic') = Len(vPublic) - 1
        /\ \A j \in 1..Len(vPublic) - 1 :
             vPublic'[j] = IF j < iter THEN vPublic[j] ELSE vPublic[j + 1]
    BY <1>1, <1>2, <1>3, RemoveAtProperties
  <2> QED
    BY <2>1, <2>2
<1>8. DOMAIN vPublic' = 1..Len(vPublic) - 1
  BY <1>7, LenProperties
<1> QED
  BY <1>4, <1>5, <1>7, <1>8

\* No step loses a public key or prints one again.
LEMMA NextKept ==
  ASSUME TypeOK, Phases, Kept, [Next]_vars
  PROVE  Kept'
<1> USE DEF given, printed
<1>1. CASE ReadPrivKey
  BY <1>1 DEF ReadPrivKey, Kept, NoneLost
<1>2. CASE Missing
  BY <1>2 DEF Missing, Kept, NoneLost
<1>3. CASE ReadPubKeys
  <2>1. vPublic' = [l \in DOMAIN pubs |-> l]
    BY <1>3 DEF ReadPubKeys
  <2>2. Range(vPublic') = DOMAIN pubs /\ \A i, j \in DOMAIN vPublic' : i # j => vPublic'[i] # vPublic'[j]
    BY <2>1 DEF Range
  <2>3. listed' = <<>> /\ DOMAIN listed' = {}
    BY <1>3, EmptySeq, LenProperties DEF ReadPubKeys, Phases, Idle
  <2>4. ClaimedLines' = {}
    BY <2>3 DEF ClaimedLines
  <2> QED
    BY <1>3, <2>2, <2>3, <2>4 DEF ReadPubKeys, Kept, NoneLost
<1>4. CASE Claim
  <2>0. pc = "match" /\ pc' = "match" /\ pubs' = pubs /\ vPublic[iter] \in DOMAIN pubs
        /\ iter \in 1..Len(vPublic) /\ DOMAIN vPublic = 1..Len(vPublic)
    BY <1>4, Looking, LenProperties DEF Claim, Trying, TypeOK
  <2>1. vPublic[iter] \in Range(vPublic)
    BY <2>0 DEF Range
  <2>2. \A i \in DOMAIN listed : listed[i].line # vPublic[iter]
    BY <2>0, <2>1 DEF Kept, NoneLost, ClaimedLines
  <2>3. \A i, j \in DOMAIN listed' : i # j => listed'[i].line # listed'[j].line
    <3> DEFINE n == Len(listed)
    <3>1. /\ n \in Nat /\ DOMAIN listed = 1..n /\ DOMAIN listed' = 1..n + 1
          /\ \A i \in 1..n : listed'[i] = listed[i]
          /\ listed'[n + 1].line = vPublic[iter]
      BY <1>4, ClaimMoves
    <3>2. \A i, j \in DOMAIN listed : i # j => listed[i].line # listed[j].line
      BY DEF Kept, NoneLost
    <3> HIDE DEF n
    <3>3. \A i \in 1..n + 1 : i \in 1..n \/ i = n + 1
      BY <3>1
    <3> QED
      BY <2>2, <3>1, <3>2, <3>3
  <2>4. /\ ClaimedLines' \cap Range(vPublic') = {}
        /\ ClaimedLines' \cup Range(vPublic') = DOMAIN pubs
    BY <1>4, <2>0, <2>1, ClaimMoves DEF Kept, NoneLost
  <2> QED
    BY <1>4, <2>0, <2>3, <2>4, ClaimMoves DEF Kept, NoneLost
<1>5. CASE Pass
  BY <1>5 DEF Pass, Trying, Kept, NoneLost, ClaimedLines
<1>6. CASE NextSecret
  BY <1>6 DEF NextSecret, Trying, Kept, NoneLost, ClaimedLines
<1>7. CASE ListRest
  BY <1>7 DEF ListRest, Kept, NoneLost, ClaimedLines
<1>8. CASE UNCHANGED vars
  BY <1>8 DEF vars, Kept, NoneLost, ClaimedLines
<1> QED
  BY <1>1, <1>2, <1>3, <1>4, <1>5, <1>6, <1>7, <1>8 DEF Next, Ended

-----------------------------------------------------------------------------
(***************************************************************************)
(* The claims.  Whatever waits was refused by the private keys before the  *)
(* current one, and in front of the position by that one too; a private    *)
(* key behind the current one has claimed nothing.                         *)
(***************************************************************************)
Refused(j, s) == vSecret[s] \in Signs => pubs[vPublic[j]] # GetPubKey(vSecret[s])

Claims ==
  /\ \A i \in DOMAIN listed :
       /\ listed[i].under <= at
       /\ pubs[listed[i].line] = GetPubKey(vSecret[listed[i].under])
       /\ \A s \in 1..listed[i].under - 1 :
            vSecret[s] \in Signs => pubs[listed[i].line] # GetPubKey(vSecret[s])
  /\ pc \in {"match", "done"} =>
       \A j \in DOMAIN vPublic, s \in DOMAIN vSecret :
         s < at \/ (s = at /\ j < iter) => Refused(j, s)

Owners ==
  /\ own \subseteq 1..at - 1
  /\ bIsPair <=> \E i \in DOMAIN listed : listed[i].under = at
  /\ OwnShown

\* At first nothing is claimed.
LEMMA InitClaims == Init => Claims /\ Owners
<1> SUFFICES ASSUME Init PROVE Claims /\ Owners
  OBVIOUS
<1>1. DOMAIN listed = {} /\ DOMAIN vSecret = {}
  BY EmptySeq, LenProperties DEF Init
<1> QED
  BY <1>1 DEF Init, Claims, Owners, OwnShown

\* What is printed under a private key.
LEMMA ListedTypes ==
  ASSUME TypeOK
  PROVE  /\ DOMAIN listed = 1..Len(listed)
         /\ \A i \in DOMAIN listed : listed[i].under \in DOMAIN vSecret
<1> DEFINE Item == [line : DOMAIN pubs, under : DOMAIN vSecret]
<1>1. listed \in Seq(Item)
  BY DEF TypeOK
<1>2. \A x \in Item : x.under \in DOMAIN vSecret
  OBVIOUS
<1> HIDE DEF Item
<1> QED
  BY <1>1, <1>2, LenProperties, ElementOfSeq

\* Only the first private key a public key belongs to claims it; the others have refused it.
LEMMA NextClaims ==
  ASSUME TypeOK, Phases, Kept, Claims, [Next]_vars
  PROVE  Claims'
<1> USE DEF given, printed
<1>0. /\ at \in Nat \ {0} /\ DOMAIN vPublic = 1..Len(vPublic) /\ Len(vPublic) \in Nat
      /\ DOMAIN vSecret = 1..Len(vSecret) /\ Len(vSecret) \in Nat
      /\ DOMAIN listed = 1..Len(listed)
      /\ \A i \in DOMAIN listed : listed[i].under \in DOMAIN vSecret
      /\ iter \in Nat
  <2>1. /\ DOMAIN listed = 1..Len(listed)
        /\ \A i \in DOMAIN listed : listed[i].under \in DOMAIN vSecret
    BY ListedTypes
  <2>2. DOMAIN vPublic = 1..Len(vPublic) /\ Len(vPublic) \in Nat
    BY LenProperties DEF TypeOK
  <2>3. DOMAIN vSecret = 1..Len(vSecret) /\ Len(vSecret) \in Nat
    BY LenProperties DEF TypeOK
  <2>4. iter \in Nat
    BY <2>2 DEF TypeOK
  <2> QED
    BY <2>1, <2>2, <2>3, <2>4 DEF TypeOK
<1>1. CASE ReadPrivKey
  <2>1. DOMAIN listed' = {} /\ pc' = "read"
    BY <1>1, EmptySeq, LenProperties DEF ReadPrivKey, Phases, Idle
  <2> QED
    BY <2>1 DEF Claims
<1>2. CASE Missing
  BY <1>2 DEF Missing, Claims, Refused
<1>3. CASE ReadPubKeys
  <2>1. DOMAIN listed' = {} /\ at' = 1 /\ iter' = 1
    BY <1>3, EmptySeq, LenProperties DEF ReadPubKeys, Phases, Idle
  <2>2. DOMAIN vPublic' \subseteq Nat \ {0} /\ DOMAIN vSecret' \subseteq Nat \ {0}
    <3>1. DOMAIN pubs \subseteq Nat \ {0}
      BY LenProperties DEF TypeOK
    <3> QED
      BY <1>0, <1>3, <3>1 DEF ReadPubKeys
  <2> QED
    BY <2>1, <2>2 DEF Claims
<1>4. CASE Claim
  <2>0. /\ Trying /\ iter <= Len(vPublic) /\ Belongs /\ iter' = iter
        /\ UNCHANGED <<pubs, vSecret, at, pc>> /\ pc = "match"
    BY <1>4 DEF Claim, Trying, AfterErase
  <2>1. /\ iter \in 1..Len(vPublic) /\ at \in DOMAIN vSecret
        /\ vSecret[at] \in Signs /\ pubs[vPublic[iter]] = GetPubKey(vSecret[at])
    BY <2>0, Looking
  <2>2. \A s \in 1..at - 1 : Refused(iter, s)
    BY <1>0, <2>0, <2>1 DEF Claims
  <2>3. ASSUME NEW i \in DOMAIN listed'
        PROVE  /\ listed'[i].under <= at
               /\ pubs[listed'[i].line] = GetPubKey(vSecret[listed'[i].under])
               /\ \A s \in 1..listed'[i].under - 1 :
                    vSecret[s] \in Signs => pubs[listed'[i].line] # GetPubKey(vSecret[s])
    <3>1. CASE i \in 1..Len(listed)
      BY <1>0, <1>4, <3>1, ClaimMoves DEF Claims
    <3>2. CASE i = Len(listed) + 1
      <4>1. listed'[i].line = vPublic[iter] /\ listed'[i].under = at
        BY <1>4, <3>2, ClaimMoves
      <4> QED
        BY <1>0, <2>1, <2>2, <4>1 DEF Refused
    <3> QED
      BY <1>4, <3>1, <3>2, ClaimMoves
  <2>4. ASSUME NEW j \in DOMAIN vPublic', NEW s \in DOMAIN vSecret,
               s < at \/ (s = at /\ j < iter), vSecret[s] \in Signs
        PROVE  pubs[vPublic'[j]] # GetPubKey(vSecret[s])
    <3>1. j \in 1..Len(vPublic) - 1 /\ vPublic'[j] = IF j < iter THEN vPublic[j] ELSE vPublic[j + 1]
      BY <1>4, ClaimMoves
    <3>2. CASE j < iter
      BY <1>0, <2>0, <2>4, <3>1, <3>2 DEF Claims, Refused
    <3>3. CASE ~(j < iter)
      <4>1. s < at /\ j + 1 \in DOMAIN vPublic
        BY <1>0, <2>4, <3>1, <3>3
      <4> QED
        BY <2>0, <2>4, <3>1, <3>3, <4>1 DEF Claims, Refused
    <3> QED
      BY <3>2, <3>3
  <2> QED
    BY <2>0, <2>3, <2>4 DEF Claims, Refused
<1>5. CASE Pass
  <2>0. /\ Trying /\ iter <= Len(vPublic) /\ ~Belongs /\ iter' = iter + 1
        /\ UNCHANGED <<pubs, vSecret, vPublic, listed, at, pc>>
    BY <1>5 DEF Pass, Onward
  <2>1. Refused(iter, at)
    BY <2>0, Looking DEF Refused
  <2>2. \A j \in DOMAIN vPublic : j < iter + 1 => j < iter \/ j = iter
    BY <1>0
  <2> QED
    BY <2>0, <2>1, <2>2 DEF Claims, Refused
<1>6. CASE NextSecret
  <2>0. /\ iter > Len(vPublic) /\ at' = at + 1 /\ iter' = 1 /\ pc = "match"
        /\ UNCHANGED <<pubs, vSecret, vPublic, listed, pc>>
    BY <1>6 DEF NextSecret, Trying
  <2>1. \A j \in DOMAIN vPublic, s \in DOMAIN vSecret :
          s < at' \/ (s = at' /\ j < iter') => s < at \/ (s = at /\ j < iter)
    BY <1>0, <2>0
  <2>2. \A i \in DOMAIN listed : listed[i].under <= at'
    BY <1>0, <2>0 DEF Claims
  <2> QED
    BY <2>0, <2>1, <2>2 DEF Claims, Refused
<1>7. CASE ListRest
  BY <1>7 DEF ListRest, Claims, Refused
<1>8. CASE UNCHANGED vars
  BY <1>8 DEF vars, Claims, Refused
<1> QED
  BY <1>1, <1>2, <1>3, <1>4, <1>5, <1>6, <1>7, <1>8 DEF Next, Ended

\* bIsPair tells whether the current private key has claimed anything, and own which of the earlier ones have not.
LEMMA NextOwners ==
  ASSUME TypeOK, Phases, Kept, Claims, Owners, [Next]_vars
  PROVE  Owners'
<1> USE DEF given, printed
<1>0. /\ at \in Nat \ {0} /\ DOMAIN vSecret = 1..Len(vSecret) /\ Len(vSecret) \in Nat
      /\ \A i \in DOMAIN listed : listed[i].under \in Nat /\ listed[i].under <= at
  <2>1. DOMAIN vSecret = 1..Len(vSecret) /\ Len(vSecret) \in Nat
    BY LenProperties DEF TypeOK
  <2>2. at \in Nat \ {0}
    BY DEF TypeOK
  <2>3. \A i \in DOMAIN listed : listed[i].under \in 1..Len(vSecret)
    BY <2>1, ListedTypes
  <2>4. \A i \in DOMAIN listed : listed[i].under <= at
    BY DEF Claims
  <2> QED
    BY <2>1, <2>2, <2>3, <2>4
<1>1. CASE ReadPrivKey
  <2>1. /\ DOMAIN listed' = {} /\ at' = 1 /\ own' = {} /\ bIsPair' = FALSE
        /\ \A s \in DOMAIN vSecret' : ~(s < 1)
    <3>1. vSecret' \in Seq(PrivKey)
      BY <1>1, NextTypes DEF TypeOK
    <3> QED
      BY <1>1, <3>1, EmptySeq, LenProperties DEF ReadPrivKey, Phases, Idle
  <2> QED
    BY <2>1 DEF Owners, OwnShown
<1>2. CASE Missing
  BY <1>2 DEF Missing, Owners, OwnShown
<1>3. CASE ReadPubKeys
  BY <1>3 DEF ReadPubKeys, Owners, OwnShown
<1>4. CASE Claim
  <2>0. /\ UNCHANGED <<vSecret, at, own>> /\ bIsPair'
    BY <1>4 DEF Claim
  <2>1. /\ DOMAIN listed' = 1..Len(listed) + 1 /\ DOMAIN listed = 1..Len(listed)
        /\ Len(listed) \in Nat
        /\ \A i \in 1..Len(listed) : listed'[i] = listed[i]
        /\ listed'[Len(listed) + 1].under = at
    BY <1>4, ClaimMoves
  <2>2. bIsPair' <=> \E i \in DOMAIN listed' : listed'[i].under = at'
    BY <2>0, <2>1
  <2>3. ASSUME NEW s \in DOMAIN vSecret, s < at
        PROVE  (\A i \in DOMAIN listed' : listed'[i].under # s)
                  <=> (\A i \in DOMAIN listed : listed[i].under # s)
    BY <1>0, <2>1, <2>3
  <2> QED
    BY <2>0, <2>2, <2>3 DEF Owners, OwnShown
<1>5. CASE Pass
  BY <1>5 DEF Pass, Owners, OwnShown
<1>6. CASE NextSecret
  <2>0. /\ at' = at + 1 /\ own' = (IF bIsPair THEN own ELSE own \cup {at})
        /\ bIsPair' = FALSE /\ UNCHANGED <<vSecret, listed>>
    BY <1>6 DEF NextSecret, Fresh
  <2>1. own' \subseteq 1..at' - 1
    <3>1. own \subseteq 1..at - 1 /\ at' - 1 = at
      BY <1>0, <2>0 DEF Owners
    <3>2. 1..at - 1 \subseteq 1..at /\ at \in 1..at
      BY <1>0
    <3> QED
      BY <2>0, <3>1, <3>2
  <2>2. ~\E i \in DOMAIN listed : listed[i].under = at'
    BY <1>0, <2>0
  <2>3. ASSUME NEW s \in DOMAIN vSecret, s < at'
        PROVE  s \in own' <=> \A i \in DOMAIN listed : listed[i].under # s
    <3>1. CASE s = at
      BY <1>0, <2>0, <3>1 DEF Owners
    <3>2. CASE s # at
      <4>1. s < at
        BY <1>0, <2>0, <2>3, <3>2
      <4> QED
        BY <2>0, <3>2, <4>1 DEF Owners, OwnShown
    <3> QED
      BY <3>1, <3>2
  <2> QED
    BY <2>0, <2>1, <2>2, <2>3 DEF Owners, OwnShown
<1>7. CASE ListRest
  BY <1>7 DEF ListRest, Owners, OwnShown
<1>8. CASE UNCHANGED vars
  BY <1>8 DEF vars, Owners, OwnShown
<1> QED
  BY <1>1, <1>2, <1>3, <1>4, <1>5, <1>6, <1>7, <1>8 DEF Next, Ended

-----------------------------------------------------------------------------
\* All of the above, for every state of CheckKey.
THEOREM Always == Spec => [](TypeOK /\ Phases /\ Kept /\ Claims /\ Owners)
BY InitTypes, NextTypes, InitKept, NextKept, InitClaims, NextClaims, NextOwners, PTL
   DEF Spec

\* No public key is printed twice or lost while the vector is erased from
\* under the loop.
THEOREM NoneIsLost == Spec => []NoneLost
<1>1. Kept => NoneLost
  BY DEF Kept
<1> QED
  BY <1>1, Always, PTL

\* Each public key is claimed by the first private key it belongs to, in the
\* very form it is written in, and left to the end only if there is none.
THEOREM ClaimsRight == Spec => []ClaimedRight
<1>1. TypeOK /\ Kept /\ Claims => ClaimedRight
  <2> SUFFICES ASSUME TypeOK, Kept, Claims PROVE ClaimedRight
    OBVIOUS
  <2>1. ASSUME pc = "done", NEW j \in DOMAIN rest, NEW s \in DOMAIN vSecret,
               vSecret[s] \in Signs
        PROVE  pubs[rest[j]] # GetPubKey(vSecret[s])
    <3>1. s < at /\ rest = vPublic
      BY <2>1, LenProperties DEF TypeOK, Kept, NoneLost
    <3> QED
      BY <2>1, <3>1 DEF Claims, Refused
  <2> QED
    BY <2>1 DEF ClaimedRight, Claims
<1> QED
  BY <1>1, Always, PTL

\* A private key's own public key is printed exactly when it claimed none.
THEOREM OwnKeysShown == Spec => []OwnShown
<1>1. Owners => OwnShown
  BY DEF Owners
<1> QED
  BY <1>1, Always, PTL
-----------------------------------------------------------------------------
(***************************************************************************)
(* CheckKey returns: a bound on the steps it has left shrinks with each.   *)
(***************************************************************************)
\* A product grows with its first factor.
LEMMA ProductGrows ==
  ASSUME NEW a \in Nat, NEW b \in Nat, NEW k \in Nat, a <= b
  PROVE  /\ a * k \in Nat /\ b * k \in Nat /\ a * k <= b * k
         /\ (a + 1) * k = a * k + k
<1>1. PICK d \in Nat : b = a + d
  <2>1. b - a \in Nat /\ b = a + (b - a)
    OBVIOUS
  <2> QED
    BY <2>1
<1>2. (a + d) * k = a * k + d * k /\ d * k \in Nat /\ a * k \in Nat /\ (a + 1) * k = a * k + k
  BY SMT
<1>3. a * k <= a * k + d * k
  BY <1>2
<1> QED
  BY <1>1, <1>2, <1>3

\* The vectors are no longer than what was given, and the walks along them do
\* not run past their ends.
Sizes ==
  /\ next <= Len(privs) + 1 /\ Len(vSecret) < next
  /\ Len(vPublic) <= Len(pubs)
  /\ pc \in {"match", "done"} => at <= Len(vSecret) + 1

\* The lengths the steps are counted by are numbers.
LEMMA LengthsAreNat ==
  ASSUME TypeOK
  PROVE  /\ Len(privs) \in Nat /\ Len(pubs) \in Nat /\ Len(vSecret) \in Nat
         /\ Len(vPublic) \in Nat /\ DOMAIN pubs = 1..Len(pubs)
  BY LenProperties DEF TypeOK

\* A step keeps the walks within their bounds.
LEMMA NextSizes ==
  ASSUME TypeOK, Phases, Sizes, [Next]_vars
  PROVE  Sizes'
<1> USE DEF given, printed
<1>0. /\ Len(privs) \in Nat /\ Len(pubs) \in Nat /\ Len(vSecret) \in Nat
      /\ Len(vPublic) \in Nat /\ next \in Nat /\ at \in Nat
  BY LengthsAreNat DEF TypeOK
<1>1. CASE ReadPrivKey
  <2>1. vSecret' = vSecret \/ Len(vSecret') = Len(vSecret) + 1
    <3>1. vSecret \in Seq(PrivKey)
      BY DEF TypeOK
    <3>2. \A e : e \in PrivKey => Len(Append(vSecret, e)) = Len(vSecret) + 1
      BY <3>1, AppendProperties
    <3>3. next \in 1..Len(privs)
      BY <1>0, <1>1 DEF ReadPrivKey, TypeOK
    <3>4. privs[next] \in PrivKey
      BY <3>3, ElementOfSeq DEF TypeOK
    <3> QED
      BY <1>1, <3>2, <3>4 DEF ReadPrivKey
  <2>2. next' = next + 1 /\ next <= Len(privs) /\ UNCHANGED <<privs, pubs, vPublic, pc>> /\ pc = "read"
    BY <1>1 DEF ReadPrivKey
  <2> QED
    BY <1>0, <2>1, <2>2 DEF Sizes
<1>2. CASE Missing
  BY <1>2 DEF Missing, Sizes
<1>3. CASE ReadPubKeys
  <2>1. vPublic' = [l \in 1..Len(pubs) |-> l]
    BY <1>3, LengthsAreNat DEF ReadPubKeys
  <2>2. Len(vPublic') = Len(pubs)
    BY <1>0, <2>1, LenProperties
  <2>3. UNCHANGED <<privs, pubs, next, vSecret, at>> /\ at = 1
    BY <1>3 DEF ReadPubKeys, Phases, Idle
  <2> QED
    BY <1>0, <2>2, <2>3 DEF Sizes
<1>4. CASE Claim
  <2>0. Trying /\ iter <= Len(vPublic)
    BY <1>4 DEF Claim
  <2>1. Len(vPublic') = Len(vPublic) - 1
    BY <1>4, <2>0, Looking, RemoveAtProperties DEF Claim, TypeOK, Erase
  <2>2. UNCHANGED <<privs, pubs, next, vSecret, at, pc>>
    BY <1>4 DEF Claim
  <2> QED
    BY <1>0, <2>1, <2>2 DEF Sizes
<1>5. CASE Pass
  BY <1>5 DEF Pass, Sizes
<1>6. CASE NextSecret
  <2>1. at <= Len(vSecret) /\ at' = at + 1 /\ UNCHANGED <<privs, pubs, next, vSecret, vPublic, pc>>
    BY <1>6 DEF NextSecret, Trying
  <2> QED
    BY <1>0, <2>1 DEF Sizes
<1>7. CASE ListRest
  BY <1>7 DEF ListRest, Sizes
<1>8. CASE UNCHANGED vars
  BY <1>8 DEF vars, Sizes
<1> QED
  BY <1>1, <1>2, <1>3, <1>4, <1>5, <1>6, <1>7, <1>8 DEF Next, Ended

\* The most steps CheckKey can have left: the lines to read and, for each
\* private key to try, a round over as many public keys as there can be.
Round == Len(pubs) + 2
StepsLeft ==
  CASE pc = "read"  -> Len(privs) + 1 - next + (Len(privs) + 1) * Round
    [] pc = "match" -> (Len(vSecret) + 1 - at) * Round + Len(vPublic) + 2 - iter
    [] OTHER -> 0

\* Every step of CheckKey brings its end nearer, those included that do not
\* advance the position because the key there has been erased.
GetsDone == [][StepsLeft' < StepsLeft /\ StepsLeft \in Nat /\ StepsLeft' \in Nat]_vars

\* The step relation behind GetsDone, for a step that is no stutter.
LEMMA ShrinkingStep ==
  ASSUME TypeOK, TypeOK', Phases, Sizes, Sizes', Next, vars' # vars
  PROVE  StepsLeft' < StepsLeft /\ StepsLeft \in Nat /\ StepsLeft' \in Nat
<1> USE DEF given, printed
<1>0. /\ Len(privs) \in Nat /\ Round \in Nat /\ Len(pubs) \in Nat /\ Len(vSecret) \in Nat
      /\ Len(vPublic) \in Nat /\ next \in Nat /\ at \in Nat \ {0}
      /\ iter \in 1..Len(vPublic) + 1
  <2>1. /\ Len(privs) \in Nat /\ Len(pubs) \in Nat /\ Len(vSecret) \in Nat
        /\ Len(vPublic) \in Nat
    BY LengthsAreNat
  <2>2. next \in Nat /\ at \in Nat \ {0} /\ iter \in 1..Len(vPublic) + 1
    BY DEF TypeOK
  <2> QED
    BY <2>1, <2>2 DEF Round
<1>1. privs' = privs /\ pubs' = pubs /\ Round' = Round
  BY DEF Next, ReadPrivKey, Missing, ReadPubKeys, Claim, Pass, NextSecret, ListRest, Ended, vars, Round
<1>2. /\ pc = "read" => StepsLeft = Len(privs) + 1 - next + (Len(privs) + 1) * Round
      /\ pc = "match" => StepsLeft = (Len(vSecret) + 1 - at) * Round + Len(vPublic) + 2 - iter
      /\ pc \in {"failed", "done"} => StepsLeft = 0
  BY DEF StepsLeft
<1>3. /\ pc' = "read" => StepsLeft' = Len(privs) + 1 - next' + (Len(privs) + 1) * Round
      /\ pc' = "match" => StepsLeft' = (Len(vSecret') + 1 - at') * Round + Len(vPublic') + 2 - iter'
      /\ pc' \in {"failed", "done"} => StepsLeft' = 0
  BY <1>1 DEF StepsLeft
<1>4. /\ Len(privs) * Round \in Nat /\ (Len(privs) + 1) * Round = Len(privs) * Round + Round
      /\ Round >= 2 /\ Round = Len(pubs) + 2
  BY <1>0, ProductGrows DEF Round
<1>5. CASE ReadPrivKey
  <2>1. pc = "read" /\ pc' = "read" /\ next' = next + 1 /\ next <= Len(privs)
    BY <1>5 DEF ReadPrivKey
  <2> DEFINE all == (Len(privs) + 1) * Round
  <2>2. all \in Nat
    BY <1>0, <1>4
  <2>3. StepsLeft = Len(privs) + 1 - next + all /\ StepsLeft' = Len(privs) + 1 - (next + 1) + all
    BY <1>1, <1>2, <1>3, <2>1
  <2> HIDE DEF all, Round
  <2> QED
    BY <1>0, <2>1, <2>2, <2>3
<1>6. CASE Missing
  <2>1. pc = "read" /\ pc' = "failed" /\ next <= Len(privs) + 1
    BY <1>6 DEF Missing, Sizes
  <2> DEFINE all == Len(privs) * Round
  <2>2. all \in Nat
    BY <1>4
  <2>3. StepsLeft = Len(privs) + 1 - next + (all + Round) /\ StepsLeft' = 0
    BY <1>2, <1>3, <1>4, <2>1
  <2> HIDE DEF all, Round
  <2> QED
    BY <1>0, <1>4, <2>1, <2>2, <2>3
<1>7. CASE ReadPubKeys
  <2>1. /\ pc = "read" /\ pc' = "match" /\ vSecret' = vSecret
        /\ at' = at /\ at = 1 /\ iter' = iter /\ iter = 1
    BY <1>7 DEF ReadPubKeys, Phases, Idle
  <2>2. Len(vSecret) <= Len(privs) /\ Len(vPublic') <= Len(pubs) /\ Len(vPublic') \in Nat
        /\ next <= Len(privs) + 1
    <3>1. Len(vPublic') \in Nat
      BY LenProperties DEF TypeOK
    <3>2. Len(vPublic') <= Len(pubs)
      BY <1>1 DEF Sizes
    <3>3. next <= Len(privs) + 1 /\ Len(vSecret) < next
      BY DEF Sizes
    <3> QED
      BY <1>0, <3>1, <3>2, <3>3
  <2>3. Len(vSecret) * Round \in Nat /\ Len(vSecret) * Round <= Len(privs) * Round
    <3> HIDE DEF Round
    <3> QED
      BY <1>0, <2>2, ProductGrows
  <2>4. Len(vSecret') + 1 - at' = Len(vSecret)
    BY <1>0, <2>1
  <2>5. StepsLeft' = Len(vSecret) * Round + Len(vPublic') + 1
    <3>1. StepsLeft' = Len(vSecret) * Round + Len(vPublic') + 2 - 1
      BY <1>3, <2>1, <2>4
    <3> QED
      BY <2>2, <2>3, <3>1
  <2>6. StepsLeft = Len(privs) + 1 - next + (Len(privs) * Round + Round)
    BY <1>2, <1>4, <2>1
  <2> DEFINE p == Len(vSecret) * Round
             q == Len(privs) * Round
  <2>7. p \in Nat /\ q \in Nat /\ p <= q
    BY <1>4, <2>3
  <2>8. StepsLeft' = p + Len(vPublic') + 1 /\ StepsLeft = Len(privs) + 1 - next + (q + Round)
    BY <2>5, <2>6
  <2> HIDE DEF p, q, Round
  <2>9. p + Len(vPublic') + 1 < q + Round /\ q + Round \in Nat
    BY <1>0, <1>4, <2>2, <2>7
  <2>10. Len(privs) + 1 - next \in Nat
    BY <1>0, <2>2
  <2> QED
    BY <2>2, <2>7, <2>8, <2>9, <2>10
<1>8. CASE Claim
  <2>0. Trying /\ iter <= Len(vPublic)
    BY <1>8 DEF Claim
  <2>1. /\ Len(vPublic') = Len(vPublic) - 1 /\ iter' = iter /\ at' = at /\ vSecret' = vSecret
        /\ pc = "match" /\ pc' = "match" /\ at <= Len(vSecret)
    BY <1>8, <2>0, Looking, RemoveAtProperties DEF Claim, TypeOK, Erase, AfterErase, Trying
  <2> DEFINE left == (Len(vSecret) + 1 - at) * Round
  <2>2. left \in Nat
    <3>1. Len(vSecret) + 1 - at \in Nat
      BY <1>0, <2>1
    <3> QED
      BY <1>0, <3>1, ProductGrows
  <2>3. StepsLeft = left + Len(vPublic) + 2 - iter /\ StepsLeft' = left + Len(vPublic') + 2 - iter
    BY <1>2, <1>3, <2>1
  <2> HIDE DEF left
  <2> QED
    BY <1>0, <2>0, <2>1, <2>2, <2>3
<1>9. CASE Pass
  <2>1. /\ vPublic' = vPublic /\ iter' = iter + 1 /\ at' = at /\ vSecret' = vSecret
        /\ pc = "match" /\ pc' = "match" /\ at <= Len(vSecret) /\ iter <= Len(vPublic)
    BY <1>9 DEF Pass, Onward, Trying
  <2> DEFINE left == (Len(vSecret) + 1 - at) * Round
  <2>2. left \in Nat
    <3>1. Len(vSecret) + 1 - at \in Nat
      BY <1>0, <2>1
    <3> QED
      BY <1>0, <3>1, ProductGrows
  <2>3. StepsLeft = left + Len(vPublic) + 2 - iter /\ StepsLeft' = left + Len(vPublic) + 2 - (iter + 1)
    BY <1>2, <1>3, <2>1
  <2> HIDE DEF left
  <2> QED
    BY <1>0, <2>1, <2>2, <2>3
<1>10. CASE NextSecret
  <2>1. /\ vPublic' = vPublic /\ iter' = 1 /\ at' = at + 1 /\ vSecret' = vSecret
        /\ pc = "match" /\ pc' = "match" /\ at <= Len(vSecret) /\ iter > Len(vPublic)
    BY <1>10 DEF NextSecret, Trying
  <2>2. PICK a \in Nat : Len(vSecret) + 1 - at = a + 1 /\ Len(vSecret') + 1 - at' = a
    <3>1. Len(vSecret) - at \in Nat
      BY <1>0, <2>1
    <3> QED
      BY <1>0, <2>1, <3>1
  <2>3. a * Round \in Nat /\ (a + 1) * Round = a * Round + Round
    BY <1>0, ProductGrows
  <2>4. /\ StepsLeft = a * Round + Round + Len(vPublic) + 2 - iter
        /\ StepsLeft' = a * Round + Len(vPublic) + 1
    <3>1. StepsLeft = (a + 1) * Round + Len(vPublic) + 2 - iter
      BY <1>2, <2>1, <2>2
    <3>2. StepsLeft' = a * Round + Len(vPublic) + 2 - 1
      BY <1>3, <2>1, <2>2
    <3> QED
      BY <1>0, <2>3, <3>1, <3>2
  <2>5. Len(vPublic) <= Len(pubs) /\ iter = Len(vPublic) + 1
    BY <1>0, <2>1 DEF Sizes
  <2> QED
    BY <1>0, <1>4, <2>3, <2>4, <2>5
<1>11. CASE ListRest
  <2>1. pc = "match" /\ pc' = "done" /\ at = Len(vSecret) + 1
    <3>1. pc = "match" /\ pc' = "done" /\ at > Len(vSecret)
      BY <1>11 DEF ListRest
    <3>2. at <= Len(vSecret) + 1
      BY <3>1 DEF Sizes
    <3> QED
      BY <1>0, <3>1, <3>2
  <2>2. Len(vSecret) + 1 - at = 0
    BY <1>0, <2>1
  <2>3. StepsLeft = 0 * Round + Len(vPublic) + 2 - iter
    BY <1>2, <2>1, <2>2
  <2>4. 0 * Round = 0 /\ StepsLeft' = 0
    BY <1>0, <1>3, <2>1
  <2> QED
    BY <1>0, <2>3, <2>4
<1>12. ~Ended
  BY DEF Ended
<1> QED
  BY <1>5, <1>6, <1>7, <1>8, <1>9, <1>10, <1>11, <1>12 DEF Next

\* CheckKey returns within StepsLeft steps, for any keys.
THEOREM GetsDoneHolds == Spec => GetsDone
<1> DEFINE A == StepsLeft' < StepsLeft /\ StepsLeft \in Nat /\ StepsLeft' \in Nat
<1>1. Init => Sizes
  <2> SUFFICES ASSUME Init PROVE Sizes
    OBVIOUS
  <2>1. TypeOK /\ Phases
    BY InitTypes
  <2>2. Len(vSecret) = 0 /\ Len(vPublic) = 0 /\ next = 1 /\ pc = "read"
    BY EmptySeq DEF Init
  <2> QED
    BY <2>1, <2>2, LengthsAreNat DEF Sizes
<1>2. TypeOK /\ Phases /\ Sizes /\ [Next]_vars => Sizes'
  BY NextSizes
<1>3. TypeOK /\ TypeOK' /\ Phases /\ Sizes /\ Sizes' /\ [Next]_vars => [A]_vars
  <2> SUFFICES ASSUME TypeOK, TypeOK', Phases, Sizes, Sizes', Next, vars' # vars PROVE A
    OBVIOUS
  <2> QED
    BY ShrinkingStep
<1>4. GetsDone <=> [][A]_vars
  BY DEF GetsDone
<1> HIDE DEF A
<1> QED
  BY Always, <1>1, <1>2, <1>3, <1>4, PTL DEF Spec
=============================================================================
