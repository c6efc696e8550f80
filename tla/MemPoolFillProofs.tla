------------------------- MODULE MemPoolFillProofs -------------------------
(***************************************************************************)
(* What holds of getmempoolinfo for every limit, every size of a           *)
(* transaction and every length of a million, proved.                      *)
(***************************************************************************)
EXTENDS MemPoolFill, TLAPS

\* The limit has the sign of -maxmempool.
LEMMA LimitSign ==
  ASSUME TypeOK
  PROVE  /\ Limit \in Int /\ max * Tenth \in Int
         /\ max > 0 => Limit > 0
         /\ max <= 0 => Limit <= 0
<1>1. max \in Int /\ Tenth \in Nat \ {0} /\ Million = 10 * Tenth
  BY MemPoolAssumption DEF TypeOK
<1>2. Million \in Nat \ {0}
  BY <1>1
<1> QED
  BY <1>1, <1>2 DEF Limit

\* The variables keep their types.
THEOREM TypeCorrect == Spec => []TypeOK
<1>1. Init => TypeOK
  <2> SUFFICES ASSUME Init PROVE TypeOK
    OBVIOUS
  <2>1. tx \in [size : TxSize, ins : SigOps, outs : SigOps]
    BY DEF Init
  <2>2. nSigOps \in Nat /\ size \in Nat /\ total \in Nat /\ shown \in Int
    BY DEF Init
  <2>3. estimates \in BOOLEAN /\ announced \in BOOLEAN
    BY Zenon DEF Init
  <2>4. entries \in SUBSET Nat
    BY DEF Init
  <2> QED
    BY <2>1, <2>2, <2>3, <2>4 DEF Init, TypeOK
<1>2. TypeOK /\ [Next]_vars => TypeOK'
  <2> SUFFICES ASSUME TypeOK, [Next]_vars PROVE TypeOK'
    OBVIOUS
  <2> USE DEF TypeOK, inputs
  <2>0. tx.size \in Nat \ {0} /\ AddSigOps(nSigOps) \in Nat
    <3>1. tx.ins \in Nat /\ tx.outs \in Nat /\ tx.size \in Nat \ {0}
      BY MemPoolAssumption
    <3>2. nSigOps \in Nat
      OBVIOUS
    <3> HIDE DEF TypeOK
    <3> QED
      BY <3>1, <3>2 DEF AddSigOps
  <2>1. CASE Example
    BY <2>1 DEF Example
  <2>2. CASE Start
    BY <2>0, <2>2 DEF Start
  <2>3. CASE BeginRound
    BY <2>0, <2>3 DEF BeginRound, Reset
  <2>4. CASE NewTX
    BY <2>0, <2>4 DEF NewTX, AfterFailure
  <2>5. CASE BreakFull
    BY <2>0, <2>5 DEF BreakFull, MakeEntry
  <2>6. CASE AddTX
    <3>1. estimates' \in BOOLEAN /\ nSigOps' = nSigOps /\ pc' = "loop"
      BY <2>6 DEF AddTX, MakeEntry
    <3>2. total' \in Nat /\ size' \in Nat /\ shown' \in Int /\ entries' \in SUBSET Nat
      BY <2>0, <2>6 DEF AddTX
    <3> QED
      BY <2>6, <3>1, <3>2 DEF AddTX
  <2>7. CASE ShowLast
    BY <2>7 DEF ShowLast
  <2>8. CASE UNCHANGED vars
    BY <2>8 DEF vars
  <2> QED
    BY <2>1, <2>2, <2>3, <2>4, <2>5, <2>6, <2>7, <2>8 DEF Next, Ended
<1> QED
  BY <1>1, <1>2, PTL DEF Spec

-----------------------------------------------------------------------------
(***************************************************************************)
(* What the safety properties rest on: where the loop is, what is in the   *)
(* pool, and by how much the count of the bytes since the pool was shown   *)
(* lags behind.                                                            *)
(***************************************************************************)
Filling ==
  /\ pc = "called" => total = 0 /\ size = 0
  /\ pc \notin {"called", "end"} => argument # "none"
  /\ pc \in {"newtx", "made"} => ~IsFull
  /\ pc = "made" => decodes
  /\ entries = {} <=> total = 0
  /\ NeverFull
  /\ announced <=> pc = "full" \/ (pc = "end" /\ argument # "none" /\ max > 0)
  /\ announced => max > 0 /\ NextOverflows

\* nSigOps is 0 when a round begins, and what NewTX adds is still there when
\* the entry is made.
OwnOps ==
  /\ pc = "newtx" => nSigOps = 0
  /\ EntryExact

\* The bytes since the pool was shown: those counted, or one transaction more
\* when it has been shown in the loop.
Lag ==
  pc \in {"loop", "newtx", "made"} =>
    /\ shown = total \/ total - shown <= size + tx.size
    /\ 0 <= shown /\ shown <= total
    /\ size = 0 \/ size <= max * Tenth

\* At first nothing is in the pool.
LEMMA InitFilling == Init => Filling /\ OwnOps /\ Lag
BY DEF Init, Filling, OwnOps, Lag, NeverFull, EntryExact

\* No step disturbs what is known of the loop and the pool, ...
LEMMA NextFilling ==
  ASSUME TypeOK, TypeOK', Filling, [Next]_vars
  PROVE  Filling'
<1> USE DEF inputs
<1>0. /\ tx.size \in Nat \ {0} /\ total \in Nat /\ total' \in Nat /\ max \in Int
      /\ Limit \in Int /\ (max > 0 => Limit > 0) /\ (max <= 0 => Limit <= 0)
  BY LimitSign, MemPoolAssumption DEF TypeOK
<1>1. CASE UNCHANGED vars
  BY <1>1 DEF vars, Filling, NeverFull, IsFull, Limit, NextOverflows
<1>2. CASE Next
  <2>1. UNCHANGED inputs /\ Limit' = Limit
    BY <1>2 DEF Next, Example, Start, BeginRound, NewTX, BreakFull, AddTX, ShowLast, Ended,
                vars, Limit
  <2>2. CASE Example \/ Start
    BY <1>0, <2>1, <2>2 DEF Example, Start, Filling, NeverFull, NextOverflows
  <2>3. CASE BeginRound
    BY <1>0, <2>1, <2>3 DEF BeginRound, Filling, NeverFull, IsFull, NextOverflows
  <2>4. CASE NewTX
    BY <1>0, <2>1, <2>4 DEF NewTX, AfterFailure, Filling, NeverFull, IsFull, NextOverflows
  <2>5. CASE BreakFull
    BY <1>0, <2>1, <2>5 DEF BreakFull, MakeEntry, Filling, NeverFull, IsFull, NextOverflows
  <2>6. CASE AddTX
    <3>1. entries' # {} /\ pc' = "loop" /\ pc = "made" /\ announced' = announced
      BY <2>6 DEF AddTX, MakeEntry
    <3>2. total' # 0 /\ total' < Limit
      BY <1>0, <2>6 DEF AddTX, MakeEntry, NextOverflows, Filling, NeverFull, IsFull
    <3> QED
      BY <1>0, <2>1, <3>1, <3>2 DEF Filling, NeverFull
  <2>7. CASE ShowLast
    <3>1. pc = "loop" => ~(max > 0)
      BY <1>0, <2>7 DEF ShowLast, IsFull, Filling, NeverFull
    <3> QED
      BY <1>0, <2>1, <2>7, <3>1 DEF ShowLast, Filling, NeverFull, NextOverflows
  <2>8. CASE Ended
    BY <1>1, <2>8 DEF Ended, vars, Filling, NeverFull, IsFull, Limit, NextOverflows
  <2> QED
    BY <1>2, <2>2, <2>3, <2>4, <2>5, <2>6, <2>7, <2>8 DEF Next
<1> QED
  BY <1>1, <1>2

\* ... of whose operations nSigOps holds, ...
LEMMA NextOwnOps ==
  ASSUME TypeOK, OwnOps, [Next]_vars
  PROVE  OwnOps'
<1> USE DEF inputs
<1>0. tx.ins \in Nat /\ tx.outs \in Nat
  BY MemPoolAssumption DEF TypeOK
<1>1. tx' = tx
  BY DEF Next, Example, Start, BeginRound, NewTX, BreakFull, AddTX, ShowLast, Ended, vars
<1>2. CASE NewTX
  <2>1. nSigOps' = tx.ins + tx.outs
    BY <1>0, <1>2 DEF NewTX, AddSigOps, OwnOps
  <2>2. pc' # "newtx" /\ entries' = entries
    BY <1>2 DEF NewTX, AfterFailure
  <2> QED
    BY <1>1, <2>1, <2>2 DEF OwnOps, EntryExact
<1>3. CASE AddTX
  <2>1. nSigOps = tx.ins + tx.outs /\ pc' = "loop"
    BY <1>3 DEF AddTX, MakeEntry, OwnOps, EntryExact
  <2>2. entries' = IF entries = {} THEN {nSigOps} ELSE entries
    BY <1>3 DEF AddTX
  <2> QED
    BY <1>1, <2>1, <2>2 DEF OwnOps, EntryExact
<1>4. CASE ~(NewTX \/ AddTX)
  <2>1. /\ entries' = entries /\ (pc' = "newtx" => nSigOps' = 0 \/ (pc = "newtx" /\ nSigOps' = nSigOps))
        /\ pc' = "made" => pc = "made" /\ nSigOps' = nSigOps
    BY <1>4 DEF Next, Example, Start, BeginRound, Reset, BreakFull, ShowLast, Ended, vars
  <2> QED
    BY <1>1, <2>1 DEF OwnOps, EntryExact
<1> QED
  BY <1>2, <1>3, <1>4

\* ... or of the bytes that have not been shown.
LEMMA NextLag ==
  ASSUME TypeOK, TypeOK', Filling, Lag, [Next]_vars
  PROVE  Lag'
<1> USE DEF inputs
<1>0. /\ tx.size \in Nat \ {0} /\ total \in Nat /\ size \in Nat /\ shown \in Int
      /\ max * Tenth \in Int
  BY LimitSign, MemPoolAssumption DEF TypeOK
<1>1. CASE Example
  BY <1>1 DEF Example, Lag
<1>2. CASE Start
  BY <1>0, <1>2 DEF Start, Lag, Filling
<1>3. CASE BeginRound \/ NewTX
  <2>1. /\ pc \in {"loop", "newtx"}
        /\ UNCHANGED <<max, tx, total, shown, size>>
    BY <1>3 DEF BeginRound, NewTX
  <2> QED
    BY <2>1 DEF Lag
<1>4. CASE BreakFull
  BY <1>4 DEF BreakFull, Lag
<1>5. CASE AddTX
  <2>1. /\ pc = "made" /\ pc' = "loop" /\ UNCHANGED <<max, tx>>
        /\ total' = total + tx.size \/ total' = total
    BY <1>5 DEF AddTX, MakeEntry
  <2>2. CASE Due(size + tx.size)
    <3>1. size' = 0 /\ shown' = total
      BY <1>5, <2>2 DEF AddTX
    <3> QED
      BY <1>0, <2>1, <3>1 DEF Lag
  <2>3. CASE ~Due(size + tx.size)
    <3>1. size' = size + tx.size /\ shown' = shown
      BY <1>5, <2>3 DEF AddTX
    <3> QED
      BY <1>0, <2>1, <2>3, <3>1 DEF Lag, Due
  <2> QED
    BY <2>2, <2>3
<1>6. CASE ShowLast
  BY <1>6 DEF ShowLast, Lag
<1>7. CASE UNCHANGED vars
  BY <1>7 DEF vars, Lag
<1> QED
  BY <1>1, <1>2, <1>3, <1>4, <1>5, <1>6, <1>7 DEF Next, Ended

\* All of the above, for every state of the command.
THEOREM FillingAlways == Spec => [](TypeOK /\ Filling /\ OwnOps /\ Lag)
<1>1. /\ TypeOK /\ TypeOK' /\ Filling /\ OwnOps /\ Lag /\ [Next]_vars
      => (Filling /\ OwnOps /\ Lag)'
  BY NextFilling, NextOwnOps, NextLag
<1> QED
  BY <1>1, InitFilling, TypeCorrect, PTL DEF Spec

\* Whatever the limit, the pool never reaches it.
THEOREM NeverFullHolds == Spec => []NeverFull
<1>1. Filling => NeverFull
  BY DEF Filling
<1> QED
  BY <1>1, FillingAlways, PTL

\* A command that returns has filled the pool to within one transaction, and
\* said so, or there was no room for a byte.
THEOREM EndsFullHolds == Spec => []EndsFull
<1>1. TypeOK /\ Filling => EndsFull
  <2> SUFFICES ASSUME TypeOK, Filling, pc = "end", argument # "none"
               PROVE  EndsFull
    BY DEF EndsFull
  <2>1. /\ tx.size \in Nat \ {0} /\ total \in Nat /\ Limit \in Int /\ max \in Int
        /\ max > 0 => Limit > 0
        /\ max <= 0 => Limit <= 0
    BY LimitSign, MemPoolAssumption DEF TypeOK
  <2>2. CASE max > 0
    <3>1. announced /\ total + tx.size >= Limit
      BY <2>1, <2>2 DEF Filling, NextOverflows
    <3>2. total < Limit
      BY <2>1, <2>2 DEF Filling, NeverFull
    <3> QED
      BY <2>2, <3>1, <3>2 DEF EndsFull
  <2>3. CASE ~(max > 0)
    <3>1. total = 0 /\ entries = {}
      BY <2>1, <2>3 DEF Filling, NeverFull
    <3>2. ~announced
      BY <2>3 DEF Filling
    <3> QED
      BY <2>3, <3>1, <3>2 DEF EndsFull
  <2> QED
    BY <2>2, <2>3
<1> QED
  BY <1>1, FillingAlways, PTL

\* Every entry is made with the signature operations of its own transaction,
\* whatever the rounds before it left in nSigOps.
THEOREM EntriesExact == Spec => []EntryExact
<1>1. OwnOps => EntryExact
  BY DEF OwnOps
<1> QED
  BY <1>1, FillingAlways, PTL

\* Who watches the pool fill is at most a tenth and one transaction behind.
THEOREM ShownSoonEnough == Spec => []ShownInTime
<1>1. TypeOK /\ Filling /\ Lag => ShownInTime
  <2> SUFFICES ASSUME TypeOK, Filling, Lag, pc \in {"loop", "newtx", "made"}, total # shown
               PROVE  total - shown <= max * Tenth + tx.size
    BY DEF ShownInTime
  <2>1. /\ tx.size \in Nat /\ total \in Nat /\ size \in Nat /\ shown \in Int
        /\ max * Tenth \in Int /\ Limit \in Int
    BY LimitSign, MemPoolAssumption DEF TypeOK
  <2>2. /\ total - shown <= size + tx.size /\ total # 0
        /\ size = 0 \/ size <= max * Tenth
    BY <2>1 DEF Lag
  <2>3. max \in Int /\ max > 0
    BY <2>1, <2>2, LimitSign, MemPoolAssumption DEF TypeOK, Filling, NeverFull
  <2>4. max * Tenth >= 0
    BY <2>3, MemPoolAssumption
  <2> QED
    BY <2>1, <2>2, <2>4
<1> QED
  BY <1>1, FillingAlways, PTL
-----------------------------------------------------------------------------
(***************************************************************************)
(* When the loop ends: the condition under which it does, and that it is   *)
(* necessary.                                                              *)
(***************************************************************************)
\* A transaction that does not decode is never added, and a pool that does not
\* grow holds one transaction at most.
Kept ==
  /\ ~decodes => total = 0
  /\ ~grows => total \in {0, tx.size}

\* A step keeps what is known of the pool and of the end.
LEMMA NextKept ==
  ASSUME TypeOK, Filling, Kept, EndsOnlyIf, pc = "full" => LoopEnds, [Next]_vars
  PROVE  Kept' /\ EndsOnlyIf' /\ (pc = "full" => LoopEnds)'
<1> USE DEF inputs
<1>0. /\ tx.size \in Nat \ {0} /\ total \in Nat /\ max \in Int
      /\ Limit \in Int /\ (max > 0 => Limit > 0) /\ (max <= 0 => Limit <= 0)
  BY LimitSign, MemPoolAssumption DEF TypeOK
<1>1. CASE UNCHANGED vars
  BY <1>1 DEF vars, Kept, EndsOnlyIf, LoopEnds, Limit
<1>2. CASE Next
  <2>1. UNCHANGED inputs /\ Limit' = Limit /\ (LoopEnds' <=> LoopEnds)
    BY <1>2 DEF Next, Example, Start, BeginRound, NewTX, BreakFull, AddTX, ShowLast, Ended,
                vars, Limit, LoopEnds
  <2>2. CASE Example
    BY <2>2 DEF Example, Kept, EndsOnlyIf
  <2>3. CASE Start \/ BeginRound \/ NewTX
    BY <2>3 DEF Start, BeginRound, NewTX, AfterFailure, Kept, EndsOnlyIf
  <2>4. CASE BreakFull
    <3>1. decodes /\ tx.size + total >= Limit /\ pc' = "full" /\ total' = total
      BY <2>4 DEF BreakFull, MakeEntry, NextOverflows, Filling
    <3>2. LoopEnds
      BY <1>0, <3>1 DEF Kept, LoopEnds
    <3> QED
      BY <2>1, <3>1, <3>2 DEF Kept, EndsOnlyIf
  <2>5. CASE AddTX
    <3>1. decodes /\ pc' = "loop"
      BY <2>5 DEF AddTX, MakeEntry, Filling
    <3>2. ~grows => total' = IF total = 0 THEN tx.size ELSE total
      BY <1>0, <2>5 DEF AddTX, Filling
    <3> QED
      BY <2>1, <3>1, <3>2 DEF Kept, EndsOnlyIf
  <2>6. CASE ShowLast
    <3>1. pc = "loop" => max <= 0
      BY <1>0, <2>6 DEF ShowLast, IsFull, Filling, NeverFull
    <3>2. LoopEnds /\ total' = total /\ pc' = "end"
      BY <2>6, <3>1 DEF ShowLast, LoopEnds
    <3> QED
      BY <2>1, <3>2 DEF Kept, EndsOnlyIf
  <2>7. CASE Ended
    BY <1>1, <2>7 DEF Ended
  <2> QED
    BY <1>2, <2>2, <2>3, <2>4, <2>5, <2>6, <2>7 DEF Next
<1> QED
  BY <1>1, <1>2

\* Kept and what EndsOnlyIf rests on are invariants.
LEMMA KeptAlways == Spec => [](Kept /\ EndsOnlyIf)
<1> DEFINE Last == pc = "full" => LoopEnds
<1>1. Init => Kept /\ EndsOnlyIf /\ Last
  BY DEF Init, Kept, EndsOnlyIf
<1>2. TypeOK /\ Filling /\ Kept /\ EndsOnlyIf /\ Last /\ [Next]_vars => (Kept /\ EndsOnlyIf /\ Last)'
  BY NextKept
<1> HIDE DEF Last
<1> QED
  BY <1>1, <1>2, FillingAlways, PTL DEF Spec

\* A transaction that does not decode, or one the pool does not grow by and
\* two of which do not fill it, keeps the command running for ever.
THEOREM EndsOnlyIfHolds == Spec => []EndsOnlyIf
<1> QED
  BY KeptAlways, PTL

\* A bound on the steps the command has left where the loop ends.
StepsLeft ==
  LET room == IF Limit > total THEN Limit - total ELSE 0 IN
  CASE pc = "called" -> 3 * room + 5 [] pc = "loop" -> 3 * room + 4
    [] pc = "newtx" -> 3 * room + 3 [] pc = "made" -> 3 * room + 2
    [] pc = "full" -> 1 [] OTHER -> 0

\* Where nothing is against it every step brings the end of the command nearer.
FillsUp == [][LoopEnds => StepsLeft \in Nat /\ StepsLeft' \in Nat /\ StepsLeft' < StepsLeft]_vars

\* The step relation behind FillsUp, for a step that is no stutter.
LEMMA FillingStep ==
  ASSUME TypeOK, TypeOK', Filling, Kept, Next, vars' # vars, LoopEnds
  PROVE  StepsLeft \in Nat /\ StepsLeft' \in Nat /\ StepsLeft' < StepsLeft
<1> USE DEF inputs
<1> DEFINE room == IF Limit > total THEN Limit - total ELSE 0
<1>0. /\ tx.size \in Nat \ {0} /\ total \in Nat /\ total' \in Nat /\ max \in Int
      /\ Limit \in Int /\ (max <= 0 => Limit <= 0)
  BY LimitSign, MemPoolAssumption DEF TypeOK
<1>1. Limit' = Limit /\ UNCHANGED <<max, tx, grows>>
  BY DEF Next, Example, Start, BeginRound, NewTX, BreakFull, AddTX, ShowLast, Ended, Limit
<1>2. /\ StepsLeft = CASE pc = "called" -> 3 * room + 5 [] pc = "loop" -> 3 * room + 4
                       [] pc = "newtx" -> 3 * room + 3 [] pc = "made" -> 3 * room + 2
                       [] pc = "full" -> 1 [] OTHER -> 0
      /\ StepsLeft' = CASE pc' = "called" -> 3 * room' + 5 [] pc' = "loop" -> 3 * room' + 4
                        [] pc' = "newtx" -> 3 * room' + 3 [] pc' = "made" -> 3 * room' + 2
                        [] pc' = "full" -> 1 [] OTHER -> 0
  BY DEF StepsLeft
<1>3. room \in Nat /\ room' \in Nat /\ (total' = total => room' = room)
  <2>1. room' = IF Limit > total' THEN Limit - total' ELSE 0
    BY <1>1
  <2> QED
    BY <1>0, <2>1
<1>4. CASE AddTX
  <2>1. pc = "made" /\ pc' = "loop" /\ tx.size + total < Limit
    BY <1>0, <1>4 DEF AddTX, MakeEntry, NextOverflows
  <2>2. grows \/ total = 0
    BY <1>0, <2>1 DEF LoopEnds, Kept
  <2>3. total' = total + tx.size
    BY <1>4, <2>2 DEF AddTX, Filling
  <2>4. room' < room
    BY <1>0, <1>1, <2>1, <2>3
  <2> HIDE DEF room
  <2> QED
    BY <1>2, <1>3, <2>1, <2>4
<1>5. CASE ~AddTX
  <2>1. pc = "newtx" => decodes
    BY <1>0 DEF Filling, IsFull, LoopEnds
  <2>2. /\ \/ pc = "called" /\ pc' \in {"loop", "end"}
           \/ pc = "loop" /\ pc' \in {"newtx", "end"}
           \/ pc = "newtx" /\ pc' = "made"
           \/ pc = "made" /\ pc' = "full"
           \/ pc = "full" /\ pc' = "end"
        /\ total' = total
    BY <1>5, <2>1 DEF Next, Example, Start, BeginRound, NewTX, BreakFull, MakeEntry, ShowLast, Ended
  <2> HIDE DEF room
  <2> QED
    BY <1>2, <1>3, <2>2
<1> QED
  BY <1>4, <1>5

\* Unless NewTX fails for ever or the pool does not grow, the command returns
\* within StepsLeft steps.
THEOREM FillsUpHolds == Spec => FillsUp
<1> DEFINE A == LoopEnds => StepsLeft \in Nat /\ StepsLeft' \in Nat /\ StepsLeft' < StepsLeft
<1>1. TypeOK /\ TypeOK' /\ Filling /\ Kept /\ [Next]_vars => [A]_vars
  <2> SUFFICES ASSUME TypeOK, TypeOK', Filling, Kept, Next, vars' # vars, LoopEnds PROVE A
    OBVIOUS
  <2> QED
    BY FillingStep
<1>2. FillsUp <=> [][A]_vars
  BY DEF FillsUp
<1> HIDE DEF A
<1> QED
  BY FillingAlways, KeptAlways, <1>1, <1>2, PTL DEF Spec
=============================================================================
