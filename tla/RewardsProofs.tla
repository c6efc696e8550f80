---------------------------- MODULE RewardsProofs ----------------------------
(***************************************************************************)
(* What holds of the reward tables for every coin, every payout and every  *)
(* range of the int, proved.                                               *)
(***************************************************************************)
EXTENDS Rewards, SequenceTheorems, TLAPS

(***************************************************************************)
(* Facts about \div and % on the naturals.                                 *)
(***************************************************************************)
\* Euclidean division: quotient and remainder recompose the dividend.
LEMMA DivMod ==
  ASSUME NEW a \in Nat, NEW b \in Nat \ {0}
  PROVE  /\ a \div b \in Nat /\ a % b \in 0 .. b - 1
         /\ a = b * (a \div b) + (a % b)
  BY SMT

\* ... and are the only ones that do.
LEMMA QuotUnique ==
  ASSUME NEW b \in Nat \ {0}, NEW q \in Nat, NEW r \in 0 .. b - 1
  PROVE  /\ (q * b + r) \div b = q
         /\ (q * b + r) % b = r
  BY SMT

\* A number below the divisor is its own remainder.
LEMMA SmallMod ==
  ASSUME NEW b \in Nat \ {0}, NEW r \in 0 .. b - 1
  PROVE  r % b = r
  BY SMT

\* The quotient of a sum of four exceeds the sum of their quotients by three at
\* most.
LEMMA FourRemainders ==
  ASSUME NEW n \in Nat \ {0}, NEW a \in Nat, NEW b \in Nat, NEW c \in Nat, NEW d \in Nat
  PROVE  /\ (a + b + c + d) \div n \in Nat
         /\ ((a + b + c + d) \div n) - ((a \div n) + (b \div n) + (c \div n) + (d \div n)) \in 0 .. 3
<1> DEFINE q == (a \div n) + (b \div n) + (c \div n) + (d \div n)
           r == (a % n) + (b % n) + (c % n) + (d % n)
<1>1. /\ a \div n \in Nat /\ b \div n \in Nat /\ c \div n \in Nat /\ d \div n \in Nat
      /\ a % n \in 0 .. n - 1 /\ b % n \in 0 .. n - 1
      /\ c % n \in 0 .. n - 1 /\ d % n \in 0 .. n - 1
  BY DivMod
<1>2. /\ a = n * (a \div n) + (a % n) /\ b = n * (b \div n) + (b % n)
      /\ c = n * (c \div n) + (c % n) /\ d = n * (d \div n) + (d % n)
  BY DivMod
<1>3. q \in Nat /\ r \in 0 .. 4 * n - 4
  BY <1>1
<1>4. a + b + c + d = n * q + r
  <2>1. n * q = n * (a \div n) + n * (b \div n) + n * (c \div n) + n * (d \div n)
    BY <1>1
  <2> QED
    BY <1>1, <1>2, <2>1
<1> HIDE DEF q, r
<1>5. PICK k \in 0 .. 3 : r - k * n \in 0 .. n - 1
  <2>1. \/ r - 0 * n \in 0 .. n - 1 \/ r - 1 * n \in 0 .. n - 1
        \/ r - 2 * n \in 0 .. n - 1 \/ r - 3 * n \in 0 .. n - 1
    BY <1>3
  <2> QED
    BY <2>1
<1>6. a + b + c + d = (q + k) * n + (r - k * n)
  <2>1. (q + k) * n = n * q + k * n
    BY <1>3
  <2>2. k * n \in Nat /\ n * q \in Nat
    BY <1>3
  <2> QED
    BY <1>3, <1>4, <2>1, <2>2
<1>7. (a + b + c + d) \div n = q + k
  <2>1. q + k \in Nat
    BY <1>3
  <2> QED
    BY <1>5, <1>6, <2>1, QuotUnique
<1>8. q + k \in Nat /\ (q + k) - q \in 0 .. 3
  BY <1>3
<1> QED
  BY <1>7, <1>8 DEF q
-----------------------------------------------------------------------------
\* The units a cell stands for.
Worth(r) == r.coin * COIN + r.small

\* A cell of a row: its remainder is a coin at most.
RowCell(r) == r \in Cells /\ r.small <= COIN

\* The units of a cell are a natural number.
LEMMA WorthNat ==
  ASSUME NEW r \in Cells
  PROVE  Worth(r) \in Nat
<1>1. r.coin \in Nat /\ r.small \in Nat /\ COIN \in Nat
  BY RewardsAssumption DEF Cells
<1>2. r.coin * COIN \in Nat
  BY <1>1
<1> QED
  BY <1>1, <1>2 DEF Worth

\* AddReward neither loses nor makes a unit, carry or not.
LEMMA AddRewardExact ==
  ASSUME NEW v \in Nat, NEW r \in Cells
  PROVE  /\ AddReward(v, r) \in Cells
         /\ Worth(AddReward(v, r)) = Worth(r) + v
         /\ r.small <= COIN => AddReward(v, r).small <= COIN
<1> DEFINE coin == r.coin + (v \div COIN)
           small == r.small + (v % COIN)
<1>0. COIN \in Nat \ {0} /\ r.coin \in Nat /\ r.small \in Nat
  BY RewardsAssumption DEF Cells
<1>1. v \div COIN \in Nat /\ v % COIN \in 0 .. COIN - 1 /\ v = COIN * (v \div COIN) + (v % COIN)
  BY <1>0, DivMod
<1>2. coin \in Nat /\ small \in Nat /\ coin * COIN + small = Worth(r) + v
  <2>1. coin \in Nat /\ small \in Nat
    BY <1>0, <1>1
  <2>2. \A q \in Nat : (r.coin + q) * COIN = r.coin * COIN + COIN * q /\ COIN * q \in Nat
    BY <1>0
  <2>3. coin * COIN = r.coin * COIN + COIN * (v \div COIN)
    BY <1>1, <2>2
  <2>4. Worth(r) = r.coin * COIN + r.small /\ r.coin * COIN \in Nat
    BY <1>0 DEF Worth
  <2> QED
    BY <1>0, <1>1, <2>1, <2>2, <2>3, <2>4
<1>3. r.small <= COIN => small <= 2 * COIN - 1
  BY <1>0, <1>1
<1>4. /\ small \div COIN \in Nat /\ small % COIN \in 0 .. COIN - 1
      /\ small = COIN * (small \div COIN) + (small % COIN)
  BY <1>0, <1>2, DivMod
<1>5. AddReward(v, r) = IF small > COIN
                        THEN [coin |-> coin + (small \div COIN), small |-> small % COIN]
                        ELSE [coin |-> coin, small |-> small]
  BY DEF AddReward
<1> HIDE DEF coin, small
<1>6. CASE small > COIN
  <2>1. /\ AddReward(v, r).coin = coin + (small \div COIN)
        /\ AddReward(v, r).small = small % COIN
        /\ AddReward(v, r) = [coin |-> coin + (small \div COIN), small |-> small % COIN]
    BY <1>5, <1>6
  <2>2. (coin + (small \div COIN)) * COIN + (small % COIN) = coin * COIN + small
    BY <1>0, <1>2, <1>4
  <2>3. AddReward(v, r) \in Cells
    BY <1>0, <1>2, <1>4, <2>1 DEF Cells
  <2>4. Worth(AddReward(v, r)) = Worth(r) + v
    BY <1>2, <2>1, <2>2 DEF Worth
  <2> QED
    BY <1>0, <1>4, <2>1, <2>3, <2>4
<1>7. CASE ~(small > COIN)
  <2>1. /\ AddReward(v, r) = [coin |-> coin, small |-> small]
        /\ AddReward(v, r).coin = coin /\ AddReward(v, r).small = small
    BY <1>5, <1>7
  <2>2. small <= COIN
    BY <1>0, <1>2, <1>7
  <2> QED
    BY <1>2, <2>1, <2>2 DEF Cells, Worth
<1> QED
  BY <1>6, <1>7

\* A column of a row is short by a coin at most, and only of whole coins.
LEMMA CoinsShown ==
  ASSUME NEW r, RowCell(r)
  PROVE  r.coin # Worth(r) \div COIN =>
           r.coin + 1 = Worth(r) \div COIN /\ Worth(r) % COIN = 0
<1>0. COIN \in Nat \ {0} /\ r.coin \in Nat /\ r.small \in Nat /\ r.small <= COIN
  BY RewardsAssumption DEF Cells, RowCell
<1>1. CASE r.small < COIN
  <2>1. r.small \in 0 .. COIN - 1
    BY <1>0, <1>1
  <2> QED
    BY <1>0, <2>1, QuotUnique DEF Worth
<1>2. CASE r.small = COIN
  <2>1. Worth(r) = (r.coin + 1) * COIN + 0 /\ r.coin + 1 \in Nat /\ 0 \in 0 .. COIN - 1
    BY <1>0, <1>2 DEF Worth
  <2> QED
    BY <1>0, <2>1, QuotUnique
<1> QED
  BY <1>0, <1>1, <1>2

\* The last column of a row or of the total shows the whole coins of all of
\* its columns, whatever their remainders.
LEMMA BlockColumnWorth ==
  ASSUME NEW r \in [Column -> Cells]
  PROVE  /\ SumCoins(r) \in Nat /\ SumSmalls(r) \in Nat
         /\ BlockColumn(r) = (SumCoins(r) * COIN + SumSmalls(r)) \div COIN
         /\ BlockColumn(r) \in Nat
<1>1. COIN \in Nat \ {0} /\ SumCoins(r) \in Nat /\ SumSmalls(r) \in Nat
  <2>1. \A c \in Column : r[c].coin \in Nat /\ r[c].small \in Nat
    BY DEF Cells
  <2>2. SumCoins(r) \in Nat
    BY <2>1 DEF SumCoins, Column
  <2>3. SumSmalls(r) \in Nat
    BY <2>1 DEF SumSmalls, Column
  <2> QED
    BY <2>2, <2>3, RewardsAssumption
<1> DEFINE c == SumCoins(r)  s == SumSmalls(r)
<1>2. /\ s \div COIN \in Nat /\ s % COIN \in 0 .. COIN - 1
      /\ s = COIN * (s \div COIN) + (s % COIN)
  BY <1>1, DivMod
<1>3. BlockColumn(r) = c + (s \div COIN)
  <2>1. ~(0 + (s % COIN) > COIN)
    BY <1>1, <1>2
  <2>2. AddReward(s, [coin |-> c, small |-> 0]) =
          [coin |-> c + (s \div COIN), small |-> 0 + (s % COIN)]
    BY <2>1 DEF AddReward
  <2> QED
    BY <2>2 DEF BlockColumn
<1> HIDE DEF c, s
<1>4. c \in Nat /\ s \in Nat
  BY <1>1 DEF c, s
<1>5. c * COIN + s = (c + (s \div COIN)) * COIN + (s % COIN) /\ c + (s \div COIN) \in Nat
  BY <1>1, <1>2, <1>4
<1>6. (c * COIN + s) \div COIN = c + (s \div COIN)
  <2>1. \A q \in Nat, t \in 0 .. COIN - 1 : (q * COIN + t) \div COIN = q
    BY <1>1, QuotUnique
  <2> QED
    BY <1>2, <1>5, <2>1
<1> QED
  BY <1>1, <1>3, <1>5, <1>6 DEF c, s

\* The cells of a row together are worth its coins and its remainders.
LEMMA RowWorth ==
  ASSUME NEW r \in [Column -> Cells]
  PROVE  SumCoins(r) * COIN + SumSmalls(r) =
           Worth(r["miner"]) + Worth(r["budget"]) + Worth(r["masternode"]) + Worth(r["founders"])
<1>1. /\ COIN \in Nat
      /\ \A c \in Column : r[c].coin \in Nat /\ r[c].small \in Nat
  BY RewardsAssumption DEF Cells
<1> QED
  BY <1>1 DEF Worth, SumCoins, SumSmalls, Column
-----------------------------------------------------------------------------
\* The columns that a height adds to, and what it adds to them.
LEMMA CreditColumns ==
  ASSUME NEW r \in [Column -> Cells], NEW n \in Int, NEW p \in [Column -> Nat]
  PROVE  LET q == Credit(r, n, p)
             f == IF n = 1 THEN AddReward(p["miner"], r["founders"]) ELSE r["founders"]
         IN  /\ DOMAIN q = Column
             /\ q["miner"] = IF n = 1 THEN r["miner"] ELSE AddReward(p["miner"], r["miner"])
             /\ q["masternode"] = AddReward(p["masternode"], r["masternode"])
             /\ q["founders"] = IF n \in Superblock THEN AddReward(p["founders"], f) ELSE f
             /\ q["budget"] = IF n \in Superblock /\ ~(n < StartBlock)
                              THEN AddReward(p["budget"], r["budget"]) ELSE r["budget"]
<1>1. CASE n = 1
  BY <1>1 DEF Credit, Column
<1>2. CASE n # 1
  BY <1>2 DEF Credit, Column
<1> QED
  BY <1>1, <1>2

\* What blockreward shows of a height and what its columns get is the same.
LEMMA PaysColumns ==
  ASSUME NEW n \in Int, NEW p \in [Column -> Nat]
  PROVE  LET q == Pays(n, p)
             f == IF n \in Superblock THEN p["founders"] ELSE 0
         IN  /\ q \in [Column -> Nat]
             /\ q["miner"] = IF n = 1 THEN 0 ELSE p["miner"]
             /\ q["masternode"] = p["masternode"]
             /\ q["founders"] = IF n = 1 THEN f + p["miner"] ELSE f
             /\ q["budget"] = IF n \in Superblock /\ ~(n < StartBlock) THEN p["budget"] ELSE 0
             /\ BlockSum(BlockReward(n, p)) =
                  q["miner"] + q["budget"] + q["masternode"] + q["founders"]
<1> DEFINE b == BlockReward(n, p)
<1>0. StartBlock \in Int /\ (n >= StartBlock <=> ~(n < StartBlock))
  BY RewardsAssumption
<1>1. /\ b \in [Column -> Nat] /\ b["miner"] = p["miner"] /\ b["masternode"] = p["masternode"]
      /\ b["founders"] = IF n \in Superblock THEN p["founders"] ELSE 0
      /\ b["budget"] = IF n \in Superblock /\ ~(n < StartBlock) THEN p["budget"] ELSE 0
  BY <1>0 DEF BlockReward, Column
<1>2. Pays(n, p) = IF n = 1 THEN [b EXCEPT !["founders"] = @ + p["miner"], !["miner"] = 0] ELSE b
  BY DEF Pays
<1>3. BlockSum(BlockReward(n, p)) = b["budget"] + b["founders"] + b["miner"] + b["masternode"]
  BY DEF BlockSum
<1> HIDE DEF b
<1>4. \A c \in Column : b[c] \in Nat /\ p[c] \in Nat
  BY <1>1
<1>5. CASE n = 1
  BY <1>1, <1>2, <1>3, <1>4, <1>5 DEF Column
<1>6. CASE n # 1
  BY <1>1, <1>2, <1>3, <1>4, <1>6 DEF Column
<1> QED
  BY <1>5, <1>6

\* A round of the inner loop adds to each column what the height pays to it.
LEMMA CreditExact ==
  ASSUME NEW r \in [Column -> Cells], NEW n \in Int, NEW p \in [Column -> Nat],
         \A c \in Column : RowCell(r[c])
  PROVE  LET q == Credit(r, n, p)
         IN  /\ q \in [Column -> Cells]
             /\ \A c \in Column : RowCell(q[c]) /\ Worth(q[c]) = Worth(r[c]) + Pays(n, p)[c]
<1> DEFINE q == Credit(r, n, p)
           f == IF n = 1 THEN AddReward(p["miner"], r["founders"]) ELSE r["founders"]
           Adds(a, b, v) == RowCell(a) /\ Worth(a) = Worth(b) + v
<1>1. \A c \in Column : p[c] \in Nat /\ r[c] \in Cells /\ Worth(r[c]) \in Nat /\ RowCell(r[c])
  BY WorthNat
<1>2. \A a : \A v \in Nat : RowCell(a) => Adds(AddReward(v, a), a, v)
  BY AddRewardExact DEF RowCell
<1>3. \A a : RowCell(a) => Adds(a, a, 0)
  BY WorthNat DEF RowCell
<1>4. Adds(q["miner"], r["miner"], IF n = 1 THEN 0 ELSE p["miner"])
  <2>1. "miner" \in Column
    BY DEF Column
  <2>2. CASE n = 1
    BY <1>1, <1>3, <2>1, <2>2, CreditColumns
  <2>3. CASE n # 1
    <3>1. q["miner"] = AddReward(p["miner"], r["miner"])
      BY <2>3, CreditColumns
    <3>2. Adds(AddReward(p["miner"], r["miner"]), r["miner"], p["miner"])
      BY <1>1, <1>2, <2>1
    <3> QED
      BY <2>3, <3>1, <3>2
  <2> QED
    BY <2>2, <2>3
<1>5. Adds(q["masternode"], r["masternode"], p["masternode"])
  BY <1>1, <1>2, CreditColumns DEF Column
<1>6. Adds(q["budget"], r["budget"],
           IF n \in Superblock /\ ~(n < StartBlock) THEN p["budget"] ELSE 0)
  <2>1. "budget" \in Column
    BY DEF Column
  <2>2. CASE n \in Superblock /\ ~(n < StartBlock)
    BY <1>1, <1>2, <2>1, <2>2, CreditColumns
  <2>3. CASE ~(n \in Superblock /\ ~(n < StartBlock))
    BY <1>1, <1>3, <2>1, <2>3, CreditColumns
  <2> QED
    BY <2>2, <2>3
<1>7. Adds(f, r["founders"], IF n = 1 THEN p["miner"] ELSE 0)
  <2>1. "miner" \in Column /\ "founders" \in Column
    BY DEF Column
  <2>2. CASE n = 1
    BY <1>1, <1>2, <2>1, <2>2
  <2>3. CASE n # 1
    BY <1>1, <1>3, <2>1, <2>3
  <2> QED
    BY <2>2, <2>3
<1>8. Adds(q["founders"], f, IF n \in Superblock THEN p["founders"] ELSE 0)
  <2>1. "founders" \in Column
    BY DEF Column
  <2>2. CASE n \in Superblock
    BY <1>1, <1>2, <1>7, <2>1, <2>2, CreditColumns
  <2>3. CASE n \notin Superblock
    BY <1>3, <1>7, <2>3, CreditColumns
  <2> QED
    BY <2>2, <2>3
<1>9. \A c \in Column : RowCell(q[c]) /\ Worth(q[c]) = Worth(r[c]) + Pays(n, p)[c]
  <2>1. Worth(q["founders"]) = Worth(r["founders"]) + Pays(n, p)["founders"]
    <3>1. Worth(r["founders"]) \in Nat /\ p["miner"] \in Nat /\ p["founders"] \in Nat
      BY <1>1 DEF Column
    <3>2. CASE n = 1
      BY <1>7, <1>8, <3>1, <3>2, PaysColumns
    <3>3. CASE n # 1
      BY <1>7, <1>8, <3>1, <3>3, PaysColumns
    <3> QED
      BY <3>2, <3>3
  <2>2. \A c \in Column : c \in {"miner", "budget", "masternode", "founders"}
    BY DEF Column
  <2>3. Worth(q["miner"]) = Worth(r["miner"]) + Pays(n, p)["miner"]
    BY <1>4, PaysColumns
  <2>4. Worth(q["masternode"]) = Worth(r["masternode"]) + Pays(n, p)["masternode"]
    BY <1>5, PaysColumns
  <2>5. Worth(q["budget"]) = Worth(r["budget"]) + Pays(n, p)["budget"]
    BY <1>6, PaysColumns
  <2>6. RowCell(q["miner"]) /\ RowCell(q["masternode"]) /\ RowCell(q["budget"])
          /\ RowCell(q["founders"])
    BY <1>4, <1>5, <1>6, <1>8
  <2> HIDE DEF q, Adds, f
  <2> QED
    BY <2>1, <2>2, <2>3, <2>4, <2>5, <2>6
<1>10. q \in [Column -> Cells]
  <2>1. DOMAIN q = Column /\ \A c \in Column : q[c] \in Cells
    BY <1>9, CreditColumns DEF RowCell
  <2>2. q = [c \in Column |-> q[c]]
    <3>1. Credit(r, n, p) = [c \in Column |-> Credit(r, n, p)[c]]
      <4>1. CASE n = 1
        BY <4>1 DEF Credit, Column
      <4>2. CASE n # 1
        BY <4>2 DEF Credit, Column
      <4> QED
        BY <4>1, <4>2
    <3> QED
      BY <3>1
  <2> QED
    BY <2>1, <2>2
<1> QED
  BY <1>9, <1>10
-----------------------------------------------------------------------------
\* An int that has room for a result keeps it.
LEMMA AsIntFits ==
  ASSUME NEW n \in -(IntMax + 1) .. IntMax
  PROVE  AsInt(n) = n
<1>1. /\ IntMax \in Nat /\ n \in Int /\ n + IntMax + 1 \in 0 .. 2 * (IntMax + 1) - 1
      /\ 2 * (IntMax + 1) \in Nat \ {0}
  BY RewardsAssumption
<1>2. (n + IntMax + 1) % (2 * (IntMax + 1)) = n + IntMax + 1
  BY <1>1, SmallMod
<1> QED
  BY <1>1, <1>2 DEF AsInt

\* AsInt makes an integer of every integer.
LEMMA AsIntInt ==
  ASSUME NEW n \in Int
  PROVE  AsInt(n) \in Int
<1>1. IntMax \in Nat /\ 2 * (IntMax + 1) \in Nat \ {0} /\ n + IntMax + 1 \in Int
  BY RewardsAssumption
<1>2. \A a \in Int, b \in Nat \ {0} : a % b \in Int
  OBVIOUS
<1>3. (n + IntMax + 1) % (2 * (IntMax + 1)) \in Int
  BY <1>1, <1>2
<1> QED
  BY <1>1, <1>3 DEF AsInt

\* The heights of a row are integers.
LEMMA HeightsInt ==
  ASSUME TypeOK, NEW n \in Int
  PROVE  Low(n) \in Int /\ High(n) \in Int /\ AsInt(High(n) - 1) \in Int
<1>1. call.years \in Int /\ YearBlocks \in Nat
  BY RewardsAssumption DEF TypeOK, Table
<1>2. (n - 1) * YearBlocks * call.years \in Int /\ n * YearBlocks * call.years \in Int
  BY <1>1
<1>3. Low(n) \in Int /\ High(n) \in Int
  BY <1>2, AsIntInt DEF Low, High
<1> QED
  BY <1>3, AsIntInt

\* The variables keep their types.
THEOREM TypeCorrect == Spec => []TypeOK
<1>1. Init => TypeOK
  <2> SUFFICES ASSUME Init PROVE TypeOK
    OBVIOUS
  <2>1. ZeroColumns \in [Column -> Cells] /\ NothingEarned \in [Column -> Nat]
    BY DEF ZeroColumns, Zero, Cells, NothingEarned
  <2>2. /\ heights \in Seq(Int) /\ todo \in Seq(Table) /\ table \in Seq(Row)
        /\ shown \in Seq(Height)
    BY EmptySeq DEF Init
  <2>3. call \in Table
    BY DEF Init, Table
  <2> QED
    BY <2>1, <2>2, <2>3 DEF Init, TypeOK
<1>2. TypeOK /\ [Next]_vars => TypeOK'
  <2> SUFFICES ASSUME TypeOK, [Next]_vars PROVE TypeOK'
    OBVIOUS
  <2> USE DEF example, cells
  <2>0. ZeroColumns \in [Column -> Cells] /\ NothingEarned \in [Column -> Nat]
    BY DEF ZeroColumns, Zero, Cells, NothingEarned
  <2>1. CASE GiveUp
    BY <2>1 DEF GiveUp, TypeOK
  <2>2. CASE RewardStatisticsHandle
    <3>1. todo' \in Seq(Table)
      BY <2>2, RewardsAssumption DEF RewardStatisticsHandle
    <3> QED
      BY <2>2, <3>1 DEF RewardStatisticsHandle, TypeOK
  <2>3. CASE RewardExample
    BY <2>3, RewardsAssumption DEF RewardExample, TypeOK
  <2>4. CASE ShowHeight
    <3>1. heights' \in Seq(Int) /\ Head(heights) \in Int
      BY <2>4, HeadTailProperties DEF ShowHeight, TypeOK
    <3>2. PICK p \in Payout, s \in Subsidy : shown' = Append(shown,
              [h |-> Head(heights), line |-> HeightRow(Head(heights), p, s),
               pays |-> p, subsidy |-> s])
      BY <2>4 DEF ShowHeight
    <3>3. p \in [Column -> Nat] /\ s \in Nat /\ COIN \in Nat \ {0}
      BY RewardsAssumption
    <3>4. (\A c \in Column : p[c] \div COIN \in Nat) /\ s \div COIN \in Nat
      BY <3>3, DivMod
    <3>5. HeightRow(Head(heights), p, s) \in Line
      BY <3>4 DEF HeightRow, Line
    <3>6. shown' \in Seq(Height)
      <4>1. [h |-> Head(heights), line |-> HeightRow(Head(heights), p, s),
             pays |-> p, subsidy |-> s] \in Height
        BY <3>1, <3>3, <3>5 DEF Height
      <4>2. shown \in Seq(Height)
        BY DEF TypeOK
      <4> QED
        BY <3>2, <4>1, <4>2, AppendProperties
    <3> QED
      BY <2>4, <3>1, <3>6 DEF ShowHeight, TypeOK
  <2>5. CASE ShowTables
    <3>1. shown' \in Seq(Height)
      BY <2>5, EmptySeq DEF ShowTables
    <3> QED
      BY <2>5, <3>1, RewardsAssumption DEF ShowTables, TypeOK
  <2>6. CASE Begin
    <3>1. todo' \in Seq(Table) /\ call' \in Table
      BY <2>6, HeadTailProperties DEF Begin, TypeOK
    <3>2. table' \in Seq(Row)
      BY <2>6, EmptySeq DEF Begin
    <3> QED
      BY <2>0, <2>6, <3>1, <3>2 DEF Begin, TypeOK
  <2>7. CASE AddBlock
    <3>1. PICK p \in Payout :
            /\ year' = Credit(year, h, p)
            /\ blocks' = blocks + BlockSum(BlockReward(h, p))
            /\ earned' = [c \in Column |-> earned[c] + Pays(h, p)[c]]
      BY <2>7 DEF AddBlock
    <3>2. p \in [Column -> Nat] /\ h \in Int /\ h' = h + 1
      BY <2>7, RewardsAssumption DEF AddBlock, TypeOK
    <3>3. year' \in [Column -> Cells]
      <4>1. \A v \in Nat, a \in Cells : AddReward(v, a) \in Cells
        BY AddRewardExact
      <4>2. \A c \in Column : p[c] \in Nat
        BY <3>2
      <4>3. year \in [Column -> Cells]
        BY DEF TypeOK
      <4> QED
        BY <3>1, <4>1, <4>2, <4>3 DEF Credit, Column
    <3>4. earned' \in [Column -> Nat]
      <4>1. Pays(h, p) \in [Column -> Nat] /\ earned \in [Column -> Nat]
        BY <3>2, PaysColumns DEF TypeOK
      <4> QED
        BY <3>1, <4>1
    <3>5. blocks' \in Nat
      <4>1. /\ Pays(h, p)["miner"] \in Nat /\ Pays(h, p)["budget"] \in Nat
            /\ Pays(h, p)["masternode"] \in Nat /\ Pays(h, p)["founders"] \in Nat
        BY <3>2, PaysColumns DEF Column
      <4>2. BlockSum(BlockReward(h, p)) =
              Pays(h, p)["miner"] + Pays(h, p)["budget"] + Pays(h, p)["masternode"]
                + Pays(h, p)["founders"]
        BY <3>2, PaysColumns
      <4>3. blocks \in Nat
        BY DEF TypeOK
      <4>4. BlockSum(BlockReward(h, p)) \in Nat
        BY <4>1, <4>2
      <4> QED
        BY <3>1, <4>3, <4>4
    <3> QED
      BY <2>7, <3>2, <3>3, <3>4, <3>5 DEF AddBlock, TypeOK
  <2>8. CASE EndRow
    <3>1. h' \in Int /\ i' \in Nat
      BY <2>8, HeightsInt DEF EndRow, TypeOK
    <3>2. sum' \in [Column -> Cells]
      <4>1. \A c \in Column : Total(sum[c], year[c]) \in Cells
        BY DEF TypeOK, Total, Cells
      <4> QED
        BY <2>8, <4>1 DEF EndRow
    <3>3. table' \in Seq(Row)
      <4>1. [c \in Column |-> year[c].coin] \in [Column -> Nat]
        BY DEF TypeOK, Cells
      <4>2. [low |-> Low(i), high |-> AsInt(High(i) - 1),
             coins |-> [c \in Column |-> year[c].coin],
             block |-> BlockColumn(year), paid |-> blocks] \in Row
        BY <4>1, HeightsInt, BlockColumnWorth DEF TypeOK, Row
      <4> QED
        BY <2>8, <4>2, AppendProperties DEF EndRow, TypeOK
    <3>4. earnedAll' \in Nat
      BY <2>8 DEF EndRow, TypeOK
    <3> QED
      BY <2>0, <2>8, <3>1, <3>2, <3>3, <3>4 DEF EndRow, TypeOK
  <2>9. CASE EndRows
    BY <2>9 DEF EndRows, TypeOK
  <2>10. CASE Return
    BY <2>10 DEF Return, TypeOK
  <2>11. CASE UNCHANGED vars
    BY <2>11 DEF vars, TypeOK
  <2> QED
    BY <2>1, <2>2, <2>3, <2>4, <2>5, <2>6, <2>7, <2>8, <2>9, <2>10, <2>11 DEF Next, Ended
<1> QED
  BY <1>1, <1>2, PTL DEF Spec
-----------------------------------------------------------------------------
(***************************************************************************)
(* What the properties rest on: every cell holds what was paid to its      *)
(* column, the totals what was paid in all, and the rows lie where their   *)
(* numbers say.                                                            *)
(***************************************************************************)
Cellwise ==
  /\ \A c \in Column : RowCell(year[c]) /\ Worth(year[c]) = earned[c]
  /\ blocks = earned["miner"] + earned["budget"] + earned["masternode"] + earned["founders"]
  /\ SumCoins(sum) * COIN + SumSmalls(sum) = earnedAll
  /\ \A k \in DOMAIN table : table[k].block = table[k].paid \div COIN

Placed ==
  /\ phase \in {"start", "heights"} => table = <<>>
  /\ phase = "rows" => i = Len(table) + 1
  /\ \A k \in DOMAIN table : table[k].low = Low(k) /\ table[k].high = AsInt(High(k) - 1)

\* Empty cells hold nothing.
LEMMA ZeroWorth ==
  /\ \A c \in Column : RowCell(ZeroColumns[c]) /\ Worth(ZeroColumns[c]) = NothingEarned[c]
  /\ NothingEarned["miner"] + NothingEarned["budget"] + NothingEarned["masternode"]
       + NothingEarned["founders"] = 0
  /\ SumCoins(ZeroColumns) * COIN + SumSmalls(ZeroColumns) = 0
<1>1. COIN \in Nat \ {0}
  BY RewardsAssumption
<1>2. \A c \in Column : ZeroColumns[c] = [coin |-> 0, small |-> 0] /\ NothingEarned[c] = 0
  BY DEF ZeroColumns, Zero, NothingEarned
<1>3. 0 * COIN = 0
  BY <1>1
<1>4. \A c \in Column : RowCell(ZeroColumns[c]) /\ Worth(ZeroColumns[c]) = NothingEarned[c]
  <2> DEFINE zero == [coin |-> 0, small |-> 0]
  <2>1. zero \in Cells /\ zero.small <= COIN
    BY <1>1 DEF Cells
  <2>2. Worth(zero) = 0
    BY <1>3 DEF Worth
  <2> QED
    BY <1>2, <2>1, <2>2 DEF RowCell
<1>5. SumCoins(ZeroColumns) = 0 /\ SumSmalls(ZeroColumns) = 0
  BY <1>2 DEF SumCoins, SumSmalls, Column
<1>6. NothingEarned["miner"] + NothingEarned["budget"] + NothingEarned["masternode"]
       + NothingEarned["founders"] = 0
  BY <1>2 DEF Column
<1> QED
  BY <1>3, <1>4, <1>5, <1>6

\* The cells hold what was paid when the command starts, ...
LEMMA InitCellwise == Init => Cellwise
BY ZeroWorth DEF Init, Cellwise

\* ... after a round of the inner loop, ...
LEMMA AddBlockCellwise ==
  ASSUME TypeOK, Cellwise, AddBlock
  PROVE  Cellwise'
<1>1. PICK p \in Payout :
        /\ year' = Credit(year, h, p)
        /\ blocks' = blocks + BlockSum(BlockReward(h, p))
        /\ earned' = [c \in Column |-> earned[c] + Pays(h, p)[c]]
  BY DEF AddBlock
<1>2. p \in [Column -> Nat] /\ h \in Int /\ year \in [Column -> Cells]
  BY RewardsAssumption DEF TypeOK
<1>3. \A c \in Column : RowCell(year[c]) /\ Worth(year[c]) = earned[c]
  BY DEF Cellwise
<1>4. \A c \in Column : RowCell(year'[c]) /\ Worth(year'[c]) = Worth(year[c]) + Pays(h, p)[c]
  BY <1>1, <1>2, <1>3, CreditExact
<1>5. \A c \in Column : RowCell(year'[c]) /\ Worth(year'[c]) = earned'[c]
  BY <1>1, <1>3, <1>4
<1>6. Pays(h, p) \in [Column -> Nat] /\ earned \in [Column -> Nat]
  BY <1>2, PaysColumns DEF TypeOK
<1>7. BlockSum(BlockReward(h, p)) =
        Pays(h, p)["miner"] + Pays(h, p)["budget"] + Pays(h, p)["masternode"]
          + Pays(h, p)["founders"]
  BY <1>2, PaysColumns
<1>8. blocks' = earned'["miner"] + earned'["budget"] + earned'["masternode"] + earned'["founders"]
  <2>1. \A c \in Column : /\ earned'[c] = earned[c] + Pays(h, p)[c]
                          /\ earned[c] \in Nat /\ Pays(h, p)[c] \in Nat
    BY <1>1, <1>6
  <2>2. blocks = earned["miner"] + earned["budget"] + earned["masternode"] + earned["founders"]
    BY DEF Cellwise
  <2> QED
    BY <1>1, <1>7, <2>1, <2>2 DEF Column
<1>9. UNCHANGED <<sum, table, earnedAll>>
  BY DEF AddBlock
<1> QED
  BY <1>5, <1>8, <1>9 DEF Cellwise

\* ... and when a row is printed and added to the total.
LEMMA EndRowCellwise ==
  ASSUME TypeOK, Cellwise, EndRow
  PROVE  Cellwise'
<1>1. year \in [Column -> Cells] /\ sum \in [Column -> Cells] /\ COIN \in Nat \ {0}
  BY RewardsAssumption DEF TypeOK
<1>2. blocks = SumCoins(year) * COIN + SumSmalls(year)
  <2>1. \A c \in Column : Worth(year[c]) = earned[c]
    BY DEF Cellwise
  <2> QED
    BY <1>1, <2>1, RowWorth DEF Cellwise, Column
<1>3. BlockColumn(year) = blocks \div COIN
  BY <1>1, <1>2, BlockColumnWorth
<1>4. SumCoins(sum') = SumCoins(sum) + SumCoins(year) /\ SumSmalls(sum') = SumSmalls(sum) + SumSmalls(year)
  <2>1. \A c \in Column : /\ sum'[c].coin = sum[c].coin + year[c].coin
                          /\ sum'[c].small = sum[c].small + year[c].small
    BY DEF EndRow, Total
  <2>2. \A c \in Column : /\ sum[c].coin \in Nat /\ year[c].coin \in Nat
                          /\ sum[c].small \in Nat /\ year[c].small \in Nat
    BY <1>1 DEF Cells
  <2> QED
    BY <2>1, <2>2 DEF SumCoins, SumSmalls, Column
<1>5. SumCoins(sum') * COIN + SumSmalls(sum') = earnedAll'
  <2>1. /\ SumCoins(sum) \in Nat /\ SumCoins(year) \in Nat
        /\ SumSmalls(sum) \in Nat /\ SumSmalls(year) \in Nat
    BY <1>1, BlockColumnWorth
  <2>2. (SumCoins(sum) + SumCoins(year)) * COIN = SumCoins(sum) * COIN + SumCoins(year) * COIN
    BY <1>1, <2>1
  <2>3. SumCoins(sum) * COIN \in Nat /\ SumCoins(year) * COIN \in Nat
    BY <1>1, <2>1
  <2>4. earnedAll' = earnedAll + blocks /\ earnedAll = SumCoins(sum) * COIN + SumSmalls(sum)
    BY DEF EndRow, Cellwise
  <2> QED
    BY <1>2, <1>4, <2>1, <2>2, <2>3, <2>4
<1>6. \A k \in DOMAIN table' : table'[k].block = table'[k].paid \div COIN
  <2> DEFINE row == [low |-> Low(i), high |-> AsInt(High(i) - 1),
                     coins |-> [c \in Column |-> year[c].coin],
                     block |-> BlockColumn(year), paid |-> blocks]
  <2>1. table' = Append(table, row) /\ table \in Seq(Row)
    BY DEF EndRow, TypeOK
  <2>2. row.block = row.paid \div COIN
    BY <1>3
  <2>3. \A k \in DOMAIN table : table[k].block = table[k].paid \div COIN
    BY DEF Cellwise
  <2> HIDE DEF row
  <2>4. \A k \in DOMAIN table' : (k \in DOMAIN table /\ table'[k] = table[k]) \/ table'[k] = row
    BY <2>1
  <2> QED
    BY <2>2, <2>3, <2>4
<1>7. year' = ZeroColumns /\ earned' = NothingEarned /\ blocks' = 0
  BY DEF EndRow
<1> QED
  BY <1>5, <1>6, <1>7, ZeroWorth DEF Cellwise

\* No step disturbs what the cells hold.
LEMMA NextCellwise ==
  ASSUME TypeOK, Cellwise, [Next]_vars
  PROVE  Cellwise'
<1> USE DEF cells
<1>1. CASE AddBlock
  BY <1>1, AddBlockCellwise
<1>2. CASE EndRow
  BY <1>2, EndRowCellwise
<1>3. CASE Begin
  BY <1>3, ZeroWorth DEF Begin, Cellwise
<1>4. CASE UNCHANGED cells
  BY <1>4 DEF Cellwise
<1> QED
  BY <1>1, <1>2, <1>3, <1>4 DEF Next, GiveUp, RewardStatisticsHandle, RewardExample,
     ShowHeight, ShowTables, EndRows, Return, Ended, vars

\* The rows lie where their numbers say, and go on to.
LEMMA NextPlaced ==
  ASSUME TypeOK, Placed, [Next]_vars
  PROVE  Placed'
<1> USE DEF cells
<1>1. CASE EndRow
  <2> DEFINE row == [low |-> Low(i), high |-> AsInt(High(i) - 1),
                     coins |-> [c \in Column |-> year[c].coin],
                     block |-> BlockColumn(year), paid |-> blocks]
  <2>1. /\ table' = Append(table, row) /\ table \in Seq(Row) /\ i' = i + 1
        /\ phase = "rows" /\ phase' = phase /\ call' = call /\ i = Len(table) + 1
    BY <1>1 DEF EndRow, InRow, TypeOK, Placed
  <2>2. row.low = Low(i) /\ row.high = AsInt(High(i) - 1)
    OBVIOUS
  <2> HIDE DEF row
  <2>3. Len(table') = Len(table) + 1 /\ Len(table) \in Nat
    BY <2>1, AppendProperties, LenProperties
  <2>4. \A k \in DOMAIN table' :
          \/ k \in DOMAIN table /\ table'[k] = table[k]
          \/ k = i /\ table'[k] = row
    <3>1. DOMAIN table' = 1 .. Len(table) + 1 /\ DOMAIN table = 1 .. Len(table)
      BY <2>1, <2>3, LenProperties, AppendProperties
    <3>2. \A k \in 1 .. Len(table) : table'[k] = table[k]
      BY <2>1, AppendProperties
    <3>3. table'[i] = row
      BY <2>1, AppendProperties
    <3>4. \A k \in 1 .. Len(table) + 1 : k \in 1 .. Len(table) \/ k = i
      BY <2>1, <2>3
    <3> SUFFICES ASSUME NEW k \in DOMAIN table'
                 PROVE  \/ k \in DOMAIN table /\ table'[k] = table[k]
                        \/ k = i /\ table'[k] = row
      OBVIOUS
    <3>5. k \in 1 .. Len(table) \/ k = i
      BY <3>1, <3>4
    <3>6. CASE k \in 1 .. Len(table)
      BY <3>1, <3>2, <3>6
    <3>7. CASE k = i
      BY <3>3, <3>7
    <3> QED
      BY <3>5, <3>6, <3>7
  <2>5. \A k \in DOMAIN table' : table'[k].low = Low(k) /\ table'[k].high = AsInt(High(k) - 1)
    BY <2>2, <2>4 DEF Placed
  <2> QED
    BY <2>1, <2>3, <2>5 DEF Placed, Low, High
<1>2. CASE Begin
  <2>1. table' = <<>> /\ i' = 1 /\ phase' = "rows"
    BY <1>2 DEF Begin
  <2> QED
    BY <2>1 DEF Placed
<1>3. CASE AddBlock
  BY <1>3 DEF AddBlock, InRow, Placed, Low, High
<1>4. CASE GiveUp \/ RewardStatisticsHandle \/ RewardExample \/ ShowHeight \/ ShowTables
  <2>1. /\ table = <<>> /\ table' = <<>> /\ phase' \in {"idle", "heights"}
    BY <1>4 DEF GiveUp, RewardStatisticsHandle, RewardExample, ShowHeight, ShowTables, Placed
  <2> QED
    BY <2>1 DEF Placed
<1>5. CASE EndRows \/ Return
  BY <1>5 DEF EndRows, Return, Placed, Low, High
<1>6. CASE UNCHANGED vars
  BY <1>6 DEF vars, Placed, Low, High
<1> QED
  BY <1>1, <1>2, <1>3, <1>4, <1>5, <1>6 DEF Next, Ended

\* Cells and rows together, in every state.
THEOREM CellsAndRows == Spec => [](Cellwise /\ Placed)
<1>1. Init => Cellwise /\ Placed
  BY InitCellwise DEF Init, Placed
<1>2. TypeOK /\ Cellwise /\ Placed /\ [Next]_vars => Cellwise' /\ Placed'
  BY NextCellwise, NextPlaced
<1> QED
  BY <1>1, <1>2, TypeCorrect, PTL DEF Spec
-----------------------------------------------------------------------------
\* A column of a row shows what was paid to it, to the coin that the carry of
\* AddReward may leave undone.
THEOREM ColumnsAreExact == Spec => []ColumnsExact
<1>1. Cellwise => ColumnsExact
  <2> SUFFICES ASSUME Cellwise, NEW c \in Column
               PROVE  /\ year[c].coin * COIN + year[c].small = earned[c]
                      /\ year[c].small <= COIN
                      /\ year[c].coin # earned[c] \div COIN =>
                           /\ year[c].coin + 1 = earned[c] \div COIN
                           /\ earned[c] % COIN = 0
    BY DEF ColumnsExact
  <2>1. RowCell(year[c]) /\ Worth(year[c]) = earned[c]
    BY DEF Cellwise
  <2>2. year[c].coin * COIN + year[c].small = earned[c] /\ year[c].small <= COIN
    BY <2>1 DEF Worth, RowCell
  <2> QED
    BY <2>1, <2>2, CoinsShown
<1> QED
  BY <1>1, CellsAndRows, PTL

\* The last column shows the whole coins of what was paid, in a row and in
\* the total.
THEOREM BlockColumnsExact == Spec => []BlockColumnExact
<1>1. TypeOK /\ Cellwise => BlockColumnExact
  <2> SUFFICES ASSUME TypeOK, Cellwise PROVE BlockColumnExact
    OBVIOUS
  <2>1. BlockColumn(sum) = earnedAll \div COIN
    BY BlockColumnWorth DEF TypeOK, Cellwise
  <2> QED
    BY <2>1 DEF Cellwise, BlockColumnExact
<1> QED
  BY <1>1, TypeCorrect, CellsAndRows, PTL

\* Multiplication is associative.
LEMMA TimesAssociative ==
  ASSUME NEW a \in Int, NEW b \in Int, NEW c \in Int
  PROVE  a * b * c = a * (b * c)
  BY SMT

\* Between a row number and 0 no height leaves the int.
LEMMA FitsBelow ==
  ASSUME NEW n \in Nat, NEW m \in Int, n * m \in -IntMax .. IntMax, n > 0
  PROVE  (n - 1) * m \in -IntMax .. IntMax
<1>1. IntMax \in Nat /\ (n - 1) * m = n * m - m /\ n * m \in Int
  BY RewardsAssumption
<1>2. m >= 0 => (n - 1) * m >= 0
  BY SMT
<1>3. m < 0 => (n - 1) * m <= 0
  BY SMT
<1> QED
  BY <1>1, <1>2, <1>3

\* Rows cover the heights without gap or overlap while the heights are ints.
THEOREM RowsTileHeights == Spec => []RowsTile
<1>1. TypeOK /\ Placed => RowsTile
  <2> SUFFICES ASSUME TypeOK, Placed, NEW k \in DOMAIN table, Fits(k)
               PROVE  table[k].low = IF k = 1 THEN 0 ELSE table[k - 1].high + 1
    BY DEF RowsTile
  <2> DEFINE m == YearBlocks * call.years
  <2>1. /\ IntMax \in Nat /\ m \in Int /\ k \in Nat /\ k > 0 /\ call.years \in Int
        /\ YearBlocks \in Nat /\ table \in Seq(Row) /\ DOMAIN table = 1 .. Len(table)
    BY RewardsAssumption, LenProperties DEF TypeOK, Table
  <2>2. /\ k * YearBlocks * call.years = k * m
        /\ (k - 1) * YearBlocks * call.years = (k - 1) * m
    <3>1. k \in Int /\ k - 1 \in Int /\ YearBlocks \in Int /\ call.years \in Int
      BY <2>1
    <3>2. k * YearBlocks * call.years = k * (YearBlocks * call.years)
      BY <3>1, TimesAssociative, SMTT(30)
    <3>3. (k - 1) * YearBlocks * call.years = (k - 1) * (YearBlocks * call.years)
      BY <3>1, TimesAssociative, SMTT(30)
    <3> QED
      BY <3>2, <3>3
  <2> HIDE DEF m
  <2>3. k * m \in -IntMax .. IntMax
    BY <2>1, <2>2 DEF Fits
  <2>4. (k - 1) * m \in -IntMax .. IntMax
    BY <2>1, <2>3, FitsBelow
  <2>5. (k - 1) * YearBlocks * call.years = (k - 1) * m /\ k - 1 \in Int
    BY <2>1, <2>2
  <2>6. (k - 1) * m \in -(IntMax + 1) .. IntMax /\ (k - 1) * m - 1 \in -(IntMax + 1) .. IntMax
    BY <2>1, <2>4
  <2>7. Low(k) = (k - 1) * m /\ High(k - 1) = (k - 1) * m
    BY <2>5, <2>6, AsIntFits DEF Low, High
  <2>8. CASE k = 1
    <3>1. (k - 1) * m = 0
      BY <2>1, <2>8
    <3> QED
      BY <2>7, <2>8, <3>1 DEF Placed
  <2>9. CASE k # 1
    <3>1. k - 1 \in DOMAIN table
      BY <2>1, <2>9
    <3>2. table[k - 1].high = (k - 1) * m - 1
      BY <2>6, <2>7, <3>1, AsIntFits DEF Placed
    <3> QED
      BY <2>6, <2>7, <2>9, <3>2 DEF Placed
  <2> QED
    BY <2>8, <2>9
<1> QED
  BY <1>1, TypeCorrect, CellsAndRows, PTL
-----------------------------------------------------------------------------
\* Every line of a height is the one RewardHandle makes.
Shown == \A k \in DOMAIN shown :
           shown[k].line = HeightRow(shown[k].h, shown[k].pays, shown[k].subsidy)

\* A line stays until the tables, and each new one is RewardHandle's.
LEMMA NextShown ==
  ASSUME TypeOK, Shown, [Next]_vars
  PROVE  Shown'
<1>1. CASE ShowHeight
  <2>1. PICK p \in Payout, s \in Subsidy : shown' = Append(shown,
            [h |-> Head(heights), line |-> HeightRow(Head(heights), p, s),
             pays |-> p, subsidy |-> s])
    BY <1>1 DEF ShowHeight
  <2> DEFINE new == [h |-> Head(heights), line |-> HeightRow(Head(heights), p, s),
                     pays |-> p, subsidy |-> s]
  <2>2. new.line = HeightRow(new.h, new.pays, new.subsidy)
    OBVIOUS
  <2>3. shown' = Append(shown, new) /\ shown \in Seq(Height)
    BY <2>1 DEF TypeOK
  <2> HIDE DEF new
  <2>4. \A k \in DOMAIN shown' : (k \in DOMAIN shown /\ shown'[k] = shown[k]) \/ shown'[k] = new
    BY <2>3
  <2> QED
    BY <2>2, <2>4 DEF Shown
<1>2. CASE ShowTables
  BY <1>2 DEF ShowTables, Shown
<1>3. CASE UNCHANGED shown
  BY <1>3 DEF Shown
<1> QED
  BY <1>1, <1>2, <1>3 DEF Next, GiveUp, RewardStatisticsHandle, RewardExample, Begin,
     AddBlock, EndRow, EndRows, Return, Ended, example, vars

\* What RewardHandle's line and blockreward's say of the same payout.
LEMMA LinesAgree ==
  ASSUME NEW n \in Int, NEW p \in [Column -> Nat], NEW s \in Nat
  PROVE  LET l     == HeightRow(n, p, s)
             b     == BlockLine(n, p)
             early == EarlyBudget(n, p) \div COIN
         IN  /\ \A c \in Column : l.coins[c] = b.coins[c] + (IF c = "budget" THEN early ELSE 0)
             /\ s = BlockSum(BlockReward(n, p)) =>
                  /\ l.block = b.block
                  /\ l.block - (LineCoins(l) - early) \in 0 .. 3
<1> DEFINE l == HeightRow(n, p, s)
           b == BlockLine(n, p)
           r == BlockReward(n, p)
           early == EarlyBudget(n, p) \div COIN
<1>1. COIN \in Nat \ {0} /\ StartBlock \in Nat /\ 0 \div COIN = 0
  BY RewardsAssumption
<1>2. \A v \in Nat : v \div COIN \in Nat
  BY <1>1, DivMod
<1>3. /\ r \in [Column -> Nat] /\ r["miner"] = p["miner"] /\ r["masternode"] = p["masternode"]
      /\ r["founders"] = IF n \in Superblock THEN p["founders"] ELSE 0
      /\ r["budget"] = IF n \in Superblock /\ n >= StartBlock THEN p["budget"] ELSE 0
  BY DEF BlockReward, Column
<1>4. (\A c \in Column : b.coins[c] = r[c] \div COIN) /\ b.block = BlockSum(r) \div COIN
  BY DEF BlockLine
<1>5. /\ \A c \in Column : l.coins[c] = IF n \notin Superblock /\ c \in {"budget", "founders"}
                                        THEN 0 ELSE p[c] \div COIN
      /\ l.block = s \div COIN
  BY DEF HeightRow
<1>6. EarlyBudget(n, p) = (IF n \in Superblock /\ n < StartBlock THEN p["budget"] ELSE 0)
        /\ EarlyBudget(n, p) \in Nat
  BY DEF EarlyBudget, Column
<1>7. early = (IF n \in Superblock /\ n < StartBlock THEN p["budget"] \div COIN ELSE 0)
  BY <1>1, <1>6
<1>8. BlockSum(r) = r["budget"] + r["founders"] + r["miner"] + r["masternode"]
  BY DEF BlockSum
<1>9. LineCoins(l) = l.coins["miner"] + l.coins["budget"] + l.coins["masternode"]
                       + l.coins["founders"]
  BY DEF LineCoins
<1>10. early \in Nat
  BY <1>2, <1>6
<1> HIDE DEF l, b, r, early
<1>11. /\ \A c \in Column : p[c] \in Nat /\ p[c] \div COIN \in Nat
       /\ \A c \in Column : r[c] \in Nat /\ r[c] \div COIN \in Nat
  BY <1>2, <1>3
<1>12. \A c \in Column : l.coins[c] = b.coins[c] + (IF c = "budget" THEN early ELSE 0)
  <2>1. l.coins["miner"] = b.coins["miner"] + 0 /\ l.coins["masternode"] = b.coins["masternode"] + 0
    BY <1>3, <1>4, <1>5, <1>11 DEF Column
  <2>2. l.coins["founders"] = b.coins["founders"] + 0
    BY <1>1, <1>3, <1>4, <1>5, <1>11 DEF Column
  <2>3. l.coins["budget"] = b.coins["budget"] + early
    <3>1. "budget" \in Column
      BY DEF Column
    <3>2. CASE n \notin Superblock
      BY <1>1, <1>3, <1>4, <1>5, <1>7, <3>1, <3>2
    <3>3. CASE n \in Superblock /\ n < StartBlock
      BY <1>1, <1>3, <1>4, <1>5, <1>7, <1>11, <3>1, <3>3
    <3>4. CASE n \in Superblock /\ n >= StartBlock
      BY <1>1, <1>3, <1>4, <1>5, <1>7, <1>11, <3>1, <3>4
    <3> QED
      BY <1>1, <3>2, <3>3, <3>4
  <2> QED
    BY <2>1, <2>2, <2>3 DEF Column
<1>13. ASSUME s = BlockSum(r)
       PROVE  l.block = b.block /\ l.block - (LineCoins(l) - early) \in 0 .. 3
  <2>1. l.block = b.block
    BY <1>4, <1>5, <1>13
  <2>2. LineCoins(l) - early = (r["budget"] \div COIN) + (r["founders"] \div COIN)
                                 + (r["miner"] \div COIN) + (r["masternode"] \div COIN)
    BY <1>4, <1>9, <1>10, <1>11, <1>12 DEF Column
  <2>3. b.block - ((r["budget"] \div COIN) + (r["founders"] \div COIN)
                     + (r["miner"] \div COIN) + (r["masternode"] \div COIN)) \in 0 .. 3
    BY <1>1, <1>4, <1>8, <1>11, FourRemainders DEF Column
  <2> QED
    BY <2>1, <2>2, <2>3
<1> QED
  BY <1>12, <1>13 DEF l, b, r, early

\* The two commands that show heights agree, early budgets and the last column
\* accounted for.
THEOREM HeightsAlwaysAgree == Spec => []HeightsAgree
<1>1. Init => Shown
  BY DEF Init, Shown
<1>2. TypeOK /\ Shown /\ [Next]_vars => Shown'
  BY NextShown
<1>3. TypeOK /\ Shown => HeightsAgree
  <2> SUFFICES ASSUME TypeOK, Shown, NEW k \in DOMAIN shown
               PROVE  LET s     == shown[k]
                          b     == BlockLine(s.h, s.pays)
                          early == EarlyBudget(s.h, s.pays) \div COIN
                      IN  /\ \A c \in Column :
                               s.line.coins[c] = b.coins[c] + (IF c = "budget" THEN early ELSE 0)
                          /\ s.subsidy = BlockSum(BlockReward(s.h, s.pays)) =>
                               /\ s.line.block = b.block
                               /\ s.line.block - (LineCoins(s.line) - early) \in 0 .. 3
    BY DEF HeightsAgree
  <2> DEFINE s == shown[k]
  <2>1. s.line = HeightRow(s.h, s.pays, s.subsidy)
    BY DEF Shown
  <2>2. s.h \in Int /\ s.pays \in [Column -> Nat] /\ s.subsidy \in Nat
    <3>1. shown \in Seq(Height)
      BY DEF TypeOK
    <3>2. k \in 1 .. Len(shown)
      BY <3>1, LenProperties
    <3>3. shown[k] \in Height
      BY <3>1, <3>2, ElementOfSeq
    <3> QED
      BY <3>3 DEF Height
  <2> HIDE DEF s
  <2> QED
    BY <2>1, <2>2, LinesAgree DEF s
<1> QED
  BY <1>1, <1>2, <1>3, TypeCorrect, PTL DEF Spec
-----------------------------------------------------------------------------
(***************************************************************************)
(* The tables are complete, and the command returns.                       *)
(***************************************************************************)
\* The row is the one behind those printed and not behind the last; when all
\* have been printed there are no more.
Counted ==
  /\ phase \in {"rows", "total"} =>
       i = Len(table) + 1 /\ (i = 1 \/ i <= AsInt(call.rows + 1))
  /\ phase = "total" => ~(i < AsInt(call.rows + 1))

\* A step keeps Counted.
LEMMA NextCounted ==
  ASSUME TypeOK, Counted, [Next]_vars
  PROVE  Counted'
<1> USE DEF cells
<1>0. AsInt(call.rows + 1) \in Int /\ i \in Nat /\ Len(table) \in Nat
  <2>1. call.rows + 1 \in Int
    BY DEF TypeOK, Table
  <2> QED
    BY <2>1, AsIntInt, LenProperties DEF TypeOK
<1>1. CASE EndRow
  <2> DEFINE row == [low |-> Low(i), high |-> AsInt(High(i) - 1),
                     coins |-> [c \in Column |-> year[c].coin],
                     block |-> BlockColumn(year), paid |-> blocks]
  <2>1. /\ table' = Append(table, row) /\ i' = i + 1 /\ i < AsInt(call.rows + 1)
        /\ phase = "rows" /\ phase' = phase /\ call' = call
    BY <1>1 DEF EndRow, InRow
  <2>2. table \in Seq(Row)
    BY DEF TypeOK
  <2> HIDE DEF row
  <2>3. Len(table') = Len(table) + 1
    BY <2>1, <2>2, AppendProperties
  <2> QED
    BY <1>0, <2>1, <2>3 DEF Counted
<1>2. CASE Begin
  <2>1. Len(table') = 0 /\ i' = 1 /\ phase' = "rows"
    BY <1>2, EmptySeq DEF Begin
  <2> QED
    BY <2>1 DEF Counted
<1>3. CASE AddBlock
  BY <1>3 DEF AddBlock, InRow, Counted
<1>4. CASE EndRows
  BY <1>4 DEF EndRows, InRow, Counted
<1>5. CASE Return \/ GiveUp \/ RewardStatisticsHandle \/ RewardExample \/ ShowHeight \/ ShowTables
  <2>1. phase' \notin {"rows", "total"}
    BY <1>5 DEF Return, GiveUp, RewardStatisticsHandle, RewardExample, ShowHeight, ShowTables
  <2> QED
    BY <2>1 DEF Counted
<1>6. CASE UNCHANGED vars
  BY <1>6 DEF vars, Counted
<1> QED
  BY <1>1, <1>2, <1>3, <1>4, <1>5, <1>6 DEF Next, Ended

\* Counted is an invariant.
LEMMA CountedAlways == Spec => []Counted
<1>1. Init => Counted
  BY DEF Init, Counted
<1>2. TypeOK /\ Counted /\ [Next]_vars => Counted'
  BY NextCounted
<1> QED
  BY <1>1, <1>2, TypeCorrect, PTL DEF Spec

\* The total is printed below as many rows as were asked for.  (For the largest
\* int there is none, because the bound of the loop is one more.)
RowsComplete ==
  phase = "total" /\ call.rows \in -(IntMax + 1) .. IntMax =>
    Len(table) = IF call.rows \in 1 .. IntMax - 1 THEN call.rows ELSE 0

\* RewardStatistics prints every row, and none too many.
THEOREM RowsAreComplete == Spec => []RowsComplete
<1>1. TypeOK /\ Counted => RowsComplete
  <2> SUFFICES ASSUME TypeOK, Counted, phase = "total", call.rows \in -(IntMax + 1) .. IntMax
               PROVE  Len(table) = IF call.rows \in 1 .. IntMax - 1 THEN call.rows ELSE 0
    BY DEF RowsComplete
  <2>1. /\ IntMax \in Nat /\ call.rows \in Int /\ Len(table) \in Nat
        /\ i = Len(table) + 1 /\ (i = 1 \/ i <= AsInt(call.rows + 1))
        /\ ~(i < AsInt(call.rows + 1))
    BY RewardsAssumption, LenProperties DEF TypeOK, Table, Counted
  <2>2. CASE call.rows = IntMax
    <3>1. AsInt(IntMax + 1) = -(IntMax + 1)
      <4>1. (IntMax + 1 + IntMax + 1) % (2 * (IntMax + 1)) = 0
        <5>1. IntMax + 1 + IntMax + 1 = 1 * (2 * (IntMax + 1)) + 0 /\ 2 * (IntMax + 1) \in Nat \ {0}
          BY <2>1
        <5>2. \A b \in Nat \ {0} : b % b = 0
          OBVIOUS
        <5> QED
          BY <5>1, <5>2
      <4> QED
        BY <2>1, <4>1 DEF AsInt
    <3> QED
      BY <2>1, <2>2, <3>1
  <2>3. CASE call.rows # IntMax
    <3>1. AsInt(call.rows + 1) = call.rows + 1
      <4>1. call.rows + 1 \in -(IntMax + 1) .. IntMax
        BY <2>1, <2>3
      <4> QED
        BY <4>1, AsIntFits
    <3> QED
      BY <2>1, <2>3, <3>1
  <2> QED
    BY <2>2, <2>3
<1> QED
  BY <1>1, TypeCorrect, CountedAlways, PTL

\* What the command has left: the reading of its arguments, the heights to show
\* and the tables to print, the total, the rows of the table and the heights of
\* the row.
StartLeft == IF phase = "start" THEN 2 ELSE IF phase = "heights" THEN 1 ELSE 0
CallsLeft == Len(heights) + Len(todo)
TotalLeft == IF phase = "rows" THEN 2 ELSE IF phase = "total" THEN 1 ELSE 0
RowsLeft == IF InRow THEN AsInt(call.rows + 1) - i ELSE 0
HeightsLeft == IF InRow /\ h < High(i) THEN High(i) - h ELSE 0
Left == <<StartLeft, CallsLeft, TotalLeft, RowsLeft, HeightsLeft>>

\* The order of the dictionary, which has no infinite descents.
Lower(l, m) == \E n \in 1 .. 5 : l[n] < m[n] /\ \A k \in 1 .. n - 1 : l[k] = m[k]

\* Whatever overflows, every step brings the end of the command nearer: a row
\* that begins below the last may do so at any height.
GetsDone ==
  [][Lower(Left', Left) /\ Left \in Nat \X Nat \X Nat \X Nat \X Nat]_vars

\* All that is left is counted in natural numbers.
LEMMA LeftIsNat ==
  ASSUME TypeOK
  PROVE  /\ Left \in Nat \X Nat \X Nat \X Nat \X Nat
         /\ AsInt(call.rows + 1) \in Int /\ High(i) \in Int /\ i \in Nat /\ h \in Int
         /\ Len(heights) \in Nat /\ Len(todo) \in Nat
<1>1. call.rows + 1 \in Int /\ i \in Int /\ i \in Nat /\ h \in Int
  BY DEF TypeOK, Table
<1>2. AsInt(call.rows + 1) \in Int /\ High(i) \in Int
  BY <1>1, AsIntInt, HeightsInt
<1>3. Len(heights) \in Nat /\ Len(todo) \in Nat
  BY LenProperties DEF TypeOK
<1>4. StartLeft \in Nat /\ CallsLeft \in Nat /\ TotalLeft \in Nat
  BY <1>3 DEF StartLeft, CallsLeft, TotalLeft
<1>5. RowsLeft \in Nat
  BY <1>1, <1>2 DEF RowsLeft, InRow
<1>6. HeightsLeft \in Nat
  BY <1>1, <1>2 DEF HeightsLeft
<1> QED
  BY <1>1, <1>2, <1>3, <1>4, <1>5, <1>6 DEF Left

\* The step relation behind GetsDone, for a step that is no stutter.
LEMMA NearerStep ==
  ASSUME TypeOK, TypeOK', Next, vars' # vars
  PROVE  Lower(Left', Left)
<1> USE DEF cells, example
<1>0. /\ AsInt(call.rows + 1) \in Int /\ High(i) \in Int /\ i \in Nat /\ h \in Int
      /\ Len(heights) \in Nat /\ Len(todo) \in Nat
  BY LeftIsNat
<1>1. ASSUME \/ StartLeft' < StartLeft
             \/ StartLeft' = StartLeft /\ CallsLeft' < CallsLeft
             \/ StartLeft' = StartLeft /\ CallsLeft' = CallsLeft /\ TotalLeft' < TotalLeft
             \/ /\ StartLeft' = StartLeft /\ CallsLeft' = CallsLeft /\ TotalLeft' = TotalLeft
                /\ RowsLeft' < RowsLeft
             \/ /\ StartLeft' = StartLeft /\ CallsLeft' = CallsLeft /\ TotalLeft' = TotalLeft
                /\ RowsLeft' = RowsLeft /\ HeightsLeft' < HeightsLeft
      PROVE  Lower(Left', Left)
  <2> DEFINE l == Left'
             m == Left
  <2>1. /\ l[1] = StartLeft' /\ l[2] = CallsLeft' /\ l[3] = TotalLeft' /\ l[4] = RowsLeft'
        /\ l[5] = HeightsLeft'
        /\ m[1] = StartLeft /\ m[2] = CallsLeft /\ m[3] = TotalLeft /\ m[4] = RowsLeft
        /\ m[5] = HeightsLeft
    BY DEF Left
  <2> HIDE DEF l, m
  <2>2. \/ l[1] < m[1]
        \/ l[1] = m[1] /\ l[2] < m[2]
        \/ l[1] = m[1] /\ l[2] = m[2] /\ l[3] < m[3]
        \/ l[1] = m[1] /\ l[2] = m[2] /\ l[3] = m[3] /\ l[4] < m[4]
        \/ l[1] = m[1] /\ l[2] = m[2] /\ l[3] = m[3] /\ l[4] = m[4] /\ l[5] < m[5]
    BY <1>1, <2>1
  <2>3. Lower(l, m)
    BY <2>2 DEF Lower
  <2> QED
    BY <2>3 DEF l, m
<1>2. CASE GiveUp \/ RewardStatisticsHandle \/ RewardExample \/ ShowTables
  <2>1. StartLeft' < StartLeft
    BY <1>2 DEF GiveUp, RewardStatisticsHandle, RewardExample, ShowTables, StartLeft
  <2> QED
    BY <1>1, <2>1
<1>3. CASE ShowHeight
  <2>1. StartLeft' = StartLeft /\ todo' = todo
    BY <1>3 DEF ShowHeight, StartLeft
  <2>2. Len(heights') = Len(heights) - 1
    BY <1>3, HeadTailProperties DEF ShowHeight, TypeOK
  <2>3. CallsLeft' < CallsLeft
    BY <1>0, <2>1, <2>2 DEF CallsLeft
  <2> QED
    BY <1>1, <2>1, <2>3
<1>4. CASE Begin
  <2>1. StartLeft' = StartLeft /\ heights' = heights
    BY <1>4 DEF Begin, StartLeft
  <2>2. Len(todo') = Len(todo) - 1
    BY <1>4, HeadTailProperties DEF Begin, TypeOK
  <2>3. CallsLeft' < CallsLeft
    BY <1>0, <2>1, <2>2 DEF CallsLeft
  <2> QED
    BY <1>1, <2>1, <2>3
<1>5. CASE EndRows \/ Return
  <2>1. StartLeft' = StartLeft /\ CallsLeft' = CallsLeft /\ TotalLeft' < TotalLeft
    BY <1>5 DEF EndRows, Return, StartLeft, CallsLeft, TotalLeft
  <2> QED
    BY <1>1, <2>1
<1>6. CASE EndRow
  <2>1. StartLeft' = StartLeft /\ CallsLeft' = CallsLeft /\ TotalLeft' = TotalLeft
    BY <1>6 DEF EndRow, StartLeft, CallsLeft, TotalLeft
  <2>2. InRow /\ i' = i + 1 /\ call' = call
    BY <1>6 DEF EndRow
  <2>3. RowsLeft' < RowsLeft
    BY <1>0, <2>2 DEF RowsLeft, InRow
  <2> QED
    BY <1>1, <2>1, <2>3
<1>7. CASE AddBlock
  <2>1. StartLeft' = StartLeft /\ CallsLeft' = CallsLeft /\ TotalLeft' = TotalLeft
    BY <1>7 DEF AddBlock, StartLeft, CallsLeft, TotalLeft
  <2>2. InRow /\ h < High(i) /\ h' = h + 1 /\ UNCHANGED <<i, call, phase>>
    BY <1>7 DEF AddBlock
  <2>3. RowsLeft' = RowsLeft /\ High(i)' = High(i) /\ InRow' = InRow
    BY <2>2 DEF RowsLeft, InRow, High
  <2>4. HeightsLeft' < HeightsLeft
    BY <1>0, <2>2, <2>3 DEF HeightsLeft
  <2> QED
    BY <1>1, <2>1, <2>3, <2>4
<1>8. ~Ended
  BY DEF Ended
<1> QED
  BY <1>2, <1>3, <1>4, <1>5, <1>6, <1>7, <1>8 DEF Next

\* The commands return: no infinite sequence of their steps is possible.
THEOREM GetsDoneHolds == Spec => GetsDone
<1> DEFINE A == Lower(Left', Left) /\ Left \in Nat \X Nat \X Nat \X Nat \X Nat
<1>1. TypeOK /\ TypeOK' /\ [Next]_vars => [A]_vars
  <2> SUFFICES ASSUME TypeOK, TypeOK', Next, vars' # vars PROVE A
    OBVIOUS
  <2> QED
    BY NearerStep, LeftIsNat
<1>2. GetsDone <=> [][A]_vars
  BY DEF GetsDone
<1> HIDE DEF A
<1> QED
  BY TypeCorrect, <1>1, <1>2, PTL DEF Spec
=============================================================================
