------------------------------ MODULE Rewards ------------------------------
(***************************************************************************)
(* The reward tables (common/rewardtool.cpp): "rewardstatistics" prints a  *)
(* table of rows of years, "rewardexample" what single heights pay and     *)
(* then two such tables.  RewardStatistics adds up what the blocks of the  *)
(* years pay, by column, in whole coins with a remainder (AddReward), and  *)
(* prints a row for them and a total.                                      *)
(*                                                                         *)
(* What a block pays is decided by the chain library's consensus code: any *)
(* payout is possible at any height here, with any remainders, and any     *)
(* subsidy of the block with it.                                           *)
(***************************************************************************)
EXTENDS Integers, Sequences

CONSTANTS
  COIN,        \* the units of a coin, 10^8
  YearBlocks,  \* the blocks of a year, 210240
  StartBlock,  \* nMasternodePaymentsStartBlock
  Superblock,  \* the heights of superblocks
  Payout,      \* what GetMinerSubsidy and the others may return for a height
  Subsidy,     \* what GetBlockSubsidy may return for one
  IntMax,      \* the largest int, 2^31 - 1
  Arguments,   \* what atoi may make of the arguments of "rewardstatistics"
  Heights,     \* the heights the -height lines of a file may list
  ExampleCalls \* the tables of "rewardexample": (1, 4) and (4, 5)

Column == {"miner", "budget", "masternode", "founders"}
Table == [years : Int, rows : Int]

ASSUME RewardsAssumption ==
  /\ COIN \in Nat \ {0} /\ YearBlocks \in Nat /\ StartBlock \in Nat /\ IntMax \in Nat
  /\ Superblock \subseteq Nat /\ Payout \subseteq [Column -> Nat]
  /\ Subsidy \subseteq Nat
  /\ Arguments \subseteq Table /\ Heights \subseteq Seq(Int) /\ ExampleCalls \in Seq(Table)

VARIABLES
  phase,   \* where the command is: "rows" and "total" in RewardStatistics
  heights, \* the heights "rewardexample" has still to show
  shown,   \* their lines, up to the tables; pays and subsidy are history
  todo,    \* the calls of RewardStatistics still to come
  call,    \* the current one
  i,       \* the row
  h,       \* the height
  year,    \* coins and remainder of each column of the current row
  sum,     \* ... and for the table: remainders are added up without carry
  table,   \* the rows that have been printed; paid is history, see blocks
  earned,  \* history: what the blocks of the current row paid, by column
  blocks,  \* history: the same as the command "blockreward" adds it up
  earnedAll \* history: what the blocks of all rows paid

example == <<heights, shown>>
cells == <<year, sum, table, earned, blocks, earnedAll>>
vars == <<phase, example, todo, call, i, h, cells>>

Zero == [coin |-> 0, small |-> 0]
ZeroColumns == [c \in Column |-> Zero]
NothingEarned == [c \in Column |-> 0]

\* Faulty: a coin is carried and kept.
AddReward_Keep(value, r) ==
  LET coin  == r.coin + (value \div COIN)
      small == r.small + (value % COIN)
  IN  [coin |-> IF small > COIN THEN coin + (small \div COIN) ELSE coin, small |-> small]

\* AddReward: the carry is made only when the remainder exceeds a coin.
AddReward(value, r) ==
  LET coin  == r.coin + (value \div COIN)
      small == r.small + (value % COIN)
  IN  IF small > COIN
      THEN [coin |-> coin + (small \div COIN), small |-> small % COIN]
      ELSE [coin |-> coin, small |-> small]

SumCoins(r) == r["miner"].coin + r["budget"].coin + r["masternode"].coin + r["founders"].coin
SumSmalls(r) == r["miner"].small + r["budget"].small + r["masternode"].small + r["founders"].small

\* The last column of a row: all coins, and the coins the remainders make.
BlockColumn(r) == AddReward(SumSmalls(r), [coin |-> SumCoins(r), small |-> 0]).coin

\* What height n adds to the columns.  The subsidy of block 1 went to the
\* founders; founders and budget are paid by superblocks only, and the budget
\* not before StartBlock.
Credit(r, n, p) ==
  LET miner   == IF n = 1 THEN "founders" ELSE "miner"
      r1      == [r EXCEPT ![miner] = AddReward(p["miner"], @)]
      r2      == [r1 EXCEPT !["masternode"] = AddReward(p["masternode"], @)]
      r3      == [r2 EXCEPT !["founders"] = AddReward(p["founders"], @)]
      r4      == [r3 EXCEPT !["budget"] = AddReward(p["budget"], @)]
  IN  IF n \notin Superblock THEN r2
      ELSE IF n < StartBlock THEN r3 ELSE r4

\* What the command "blockreward" shows of block n, in units.
BlockReward(n, p) ==
  [p EXCEPT !["founders"] = IF n \in Superblock THEN @ ELSE 0,
            !["budget"] = IF n \in Superblock /\ n >= StartBlock THEN @ ELSE 0]

BlockSum(p) == p["budget"] + p["founders"] + p["miner"] + p["masternode"]

\* The line it prints: the four columns in coins, and the coins of their sum.
BlockLine(n, p) ==
  LET b == BlockReward(n, p)
  IN  [coins |-> [c \in Column |-> b[c] \div COIN], block |-> BlockSum(b) \div COIN]

\* Faulty: whether the height is a superblock's is asked for the budget only.
HeightRow_Founders(n, p, subsidy) ==
  [coins |-> [c \in Column |-> IF n \notin Superblock /\ c = "budget" THEN 0 ELSE p[c] \div COIN],
   block |-> subsidy \div COIN]

\* The line RewardHandle prints of it: StartBlock does not matter there, and
\* the last column is the chain's subsidy of the block, not a sum.
HeightRow(n, p, subsidy) ==
  [coins |-> [c \in Column |->
                IF n \notin Superblock /\ c \in {"budget", "founders"} THEN 0 ELSE p[c] \div COIN],
   block |-> subsidy \div COIN]

\* The int of a result too large for one, on the machines that wrap around.
AsInt(n) == ((n + IntMax + 1) % (2 * (IntMax + 1))) - (IntMax + 1)

\* Faulty: a row is taken for one year.
Low_Single(n) == AsInt((n - 1) * YearBlocks)

Low(n) == AsInt((n - 1) * YearBlocks * call.years)
High(n) == AsInt(n * YearBlocks * call.years)

Init ==
  /\ phase = "start" /\ heights = <<>> /\ shown = <<>>
  /\ todo = <<>> /\ call = [years |-> 0, rows |-> 0]
  /\ i = 0 /\ h = 0 /\ year = ZeroColumns /\ sum = ZeroColumns /\ table = <<>>
  /\ earned = NothingEarned /\ blocks = 0 /\ earnedAll = 0

\* Too few arguments, or the file of "rewardexample" cannot be opened.
GiveUp ==
  /\ phase = "start"
  /\ phase' = "idle"
  /\ UNCHANGED <<example, todo, call, i, h, cells>>

RewardStatisticsHandle ==
  /\ phase = "start"
  /\ phase' = "idle" /\ \E a \in Arguments : todo' = <<a>>
  /\ UNCHANGED <<example, call, i, h, cells>>

\* The file has been read.
RewardExample ==
  /\ phase = "start"
  /\ phase' = "heights" /\ heights' \in Heights
  /\ UNCHANGED <<shown, todo, call, i, h, cells>>

\* RewardHandle: a line for the next height, ...
ShowHeight ==
  /\ phase = "heights" /\ heights # <<>>
  /\ \E p \in Payout, s \in Subsidy :
       shown' = Append(shown, [h |-> Head(heights), line |-> HeightRow(Head(heights), p, s),
                               pays |-> p, subsidy |-> s])
  /\ heights' = Tail(heights)
  /\ UNCHANGED <<phase, todo, call, i, h, cells>>

\* ... and after the last of them the tables, which do not depend on them.
ShowTables ==
  /\ phase = "heights" /\ heights = <<>>
  /\ phase' = "idle" /\ todo' = ExampleCalls /\ shown' = <<>>
  /\ UNCHANGED <<heights, call, i, h, cells>>

\* RewardStatistics is called.
Begin ==
  /\ phase = "idle" /\ todo # <<>>
  /\ phase' = "rows" /\ call' = Head(todo) /\ todo' = Tail(todo)
  /\ i' = 1 /\ h' = 0
  /\ year' = ZeroColumns /\ sum' = ZeroColumns /\ table' = <<>>
  /\ earned' = NothingEarned /\ blocks' = 0 /\ earnedAll' = 0
  /\ UNCHANGED example

InRow == phase = "rows" /\ i < AsInt(call.rows + 1)

\* What a height pays to each column: block 1 pays its miner's to the founders.
Pays(n, p) ==
  LET b == BlockReward(n, p)
  IN  IF n = 1 THEN [b EXCEPT !["founders"] = @ + p["miner"], !["miner"] = 0] ELSE b

\* One round of the inner loop.
AddBlock ==
  /\ InRow /\ h < High(i)
  /\ \E p \in Payout :
       /\ year' = Credit(year, h, p)
       /\ blocks' = blocks + BlockSum(BlockReward(h, p))
       /\ earned' = [c \in Column |-> earned[c] + Pays(h, p)[c]]
  /\ h' = h + 1
  /\ UNCHANGED <<phase, example, todo, call, i, sum, table, earnedAll>>

\* Faulty: the total forgets the remainders of all rows but the last.
Total_Forget(s, y) == [coin |-> s.coin + y.coin, small |-> y.small]

\* A column of the total with one more row.
Total(s, y) == [coin |-> s.coin + y.coin, small |-> s.small + y.small]

\* The row is printed and added to the total; the next one begins.
EndRow ==
  /\ InRow /\ ~(h < High(i))
  /\ table' = Append(table, [low |-> Low(i), high |-> AsInt(High(i) - 1),
                             coins |-> [c \in Column |-> year[c].coin],
                             block |-> BlockColumn(year), paid |-> blocks])
  /\ sum' = [c \in Column |-> Total(sum[c], year[c])]
  /\ earnedAll' = earnedAll + blocks
  /\ i' = i + 1 /\ h' = Low(i + 1)
  /\ year' = ZeroColumns /\ earned' = NothingEarned /\ blocks' = 0
  /\ UNCHANGED <<phase, example, todo, call>>

\* The total is printed (its last column is BlockColumn(sum)) ...
EndRows ==
  /\ phase = "rows" /\ ~InRow
  /\ phase' = "total"
  /\ UNCHANGED <<example, todo, call, i, h, cells>>

\* ... and RewardStatistics returns.
Return ==
  /\ phase = "total"
  /\ phase' = "idle"
  /\ UNCHANGED <<example, todo, call, i, h, cells>>

\* The command has returned.
Ended == phase = "idle" /\ todo = <<>> /\ UNCHANGED vars

Next ==
  \/ GiveUp \/ RewardStatisticsHandle \/ RewardExample \/ ShowHeight \/ ShowTables
  \/ Begin \/ AddBlock \/ EndRow \/ EndRows \/ Return \/ Ended

Spec == Init /\ [][Next]_vars
-----------------------------------------------------------------------------
Cells == [coin : Nat, small : Nat]
Line == [coins : [Column -> Nat], block : Nat]
Height == [h : Int, line : Line, pays : [Column -> Nat], subsidy : Nat]
Row == [low : Int, high : Int, coins : [Column -> Nat], block : Nat, paid : Nat]

\* The types of the variables.
TypeOK ==
  /\ phase \in {"start", "heights", "idle", "rows", "total"}
  /\ heights \in Seq(Int)
  /\ shown \in Seq(Height)
  /\ todo \in Seq(Table) /\ call \in Table /\ i \in Nat /\ h \in Int
  /\ year \in [Column -> Cells] /\ sum \in [Column -> Cells] /\ table \in Seq(Row)
  /\ earned \in [Column -> Nat] /\ blocks \in Nat /\ earnedAll \in Nat

\* No unit is lost or made between a payout and a column, and the coins a
\* column shows are short of what was paid by at most one coin, and by one
\* only when that is a whole number of coins (the carry that AddReward leaves
\* undone when the remainder is exactly a coin).
ColumnsExact ==
  \A c \in Column :
    /\ year[c].coin * COIN + year[c].small = earned[c]
    /\ year[c].small <= COIN
    /\ year[c].coin # earned[c] \div COIN =>
         /\ year[c].coin + 1 = earned[c] \div COIN
         /\ earned[c] % COIN = 0

\* The last column is exact nevertheless: in a printed row it is the whole
\* coins of what "blockreward" shows for the blocks of the row together, and
\* in the total of what it shows for the blocks of all rows, which therefore
\* may exceed the rows above it, by less than a coin a row.
BlockColumnExact ==
  /\ \A k \in DOMAIN table : table[k].block = table[k].paid \div COIN
  /\ phase = "total" => BlockColumn(sum) = earnedAll \div COIN

\* The product of the heights of the first n rows is an int.
Fits(n) == n * YearBlocks * call.years \in -IntMax .. IntMax

\* The rows cover the heights from 0 on, without a gap and without overlap,
\* as far as the heights are ints.
RowsTile ==
  \A k \in DOMAIN table :
    Fits(k) => table[k].low = IF k = 1 THEN 0 ELSE table[k - 1].high + 1

\* A superblock's budget before StartBlock, which RewardHandle shows and
\* "blockreward" and the tables leave out.
EarlyBudget(n, p) == IF n \in Superblock /\ n < StartBlock THEN p["budget"] ELSE 0

\* The coins of a line's four columns together.
LineCoins(l) == l.coins["miner"] + l.coins["budget"] + l.coins["masternode"] + l.coins["founders"]

\* "rewardexample" and "blockreward" show the same of a height but for its
\* early budget, which is in the former's budget column.  Where the chain's
\* subsidy of the block is what "blockreward" adds up, the last columns are the
\* same too, so that RewardHandle's four columns, less the early budget, fall
\* short of its last one by the coins of four remainders: three at most, and
\* never exceed it.
HeightsAgree ==
  \A k \in DOMAIN shown :
    LET s     == shown[k]
        b     == BlockLine(s.h, s.pays)
        early == EarlyBudget(s.h, s.pays) \div COIN
    IN  /\ \A c \in Column : s.line.coins[c] = b.coins[c] + (IF c = "budget" THEN early ELSE 0)
        /\ s.subsidy = BlockSum(BlockReward(s.h, s.pays)) =>
             /\ s.line.block = b.block
             /\ s.line.block - (LineCoins(s.line) - early) \in 0 .. 3
=============================================================================
