----------------------------- MODULE MCRewards -----------------------------
(***************************************************************************)
(* Instances of Rewards for TLC: a coin of 3 units, years of 2 blocks, of  *)
(* which heights 1 and 2 and every other one from there are superblocks,   *)
(* and an int that ends at 15.                                             *)
(***************************************************************************)
EXTENDS Rewards

MCSuperblock == {1, 2, 4, 6}

Pay(m, b, n, f) ==
  [c \in Column |-> CASE c = "miner" -> m [] c = "budget" -> b
                       [] c = "masternode" -> n [] c = "founders" -> f]
MCPayout == {Pay(0, 4, 0, 1), Pay(1, 1, 5, 2), Pay(2, 5, 1, 3)}

\* What an ordinary height, a superblock and an early one pay in all, and more.
MCSubsidy == {BlockSum(BlockReward(n, p)) : n \in {1, 3, 4}, p \in MCPayout} \cup {12}

\* A table, arguments that leave nothing to do, and years and rows too large
\* for an int: two rows of eight years end at height 32.
MCArguments ==
  {[years |-> 1, rows |-> 4], [years |-> 0, rows |-> 2], [years |-> 1, rows |-> -1],
   [years |-> 8, rows |-> 2], [years |-> 1, rows |-> 15]}
MCHeights == {<<>>, <<4, 1>>, <<3, -1>>}

\* The calls of "rewardexample", with fewer rows.
MCExampleCalls == <<[years |-> 1, rows |-> 2], [years |-> 2, rows |-> 2]>>
=============================================================================
