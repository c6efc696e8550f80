---------------------------- MODULE MemPoolFill ----------------------------
(***************************************************************************)
(* The command getmempoolinfo (common/mempool.cpp): it makes one           *)
(* transaction, adds it to a pool again and again until the next copy      *)
(* would reach -maxmempool, and shows the pool whenever about a tenth of   *)
(* that was added.                                                         *)
(*                                                                         *)
(* A round depends on nothing that changes but the bytes in the pool: it   *)
(* spends the output of one previous transaction with one key, so every    *)
(* round makes the same transaction, and decodes it or fails alike.        *)
(***************************************************************************)
EXTENDS Integers

CONSTANTS
  MaxMempool,  \* what GetArg("-maxmempool") may be, in millions of bytes
  TxSize,      \* what GetTxSize may be, in bytes
  SigOps,      \* what GetSigOpCount may return for a script
  Million,     \* 1000000
  Tenth        \* 100000

ASSUME MemPoolAssumption ==
  /\ MaxMempool \subseteq Int /\ TxSize \subseteq Nat \ {0} /\ SigOps \subseteq Nat
  /\ Tenth \in Nat \ {0} /\ Million = 10 * Tenth

VARIABLES
  pc,         \* where GetMemPoolInfo is
  argument,   \* its second argument: atoi makes 1 of "1" and 0 of "true"
  max,        \* -maxmempool, from tool.conf or 300
  tx,         \* the transaction: its bytes, the operations of input and output
  decodes,    \* whether DecodeHexTx accepts it
  grows,      \* whether adding a transaction the pool has grows its bytes
  nSigOps,    \* the variable that GetPrevTX and NewTX add operations to
  size,       \* bytes since the pool was shown
  total,      \* GetTotalTxSize of the pool
  entries,    \* the entries of the pool, by their signature operations
  estimates,  \* whether EnableFeeCalc was called with true
  shown,      \* history: the bytes OutputInfo showed last
  announced   \* history: "MemPool is Full" was printed

inputs == <<argument, max, tx, decodes, grows>>
vars == <<pc, inputs, nSigOps, size, total, entries, estimates, shown, announced>>

Limit == max * Million

\* Faulty: the pool is shown ten times too seldom.
Due_Million(bytes) == bytes > max * Million

\* It is time to show the pool.
Due(bytes) == bytes > max * Tenth

\* Faulty: the loop stops before the round that says so.
IsFull_Early == total + tx.size >= Limit

IsFull == total >= Limit

\* Faulty: the pool alone is looked at, without the transaction to come.
NextOverflows_Pool == total >= Limit

NextOverflows == tx.size + total >= Limit

Init ==
  /\ pc = "called"
  /\ argument \in {"none", "0", "1", "true"} /\ max \in MaxMempool
  /\ tx \in [size : TxSize, ins : SigOps, outs : SigOps]
  /\ decodes \in BOOLEAN /\ grows \in BOOLEAN
  /\ nSigOps = 0 /\ size = 0 /\ total = 0 /\ entries = {}
  /\ estimates = FALSE /\ shown = -1 /\ announced = FALSE

\* Too few arguments: the example line is printed.
Example ==
  /\ pc = "called" /\ argument = "none"
  /\ pc' = "end"
  /\ UNCHANGED <<inputs, nSigOps, size, total, entries, estimates, shown, announced>>

\* What GetPrevTX and NewTX add to the count they are given: the operations of
\* the input and of the output, which both make with the same two scripts.
AddSigOps(n) == n + tx.ins + tx.outs

\* The empty pool is shown and GetPrevTX makes the previous transaction, whose
\* signature operations it leaves in nSigOps.
Start ==
  /\ pc = "called" /\ argument # "none"
  /\ pc' = "loop" /\ shown' = total
  /\ nSigOps' = AddSigOps(nSigOps)
  /\ UNCHANGED <<inputs, size, total, entries, estimates, announced>>

\* Faulty: nSigOps is not reset.
Reset_Not == nSigOps

Reset == 0

\* A round begins.
BeginRound ==
  /\ pc = "loop" /\ ~IsFull
  /\ pc' = "newtx" /\ nSigOps' = Reset
  /\ UNCHANGED <<inputs, size, total, entries, estimates, shown, announced>>

\* Faulty: a failure ends the loop.
AfterFailure_Break == "full"

\* A failure is followed by another round.
AfterFailure == "loop"

\* The operations are added before it shows whether the transaction decodes.
NewTX ==
  /\ pc = "newtx"
  /\ nSigOps' = AddSigOps(nSigOps)
  /\ pc' = IF decodes THEN "made" ELSE AfterFailure
  /\ UNCHANGED <<inputs, size, total, entries, estimates, shown, announced>>

\* EnableFeeCalc and the entry, which takes the operations from nSigOps.
MakeEntry ==
  /\ pc = "made"
  /\ estimates' = (argument = "1")
  /\ UNCHANGED nSigOps

\* Faulty: the loop goes on.
BreakFull_Continue ==
  /\ MakeEntry /\ NextOverflows
  /\ announced' = TRUE /\ pc' = "loop"
  /\ UNCHANGED <<inputs, size, total, entries, shown>>

\* The transaction would fill the pool.
BreakFull ==
  /\ MakeEntry /\ NextOverflows
  /\ size' = size + tx.size
  /\ announced' = TRUE /\ pc' = "full"
  /\ UNCHANGED <<inputs, total, entries, shown>>

\* The transaction is added.  The bytes are counted before the pool is shown
\* and the transaction added after it.
AddTX ==
  /\ MakeEntry /\ ~NextOverflows
  /\ IF Due(size + tx.size)
     THEN size' = 0 /\ shown' = total
     ELSE size' = size + tx.size /\ UNCHANGED shown
  /\ total' = IF entries = {} \/ grows THEN total + tx.size ELSE total
  /\ entries' = IF entries = {} THEN {nSigOps} ELSE entries
  /\ pc' = "loop"
  /\ UNCHANGED <<inputs, announced>>

\* The loop has ended: the pool is shown once more.
ShowLast ==
  /\ pc = "full" \/ (pc = "loop" /\ IsFull)
  /\ pc' = "end" /\ shown' = total
  /\ UNCHANGED <<inputs, nSigOps, size, total, entries, estimates, announced>>

\* The command has returned.
Ended == pc = "end" /\ UNCHANGED vars

Next ==
  \/ Example \/ Start \/ BeginRound \/ NewTX \/ BreakFull \/ AddTX
  \/ ShowLast \/ Ended

\* The command runs on its own in one thread.
Spec == Init /\ [][Next]_vars /\ WF_vars(Next)
-----------------------------------------------------------------------------
\* The types of the variables.
TypeOK ==
  /\ pc \in {"called", "loop", "newtx", "made", "full", "end"}
  /\ argument \in {"none", "0", "1", "true"} /\ max \in MaxMempool
  /\ tx \in [size : TxSize, ins : SigOps, outs : SigOps]
  /\ decodes \in BOOLEAN /\ grows \in BOOLEAN /\ estimates \in BOOLEAN
  /\ announced \in BOOLEAN
  /\ nSigOps \in Nat /\ size \in Nat /\ total \in Nat /\ shown \in Int
  /\ entries \in SUBSET Nat

\* Whatever -maxmempool is, 0 or negative too, the pool never reaches it: the
\* round that would is the one that ends the loop.
NeverFull == total = 0 \/ total < Limit

\* A command that returns from the loop has filled the pool to within one
\* transaction and said so, unless there was no room for a byte.
EndsFull ==
  pc = "end" /\ argument # "none" =>
    IF max > 0 THEN announced /\ total < Limit /\ total + tx.size >= Limit
    ELSE ~announced /\ total = 0 /\ entries = {}

\* While the pool grows the user is never more than a tenth and one
\* transaction behind: the bytes counted towards the next time the pool is
\* shown miss the transaction that was added right after the last time.
ShownInTime ==
  pc \in {"loop", "newtx", "made"} =>
    total = shown \/ total - shown <= max * Tenth + tx.size

\* An entry is made, and one is in the pool, with the operations of one
\* transaction, although nSigOps is one variable for the previous transaction
\* and those of all rounds, failed ones too.
EntryExact ==
  /\ pc = "made" => nSigOps = tx.ins + tx.outs
  /\ entries \subseteq {tx.ins + tx.outs}

\* There is no room at all, or the transaction decodes and either the pool
\* grows by what is added again or two transactions fill it.
LoopEnds ==
  max <= 0 \/ (decodes /\ (grows \/ tx.size + tx.size >= Limit))

\* What the command needs to return from the loop: a transaction that does not
\* decode is tried again without end, and one the pool does not grow by added.
EndsOnlyIf == pc = "end" /\ argument # "none" => LoopEnds

\* It needs nothing else: where the loop can end the command does end.
Termination == LoopEnds ~> pc = "end"

\* "Example: getmempoolinfo 0.0 true": who follows the example has the fee
\* estimates enabled.
ExampleEnables == entries # {} /\ argument = "true" => estimates
=============================================================================
