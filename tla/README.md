# Verification of coin-tool

coin-tool is a command-line tool for a bitcoin-like chain (Ulord). One process
reads `tool.conf`, selects the main or the test network, looks its first argument
up in a table of commands and runs that command to its end. Most commands are
straight lines of calls into the chain library (fetched into `chainsrc`, not part
of the repository). The commands with behaviour of their own are two
multi-threaded searches (`genesis`, `findaddress`), an alert sender that manages
settings, nodes and sockets (`sendalert`), the reward tables (`rewardstatistics`,
`rewardexample`), a loop that fills a memory pool (`getmempoolinfo`), and six
commands about keys and signatures whose results the user carries from one to the next.

This directory holds TLA+ models of these parts, TLC configurations that check
them on small instances, and proofs, checked by TLAPS, of what holds of them
for every value of the constants. Paths below are relative to the
repository's root.

## 1. Inventory

| component | code | state | operations | modules | status |
|---|---|---|---|---|---|
| genesis search | `common/genesis.cpp` 41-231 | the shared header `*pb`, the counter `iresult`, `mtx`, stdout; per thread its own header, `timeoffset`, `cnt` | `GenesisLookFor`, `findGenesis`, `CreateGenesisBlock`, `_get` | `GenesisSearch` | modelled |
| address search | `common/keytool.cpp` 358-430 | `iresult`, stdout; per thread its key | `FindAddress`, `_getaddress`, `atob` | `AddressSearch` | modelled |
| settings and start-up | `common/utils.cpp` 49-57, 198-298, `tool/main.cpp` | `mapArgs`, `mapMultiArgs`, the chain parameters | `SetFilePath`, `ReadConfigFile`, `InitSys`, `ReadCurrentFile`, `main` | `Settings`, `CoinTool` | modelled |
| alert sender | `common/alerttool.cpp`, `common/utils.cpp` 324-369 | the alert, `vNodes`, sockets, the count of successes | `SendAlertHandle`, `SendAlert`, `CreateAlert`, `AddOneNode`, `FreeNode` | `AlertSender`, `CoinTool` | modelled |
| reward tables | `common/rewardtool.cpp` 12-180 | coins and remainder of each column, for the row and for the table | `AddReward`, `RewardStatistics`, `RewardStatisticsHandle`, `RewardHandle`, `RewardExample`, `BlockReward` | `Rewards` | modelled |
| mempool filler | `common/mempool.cpp` | a pool of transactions, a byte count, an accumulator of signature operations | `GetMemPoolInfo`, `GetPrevTX`, `NewTX`, `IsFull`, `OutputInfo` | `MemPoolFill` | modelled |
| keys and signatures | `common/keytool.cpp` 1-355 | the vectors of `CheckKey`; else none between calls | `newaddress`, `privkey`, `signmsg`, `verifymsg`, `compactsign`, `compactverify`, `CheckKey`, `IsPairOfKey` | `Signing`, `KeyCheck`, `KeyTool` | modelled |
| logger | `common/utils.cpp` 59-196 | debug and log lists, a log file | `ToolLog`, `WriteStr`, `PrintStr` | - | not modelled |
| fee calculators, time and RPC helpers | `common/rewardtool.cpp`, `common/genesis.cpp` 233-end | none | `MemPoolFee`, `GetTust`, `gettime`, `getrpc` | - | not modelled |
| center server, utiltool | `src/` | an HTTP server without handlers; a copy of the logger | - | - | not modelled |
| build | `CMakeLists.txt`, `cmake/` | - | - | - | not modelled |

How they interact:

- `main` calls `SetFilePath`, `ReadConfigFile` and `InitSys` before it dispatches;
  `mapArgs` and `mapMultiArgs` are globals of the chain library and every command
  may read them. `sendalert` reads a second file *into the same maps*, after the
  network has been selected.
- `SendAlert` passes nodes to `FreeNode` through the library's global `vNodes`.
- The searches share no state with the rest: their threads talk to each other and
  to the caller through one plain `int` and stdout, and `findGenesis` hands every
  thread a pointer to the one header it is still rewriting.

What is hard here, and what makes each component correct:

- **Races in the searches.** Nothing but the boxed report of `_get` is under a lock.
  `findGenesis` stores the next nonce in `*pb` while earlier threads copy it; `result++`
  may lose updates; the counter turns positive before (genesis) or after
  (findaddress) the find is printed. Still, a command must not return without a
  printed result, what is printed must be a solution, boxes must not be mixed,
  and a find must end the search.
- **Liveness.** The joins wait for every worker; each must see the counter. In
  `findaddress` a worker leaves for good when a key does not verify.
- **Order of the settings.** The first value of a setting counts, whichever file it
  came from, and every value is recorded; `-noX` is rewritten to `-X`, which also
  hits names that happen to begin with "no". The network is fixed between the
  two files. No alert may leave unless the key of that network signed it.
- **Partial failure.** Each connection and each relay of `sendalert` may fail on its
  own; the closing line must count right and every socket must be closed.
- **Arithmetic of the tables.** Coins and remainders are carried with `>` where one
  expects `>=`, and added up without a carry; the columns and the totals must
  nevertheless account for every unit paid, and rows must tile the heights, which
  are ints. The line of a height is made in two places, and its last column from
  different values.
- **An error text too long.** `showerror` prints into an array of 100 characters. The text for an
  uncompressed key that does not verify has 150, so that `newaddress` may die of one.
- **A loop that ends by its own effect.** `getmempoolinfo` adds the same transaction until
  the pool is full; a failed round is repeated as it was, and three counters with
  different resets decide what is shown and when the loop ends.
- **Erasing while walking.** `CheckKey` erases from the vector its loop walks along, once for
  every private key; no public key may be skipped, lost or listed under the wrong key.
- **Results that travel.** A key or signature printed by one command is checked by another,
  maybe on the other network or by the command for the other kind.

The complete list, with the lines, is under "hazards" in `PROJECT.json`.

## 2. Plan

All of it is done. In order of importance:

1. `ParallelSearch` (what a search promises) and `GenesisSearch`, its runs, and the
   proofs of `GenesisSearchProofs` and `ParallelSearchProofs`.
2. `AddressSearch`, which implements the same abstraction with workers that may
   give up; `AddressSearchProofs`.
3. `Settings`, extended by `AlertSender`, extended by `CoinTool`, which composes them
   with `main` and implements `Broadcast`; `CoinToolProofs`.
4. `Rewards`, with the argument handling, the lines of single heights and the width of `int`;
   `RewardsProofs`.
5. `MemPoolFill`; `MemPoolFillProofs`.
6. `Signing`, used by `KeyCheck` and by `KeyTool`; `KeyCheckProofs` and `KeyToolProofs`.

## 3. Modules

`M_Bug` operators (comment "Faulty: ...") stand before the definition `M` they are
a wrong version of: a test or a value that a step uses, made an operator of its
own. No specification uses them: each shows that a property of section 4 notices that bug.

### ParallelSearch - what a search promises

Variables `phase`, `started`, `stopped`, `quit`, `found`. A search begins, forks its
workers one by one, a worker leaves only once something was found (`Leave`), or by
giving up where `MayQuit` holds (`Quit`), and the caller goes on only when
all of `Worker` have been started and have left (`Join`). From this follows
`JoinedWithFind`: a caller that gets control back holds a find, unless every worker quit.

### GenesisSearch - the genesis command, `common/genesis.cpp`

| TLA+ | code |
|---|---|
| `mpc`, `call`, `forked` | where the main thread is; which of the searches (`GenesisLookFor` 218, 225); `i` of line 109 |
| `blk` | `pb->nNonce`, shared; two halves because the 256-bit store of line 118 and the copy of line 53 are not atomic |
| `result`, `reg` | `iresult`; the register of `(*result)++` (67), a load and a store |
| `mtx`, `stdout` | the mutex; everything the workers print |
| `nonce`, `ntime`, `offset`, `cnt` | each worker's `pb->nNonce`, `pb->nTime`, `timeoffset`, `cnt` |
| `clock`, `Tick` | `GetTime()` |
| `start`, `given` | history: the nonce a worker began with, the nonce drawn for it |
| `LowHalf` | the half of the nonce the store of line 118 writes last |
| `RandomNonce` | `GetRandHash()`, `<<= 32`, `>>= 16` on a `Half * Half` wide integer (114-117) |
| `BeginSearch`, `DrawNonce`, `SpawnWorker`, `JoinAll`, `Finish`, `ReturnAtOnce` | `GenesisLookFor` and `findGenesis` |
| `CopyHi`, `CopyLo`, `Hash`, `LoadResult`, `StoreResult`, `PrintTask`, `AcquireMtx`, `PrintBox`, `Stop`, `TryNext` | `_get`, statement by statement |

The target is a set `Solution` of (search, nonce, time) that meet it; nothing is assumed about it.

### AddressSearch - the findaddress command, `common/keytool.cpp`

`Exact` and `Folded` say which key's address holds which target, with and without
regard to case; `Unverifiable` are the keys `VerifyPubKey` refuses. `Poll`, `Draw`,
`Announce`, `LoadResult`, `StoreResult`, `Return` are `_getaddress`; `Start`, `SpawnWorker`,
`Congratulate`, `ShowHelp` are `FindAddress`. An announcement is two lines of stdout, which
others may interleave.

### Settings, AlertSender, CoinTool - `common/utils.cpp`, `common/alerttool.cpp`, `tool/main.cpp`

`Settings` has the two maps and `ReadLine`, one round of the loop of
`ReadCurrentFile` (and of the library's `ReadConfigFile`, its twin): the negation of the
key, the first value kept, every value recorded. `AlertSender` runs `SendAlert`
(`CreateAlert`, `NoNode`, `AddOneNode`, `Sign`, `CheckSignature`, `Relay`, `Report`, `FreeNode`)
with every library call free to fail; a node is an address and the number of its
socket. `CoinTool` composes them with `main`: `Start`, `ReadConf`, `InitSys`, the
dispatch, the alert file line by line, `RunSendAlert`, `Exit`, and `Abort` for a line
the parser throws on. `conf` and `file` are histories of the lines read. Of the scalar
fields of an alert the ID stands for all (they are treated alike: `AlertID` is the number `atoi` makes of the setting,
0 if it is none, and the default 1 without it), of its two sets the cancel set, a set of such numbers. `Number` says what
`atoi` makes of a value; values that differ as texts may be the same number.

`Broadcast` is what `sendalert` promises the network, without files, sockets or loops: the audience of an
alert is gathered (`Join`), closed by signing (`Sign`), told once each (`Tell`) only after the key was cleared against the
one network selected (`Select`, `Clear`), and disconnected (`Close`, `Done`). `AlertSafety` says that `CoinTool` implements
it: the audience are the nodes open or freed, those told are `relayed`, and a return before the report is `GiveUp`.

### Rewards - `common/rewardtool.cpp`

`GiveUp`, `RewardStatisticsHandle` and `RewardExample` are the two commands up to their
first call; `ShowHeight` is one height of `RewardHandle`, `ShowTables` the two tables after them.
`Begin`, `AddBlock`, `EndRow`, `EndRows` and `Return` are the loops of `RewardStatistics`. `Low`, `High` and
the bound of `InRow` are computed by `AsInt`: where a product leaves the range of an
`int` the behaviour is undefined in C++, and the model takes the wrap-around of the
machines the tool is built for. What a block pays is the library's
business: any member of `Payout` at any height. What it calls the subsidy of the block (`GetBlockSubsidy`) is a value of
its own, any member of `Subsidy`: `HeightRow`, the five columns of `RewardHandle`, takes the last from it, `BlockLine`, those of
`blockreward`, adds the parts up and divides. `pays`, `subsidy`, `earned`, `blocks` and `earnedAll` are
histories of what was paid, `blocks` and `earnedAll` as `blockreward` adds it up (`BlockReward`, `BlockSum`).
The lines of `shown` are kept up to the tables, which do not depend on them.

### MemPoolFill - `common/mempool.cpp`

| TLA+ | code |
|---|---|
| `argument`, `max`, `tx`, `decodes`, `grows` | the inputs: the second argument, `-maxmempool`, size and operations of the transaction, whether `DecodeHexTx` accepts it, whether the library's pool counts a duplicate |
| `nSigOps`, `size`, `total` | the accumulator of `GetPrevTX` and `NewTX`; the bytes since the pool was shown; `GetTotalTxSize` |
| `entries` | the entries of the pool, told apart by the operations they carry |
| `shown`, `announced` | history: what was printed |
| `Start`, `BeginRound` (reset of `nSigOps`, 117), `NewTX` (`AddSigOps`, 64 and 72), `MakeEntry` | `GetPrevTX`, which adds to `nSigOps` as well, and the steps of a round; `NewTX` goes back to the loop if the transaction does not decode (118) |
| `BreakFull`, `AddTX`, `ShowLast`, `Example` | the two ways out of a round (129, 138), the end, too few arguments |

Each round spends the same output with the same key and fee, so the transaction is an
input and not drawn anew. The pool and the decoder belong to the library.

### Signing, KeyCheck, KeyTool - `common/keytool.cpp`

`Signing` is the part without state: `MsgSign`, `MsgVerify`, `CompactSign`, `CompactVerify`
and `IsPairOfKey`. The cryptography is ideal: a signature names the pair (a compact one the
written form too) and the message it was made for, and checks for nothing else.
`KeyCheck` walks through `CheckKey` with its erasing loop; public keys are named by the number
of their line, so that equal ones are told apart. No command reaches `CheckKey`; it
is modelled for its callers to come. `KeyTool` is a user's session: each command is a process that
keeps nothing, and what is printed (`wallet`, `signatures`) may be handed to any later
command on any network. `MakeNewKey` and `MakeNewKeyFails` are the rounds of `newaddress`. `MakeNewKeyDies` is a round whose
error text overruns the array of `showerror` (`common/utils.cpp:174`; `Overruns` compares the two sizes): what that does is undefined
in C++, and of its outcomes the model takes that nothing needed was overwritten (`MakeNewKeyFails`) and that the process
dies, by a check of the stack or by what it overwrote. That it goes on with other variables overwritten is left out. The
other use of `showerror` that may overrun, a file that cannot be opened (`common/utils.cpp:257`, `:282`), ends the command in either case.

## 4. Runs

| run | question | instance |
|---|---|---|
| `genesis_test` | what racing workers start from, report, count and scan, and how they date it; `findGenesis` implements `ParallelSearch` | 2 threads (3 cores, cap 2), 16 nonces, a clock of 2 values, a solution good at any time, one good only at the requested second and one only at the next; refresh after 1 try |
| `genesis_main` | boxes, a report before each return, termination of both searches | 2 threads, 2 searches, 4 nonces |
| `genesis_nonce` | *violated*: a worker may start from a nonce not drawn for it | as `genesis_test`, clock fixed |
| `address_search` | when workers stop, what is announced, who is released and when; `FindAddress` implements `ParallelSearch` | 3 threads (4 cores, cap 3), 3 keys: one matches as written, one only without case, one does not verify; no target, two in two ways, one that no key holds |
| `address_congrats` | *violated*: congratulations without a find | 2 threads |
| `send_alert` | the network comes from `tool.conf`, the alert and the nodes from both files; who may sign; sockets and the closing line; `CoinTool` implements `Broadcast` | every `tool.conf` of up to 2 lines out of 9 and alert file of up to 3 out of 9, among them an ID and a cancelled ID that are no number, and two texts for the same one |
| `tool_node_line` | *violated*: the line the error message asks for adds no node | 1 + 2 lines |
| `reward_tables` | columns, rows and totals account for every unit; rows tile; the two lines of a height agree as far as they do | a coin of 3 units, 2 blocks a year, up to 4 rows or 2 calls, an `int` that ends at 15; heights of all kinds, subsidies that are the sum of what is paid and others |
| `mempool_fill` | where the loop ends, what it shows on the way, what the shared accumulator gives an entry, when it ends and when never | a million of 30 bytes; limits -1 to 2; transactions of 2, 4, 7, 30 and 40 bytes |
| `mempool_example` | *violated*: the printed example does not enable what it asks for | as `mempool_fill` |
| `key_check` | what the erasing loop prints, and that it ends | up to 3 private and 3 public keys out of a key in both forms, one that does not sign, one that is none |
| `key_commands` | what `newaddress` prints, which checks succeed | 2 key pairs, 2 messages, 2 networks, 2 signatures |

Why the bounds are enough. The races need two workers and the main thread: one
that copies while the next nonce is stored, two that increment at once, one that polls
between a find and its report. Three address workers let one quit and two find. Nonces
must have both cleared ends and a middle (`Flag` squared divides 16), and few
enough of them that a scan wraps. Two lines of `tool.conf` and three of a
file allow a value, its negation and a repetition across the files, and a key with
up to four nodes or with cancelled IDs of both files.
A remainder can make a coin exactly, exceed it, and stay below it with a coin of 3; two of the
requested tables leave the `int` and one stays in it. A tenth of 30 or 60 bytes is
less than, equal to and more than one of the sizes, which divide the limit or miss it. Three
public keys let an erase happen at the front, in the middle and at the end, and
three private ones let a pair come again after its public key is gone.
`MaxClock`, `MaxConf`, `MaxFile`, `MaxLines` and `MaxSignatures` are the only bounds the models put on
the code; the others are the sizes of constants.

`CHECK_DEADLOCK` is on in every run: a command that has returned stutters in `Ended`, so that
a state without a successor would be a command that hangs.

**Fairness.** `GenesisSearch` and `AddressSearch` assume weak fairness of the main thread and
of each worker: the operating system schedules every runnable thread. For `mtx` this is
enough, since a worker takes it at most once in a search, so that at most finitely
many acquisitions can overtake a waiting one. In `AddressSearch` strong fairness of `Lucky`
says that a worker that draws keys again and again eventually draws one that matches,
if one exists: keys are random and independent, so this has probability 1. The clock
needs no fairness. `Termination` of `genesis_main` needs that a scan of all nonces
meets the target; the instance has a nonce that does at every time. `MemPoolFill` and `KeyCheck`
are one thread each that nothing blocks: weak fairness of `Next`. `Termination` of the former
says that the command ends where `LoopEnds` holds, and `EndsOnlyIf` that it does not end elsewhere: with a transaction that does not
decode the loop repeats the failed round for ever. `CoinTool` and `Rewards` have no liveness
property: that each of their steps lowers a natural number is proved (`GetsDone`), which is more. `KeyTool` is a
session of the user's, which need not end.

**Findings.** `genesis_nonce`: all threads get the same pointer `pb` and copy it when
they start, while the loop of line 109 already stores the nonce of the next one
(`common/genesis.cpp:118`), so two threads may scan the same headers. How far it goes is proved: `NoncesAreMixed`,
`LastIsOwn` and `OneThreadOwn` in section 5.
`address_congrats`: "Congratulations!" (`common/keytool.cpp:427`) does not look at `iresult`.
Nor does it look at the number of threads, which is 0 where the machine does not tell its cores.
`tool_node_line`: the message of `common/alerttool.cpp:107` asks for `node=`, the
code reads `addnode` - and `node=` is even taken for the negation of `de`.
`mempool_example`: the example `getmempoolinfo 0.0 true` (`common/mempool.cpp:91`) passes `true`, of
which `atoi` makes 0: the fee estimates stay off.

## 5. Proofs

The theorems hold for every value of the constants that meets the named assumptions,
which the runs evaluate.

`GenesisSearchProofs`, for every number of cores, every width of the nonce and of its
cleared ends, every target and start time (`GenesisAssumption`: naturals, `Flag` positive
and a divisor of `Half`):

- `Invariance`: `Spec => []IInv`. `IInv` is the conjunction of `TypeOK` and
  - `ForkInv`: workers below `forked` have been started in the current search, the
    others not, and when no search is running all are done; this is what makes the joins mean something;
  - `CopyInv`: a half-copied nonce is a multiple of `Half`, so that the sum with the other half is a nonce;
  - `CounterInv`: a worker past its store, and any worker that left, implies a positive counter;
  - `HeaderInv`: a worker between its successful hash and the end of its report still holds
    the header it hashed;
  - `MtxInv`: who is printing a box holds `mtx`;
  - `ReportsAreSolutions`: needs `HeaderInv` to be inductive.
- `TypeCorrect`, `ReportsSound`: `[]TypeOK`, `[]ReportsAreSolutions`, from `Invariance`.
- `FoundStable`: `FoundIsStable`: a store writes a loaded value plus one, and loads are naturals.
- `Refinement`: `Spec => SearchSafety`. Each step maps to one of `Begin`, `Fork`, `Find`, `Leave`,
  `Join` or a stutter; a store maps to `Find`, `Stop` to `Leave` because it has seen a positive counter.
- `ReportBeforeReturn`: `[]ReturnedWithReport`. The invariant on top is `ReportInv`: if the counter is positive
  then either some worker is between its store and the end of its box, or a complete
  box of this search is on stdout; when all have left only the second is possible.
- `CounterRight`: `[]CounterCountsFinders`. `FinderInv` adds that a worker has a line on stdout exactly from its
  "Task" line on and that a loaded counter is at most the number of those that have stored: a store makes one more of them.
- `TimesFollow`: `[]TimeFollowsClock`, which is inductive on top of `IInv`: a refresh adds the kept offset to the clock.
- `BoxesWhole`: `[]BoxesContiguous`. `BoxInv`: the last line that is no "Task" line is the one the holder of `mtx`
  printed last, or closes a box if nobody is within one. `MtxInv` makes the holder unique;
  `TasksBetween` says what appending a line does to "only Task lines in between".
- `ScansDisjoint`: `[]DisjointScans`. The invariant on top is `AlignInv`: a drawn nonce, the low half of
  `blk` and every worker's `start` are multiples of `Flag`; since `Half` is one, this holds of a
  mixture of two nonces as well. Two different multiples of `Flag` are at least `Flag` apart, also modulo
  the width of a nonce, so that fewer than `Flag` tries cannot meet. The arithmetic is in
  the lemmas at the head of the module (division with remainder, its uniqueness, bounds on quotients).
- `NoncesAreMixed`: `[]NonceMixed`, what the race on the nonce can do at most: the two halves a worker starts from are those of
  nonces drawn for it or for workers forked after it. `MixInv` says what is in `blk` between two draws and what a half-copied
  nonce is; the set `DrawnFor(w)` only grows while the worker copies. Hence `LastIsOwn` (the worker forked last has its own
  nonce) and `OneThreadOwn` (where one thread is started `OwnNonce` holds: the violation of `genesis_nonce` needs two).
- `Settles`, `NeverStuck`: after a find no worker goes back in `_get`, `findGenesis` forks nothing twice, and every step but the
  clock's takes one of them further along finitely many places; and while the joins wait some worker can move,
  since who waits for `mtx` waits for one that is printing. These are the facts liveness rests on besides fairness.
- `ReportsOnce`: a worker reports one header in a search, each line once. `OnceInv`: the lines of this search show the header their
  worker still has, and the worker is past the place that prints them; it cannot come round again since its own
  store has made the counter positive (`FinderInv`), lost increments or not.

`AddressSearchProofs`, for every number of threads, key set and list of requests
(`AddressAssumption`: there is a key, an exact match is also one without case):

- `Invariance`: `Spec => []IInv`, where `IInv` is the conjunction of `TypeOK` and
  - `ForkInv`: as above; the closing line means that all workers have left;
  - `LeaveInv`: who has left either quit or has seen a positive counter;
  - `KeyInv`: the key being announced is the one that was tested, and its private key is
    on stdout before its address;
  - `CountInv`: `Counted`, the workers whose find is both on stdout and in the counter, only
    grows; the counter and every loaded value are at most its size, so a store of the loaded
    value plus one cannot overtake the finders although increments may be lost;
  - `AnnouncementsComplete`.
- `TypeCorrect`, `AnnouncedUsable` (`AnnouncementsComplete`), `StopJustified` (`StopsAfterAnnouncement`),
  `CongratsJustified` (`CongratsUnlessAllQuit`), and `Refinement` (`SearchSafety`): a `Draw` of a key that
  does not verify maps to `Quit`, a store to `Find`, the two ways of leaving on the counter to `Leave`.
- `Settles`: as above; a worker draws at most the key it is drawing. `AnnouncesOnce`: a worker announces one key, each line once.
- `CongratsTrue`: if no key is `Unverifiable` and there is a thread, `CongratsTruthful` holds: the violation of `address_congrats` needs
  a key that does not verify, and without one only a search without a thread is wrong.

`ParallelSearchProofs`: `ResumedWithFind`, `Spec => []JoinedWithFind`: what a caller of
either search may rely on, for any set of workers, quitting or not.

`CoinToolProofs`, for files of any length and content, any keys, networks and number of nodes
(`SettingsAssumption`, `AlertAssumption`, `CoinToolAssumption`: the settings the code reads are keys, and what a
negation leads to is one):

- `TypeCorrect`; `MapsAgree`: `mapArgs` has the first value of `mapMultiArgs`.
- `NetworkIsConfs`, `RelaysAreAuthorized`: from `IInv`, the conjunction of `TypeOK`, `HeadAgrees`,
  `NetworkFromConf` and
  - `Recorded`: a setting the files decide holds the first value the lines read so far give it;
  - `Phases`: nothing is selected before `tool.conf` has been read, no line of the alert file is read before that;
  - `Derived`: the alert, its signature and the settings they were made of have not changed since,
    so that what was checked is still so when a node is told.
- `NodesStayUsable`, `ReportsAreExact`, `NoSocketLeaks`: from `Fleet`, the conjunction of `TypeOK`, `ReportExact` and
  - `Nodes`: the sockets of `vNodes` grow along it, and before, during and after `FreeNode` the open
    ones are those of all nodes, of the rest, of none;
  - `Relays`: the nodes told are nodes the loop has passed, each one success.
- `AlertsAreFromFiles`, `NodesAreFromFiles`: `Listed` and `Picked` say that an order-preserving map leads from the
  values of a setting to the lines that gave them, and from the nodes to the values of `addnode`.
- `AlertRefinement`: `Spec => AlertSafety`, from `IInv` and `Fleet`. `AddOneNode` maps to `Join` because its socket is higher than every
  other, `Relay` to `Tell` because the sockets told are lower than the one the loop is at, `FreeNode` to `Close` or, behind the last
  node, to `Done`; every early return maps to `GiveUp`, the rest to a stutter.
- `GetsDoneHolds`: `GetsDone`, every step takes the process to a later stage or, within a loop, one round further of those left
  (`InLoop`: the position stays within what the loop walks along, which does not change under it).
- `DecisionsStand`: `NothingRevised`, the network, the settings and the alert are final once used, and no socket of a
  deleted node is ever open again.

`RewardsProofs`, for every coin, year, payout, table and width of `int` (`RewardsAssumption`): `TypeCorrect`;
`ColumnsAreExact` and `BlockColumnsExact` from `Cellwise` (each cell is worth what was paid to it, the total what was
paid in all) and the lemmas `AddRewardExact`, `CreditExact`, `BlockColumnWorth`; `RowsTileHeights` from `Placed` (row
`k` lies from `Low(k)` to `High(k) - 1`) and `FitsBelow`; `HeightsAlwaysAgree` from `Shown` and
`LinesAgree`, which compares the two lines for any payout and subsidy; that the four columns of a line miss the last by three coins
at most is `FourRemainders`. `RowsAreComplete`: the total is printed
below as many rows as were asked for, and below none for the largest `int`, whose loop bound wraps (`Counted`: the row is
the one behind those printed). `GetsDoneHolds`: every step lowers, in the order of the dictionary, five natural numbers,
what is left of the handlers, the calls, the table, its rows and the blocks of the row, even where products overflow.

`MemPoolFillProofs`, for every limit and every size of a transaction (`MemPoolAssumption`: a size is
positive, a million is ten tenths): `TypeCorrect`, and from `Filling` and `Lag` the theorems `NeverFullHolds`,
`EndsFullHolds`, `EntriesExact`, `ShownSoonEnough`. `Filling` says where the loop is and what is in the pool; `Lag`
bounds what has not been shown by the bytes counted and one transaction more. `EntriesExact` rests on `OwnOps`: a round adds to an
accumulator that was reset when it began. `EndsOnlyIfHolds` and `FillsUpHolds` together
say exactly when the loop ends: it is left only if `LoopEnds` holds (no room at all, or a transaction that decodes and
either a pool that grows or half the limit in one transaction), and where `LoopEnds` holds every step lowers `StepsLeft`.

`KeyCheckProofs`, for any keys and any number of lines (`SigningAssumption`, `KeyCheckAssumption`): `TypeCorrect` (the
position stays in the vector or right behind it), `NoneIsLost`, `ClaimsRight`, `OwnKeysShown`. The invariant is the
conjunction of `TypeOK`, `Phases`, `Kept` (claimed and waiting keys make up the list, nothing twice), `Claims` (what is
before the position has been refused by the current private key, and by all earlier ones) and `Owners`.
`PairsBelong` says what signing both ways tells, `RemoveAtProperties` and `RemoveAtRange` what an erase leaves.
`GetsDoneHolds`: every step lowers the natural number `StepsLeft`, those included that erase and stay where they are (`Sizes`).

`KeyToolProofs`, for any keys, messages, networks and arguments (`SigningAssumption`, `KeyToolAssumption`: there are
finitely many key pairs to draw): `TypeCorrect`; `KeysAlwaysAddUp` from `Drawn` (a batch is a finite part of the
wallet, the pairs of the wallet have been drawn, so that a new key is new, and a `newaddress` that died is not in its loop; that
it was asked for uncompressed keys is arithmetic on the sizes); `VerdictsExact` from `Signed` (a
signature is what its command makes of its key and message) and the lemma `SignatureSays`.

Only model-checked: the liveness properties (`Termination` of four runs, `FindReleasesCaller`), because fairness and ENABLED
are out of the prover's reach. Their safety halves are proved: `GetsDoneHolds`, `FillsUpHolds`, `Settles` and `NeverStuck` say that every
step brings the end nearer and that there is one to take; what is left to fairness is that it is taken, and, before a
find, that the search meets one. Sums over printed rows would need induction over data; the tables are therefore stated
against running sums (`earned`, `earnedAll`).
`TypeOK` of `GenesisSearch`, `AddressSearch`, `CoinTool`, `MemPoolFill`, `Rewards` and `KeyTool` is the other way around: proved, and in no run.

## 6. Not modelled

- The logger: `ToolLog` is only ever called with level 0, so nothing but a print runs.
- `MemPoolFee` and `CalcMemFee` are registered as no command; `GetTust`, `gettime` and `getrpc` print a library value.
- The center server and `utiltool` are not built; the CMake files describe the build only.
- The library itself: hashing, keys, sockets, the pool, the decoder, the consensus rules, the parser of
  the configuration file. The models use what the tool relies on (a call may fail; a key matches or
  not; a block pays something and has a subsidy; a pool grows by a duplicate or not).
- Of the tables, lines and help texts only what section 3 names: formatting is left out.
