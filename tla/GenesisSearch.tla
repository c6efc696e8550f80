---------------------------- MODULE GenesisSearch ----------------------------
(***************************************************************************)
(* The "genesis" command (common/genesis.cpp): GenesisLookFor runs         *)
(* findGenesis once or twice, findGenesis forks worker threads running     *)
(* _get and joins them, and the workers share, without synchronisation,    *)
(* the header *pb that findGenesis goes on rewriting, the int counter      *)
(* iresult, and stdout, of which only the boxed report is printed under    *)
(* the mutex mtx.                                                          *)
(*                                                                         *)
(* The unsynchronised accesses are data races.  What a build can make of   *)
(* them is modelled by steps: a copy of the 256-bit nonce reads its two    *)
(* halves one after the other, findGenesis stores them one after the       *)
(* other, and result++ through the pointer is a load and a store.          *)
(***************************************************************************)
EXTENDS Integers, Sequences, FiniteSets

CONSTANTS
  Network,       \* Params().NetworkIDString(): "main", "test" or another name
  NumCores,      \* GetNumCores(), which may be 0 when it cannot be told
  ThreadCap,     \* the cap on the number of threads, 100
  Half,          \* number of values of half a nonce, 2^128
  Flag,          \* number of values of the 16 bits cleared at each end, 2^16
  Solution,      \* the <<call, nonce, time>> whose header hash meets the target
  RefreshAfter,  \* tries after which a worker refreshes nTime, 1000
  StartTime,     \* the unixTime argument, nTime of the header
  MaxClock       \* bound on the seconds that pass during a run

ASSUME GenesisAssumption ==
  /\ NumCores \in Nat /\ ThreadCap \in Nat
  /\ Flag \in Nat \ {0}
  /\ Half \in Nat \ {0} /\ Half % Flag = 0
  /\ RefreshAfter \in Nat /\ StartTime \in Nat /\ MaxClock \in Nat

Calls == CASE Network = "main" -> 2 [] Network = "test" -> 1 [] OTHER -> 0
Cpus == IF NumCores < ThreadCap THEN NumCores ELSE ThreadCap
Worker == 0 .. Cpus - 1
Nonce == 0 .. Half * Half - 1

\* Faulty: the two shifts are forgotten.
RandomNonce_Unshifted(rand) == rand

\* GetRandHash(), nonce <<= 32, nonce >>= 16 on a Half * Half wide integer.
RandomNonce(rand) == ((rand * Flag * Flag) % (Half * Half)) \div Flag

VARIABLES
  mpc,      \* where GenesisLookFor / findGenesis is
  call,     \* how many times findGenesis has been called
  forked,   \* i of the loop that forks the workers
  blk,      \* pb->nNonce, shared: its high and its low half
  drawn,    \* the local nonce of findGenesis
  result,   \* iresult, shared
  mtx,      \* the worker that holds mtx, or -1
  stdout,   \* what the workers have printed
  clock,    \* GetTime(), in seconds from the start of the command
  wpc,      \* where each worker is in _get
  nonce,    \* the nonce of each worker's private header
  ntime,    \* the nTime of each worker's private header
  offset,   \* each worker's timeoffset
  cnt,      \* each worker's cnt
  reg,      \* the value of *result a worker is incrementing
  start,    \* history: the nonce each worker's search started from
  given     \* history: the nonce findGenesis drew for each worker

local == <<wpc, nonce, ntime, offset, cnt, reg, start>>
vars == <<mpc, call, forked, blk, drawn, result, mtx, stdout, clock, local, given>>

Line == [who : Worker, kind : {"task", "open", "body", "close"},
         call : 1 .. 2, nonce : Nonce, time : Int]

Init ==
  /\ mpc = "begin" /\ call = 0 /\ forked = 0
  /\ blk = [hi |-> 0, lo |-> 1 % Half] /\ drawn = 0
  /\ result = 0 /\ mtx = -1 /\ stdout = <<>> /\ clock = 0
  /\ wpc = [w \in Worker |-> "unborn"]
  /\ nonce = [w \in Worker |-> 0] /\ ntime = [w \in Worker |-> StartTime]
  /\ offset = [w \in Worker |-> 0] /\ cnt = [w \in Worker |-> 0]
  /\ reg = [w \in Worker |-> 0]
  /\ start = [w \in Worker |-> 0] /\ given = [w \in Worker |-> 0]
-----------------------------------------------------------------------------
(* GenesisLookFor and findGenesis, on the main thread.                     *)

\* Too few arguments, or a network that is neither main nor test.
ReturnAtOnce ==
  /\ mpc = "begin"
  /\ mpc' = "end"
  /\ UNCHANGED <<call, forked, blk, drawn, result, mtx, stdout, clock, local, given>>

\* CreateGenesisBlock with nonce 1, then findGenesis: a fresh iresult and
\* no thread yet.  On the main network a second search, for regtest, follows.
BeginSearch ==
  /\ mpc \in {"begin", "returned"} /\ call < Calls
  /\ mpc' = "draw" /\ call' = call + 1 /\ forked' = 0
  /\ blk' = [hi |-> 0, lo |-> 1 % Half]
  /\ result' = 0
  /\ wpc' = [w \in Worker |-> "unborn"]
  /\ UNCHANGED <<drawn, mtx, stdout, clock, nonce, ntime, offset, cnt, reg, start, given>>

MoreToFork == forked < Cpus

\* A random nonce for the next worker; the first half of its store to pb.
DrawNonce ==
  /\ mpc = "draw" /\ MoreToFork
  /\ \E rand \in Nonce : drawn' = RandomNonce(rand)
  /\ blk' = [blk EXCEPT !.hi = drawn' \div Half]
  /\ mpc' = "spawn"
  /\ UNCHANGED <<call, forked, result, mtx, stdout, clock, local, given>>

\* Faulty: the nonce is stored only in part.
LowHalf_Kept == blk.lo

\* The half of the nonce that is stored last.
LowHalf == drawn % Half

\* The other half of the store, and std::thread(_get, pb, ...).
SpawnWorker ==
  /\ mpc = "spawn"
  /\ blk' = [blk EXCEPT !.lo = LowHalf]
  /\ wpc' = [wpc EXCEPT ![forked] = "copyHi"]
  /\ given' = [given EXCEPT ![forked] = drawn]
  /\ forked' = forked + 1
  /\ mpc' = "draw"
  /\ UNCHANGED <<call, drawn, result, mtx, stdout, clock, nonce, ntime, offset, cnt, reg, start>>

\* Faulty: only the thread forked last is joined; the threads are detached.
Joined_Last == Cpus > 0 => wpc[Cpus - 1] = "done"
Joined_Detached == TRUE

\* Every join has returned.
Joined == \A w \in Worker : wpc[w] = "done"

JoinAll ==
  /\ mpc = "draw" /\ forked = Cpus /\ Joined
  /\ mpc' = "returned"
  /\ UNCHANGED <<call, forked, blk, drawn, result, mtx, stdout, clock, local, given>>

Finish ==
  /\ mpc = "returned" /\ call = Calls
  /\ mpc' = "end"
  /\ UNCHANGED <<call, forked, blk, drawn, result, mtx, stdout, clock, local, given>>

Main == ReturnAtOnce \/ BeginSearch \/ DrawNonce \/ SpawnWorker \/ JoinAll \/ Finish
-----------------------------------------------------------------------------
(* _get, on each worker thread.                                            *)

Goto(w, from, to) == wpc[w] = from /\ wpc' = [wpc EXCEPT ![w] = to]
MainUnchanged == UNCHANGED <<mpc, call, forked, blk, drawn, clock, given>>

\* new ch(*pblock): one half of the nonce ...
CopyHi(w) ==
  /\ Goto(w, "copyHi", "copyLo")
  /\ nonce' = [nonce EXCEPT ![w] = blk.hi * Half]
  /\ MainUnchanged /\ UNCHANGED <<result, mtx, stdout, ntime, offset, cnt, reg, start>>

\* Faulty: the wrong sign.
TimeOffset_Sign == StartTime + clock

TimeOffset == StartTime - clock

\* ... and the other; then timeoffset is taken and the loop begins.
CopyLo(w) ==
  /\ Goto(w, "copyLo", "hash")
  /\ nonce' = [nonce EXCEPT ![w] = @ + blk.lo]
  /\ start' = [start EXCEPT ![w] = nonce'[w]]
  /\ ntime' = [ntime EXCEPT ![w] = StartTime]
  /\ offset' = [offset EXCEPT ![w] = TimeOffset]
  /\ cnt' = [cnt EXCEPT ![w] = 0]
  /\ MainUnchanged /\ UNCHANGED <<result, mtx, stdout, reg>>

\* Faulty: a find is reported without being counted.
AfterFind_Uncounted == "task"

\* A find is counted first.
AfterFind == "load"

Hash(w) ==
  /\ wpc[w] = "hash"
  /\ wpc' = [wpc EXCEPT ![w] =
               IF <<call, nonce[w], ntime[w]>> \in Solution THEN AfterFind ELSE "check"]
  /\ MainUnchanged
  /\ UNCHANGED <<result, mtx, stdout, nonce, ntime, offset, cnt, reg, start>>

\* The increment of *result, which is not atomic.
LoadResult(w) ==
  /\ Goto(w, "load", "store")
  /\ reg' = [reg EXCEPT ![w] = result]
  /\ MainUnchanged /\ UNCHANGED <<result, mtx, stdout, nonce, ntime, offset, cnt, start>>

StoreResult(w) ==
  /\ Goto(w, "store", "task")
  /\ result' = reg[w] + 1
  /\ MainUnchanged /\ UNCHANGED <<mtx, stdout, nonce, ntime, offset, cnt, reg, start>>

\* Faulty: the nonce of the shared header is printed.
Printed_Shared(w) == blk.hi * Half + blk.lo

\* The nonce a line shows.
Printed(w) == nonce[w]

Output(w, kind) ==
  stdout' = Append(stdout, [who |-> w, kind |-> kind, call |-> call,
                            nonce |-> Printed(w), time |-> ntime[w]])

\* "Task i get target." is printed before mtx is taken.
PrintTask(w) ==
  /\ Goto(w, "task", "lock")
  /\ Output(w, "task")
  /\ MainUnchanged /\ UNCHANGED <<result, mtx, nonce, ntime, offset, cnt, reg, start>>

\* Faulty: no lock.
MtxFree_Always == TRUE

MtxFree == mtx = -1

AcquireMtx(w) ==
  /\ Goto(w, "lock", "open")
  /\ MtxFree /\ mtx' = w
  /\ MainUnchanged /\ UNCHANGED <<result, stdout, nonce, ntime, offset, cnt, reg, start>>

\* The three statements of the box; the guard is released with the last one.
PrintBox(w) ==
  /\ \/ Goto(w, "open", "body") /\ Output(w, "open") /\ UNCHANGED mtx
     \/ Goto(w, "body", "close") /\ Output(w, "body") /\ UNCHANGED mtx
     \/ Goto(w, "close", "check") /\ Output(w, "close") /\ mtx' = -1
  /\ MainUnchanged /\ UNCHANGED <<result, nonce, ntime, offset, cnt, reg, start>>

\* The counter is positive: leave the loop, delete pb, return.
Stop(w) ==
  /\ Goto(w, "check", "done")
  /\ result > 0
  /\ MainUnchanged /\ UNCHANGED <<result, mtx, stdout, nonce, ntime, offset, cnt, reg, start>>

\* Faulty: the loop tries the same nonce again.
NextNonce_Same(n) == n

NextNonce(n) == (n + 1) % (Half * Half)

\* The rest of the loop body: the next nonce, and nTime refreshed when cnt
\* has passed its limit.
TryNext(w) ==
  /\ Goto(w, "check", "hash")
  /\ ~(result > 0)
  /\ nonce' = [nonce EXCEPT ![w] = NextNonce(@)]
  /\ LET refresh == cnt[w] > RefreshAfter IN
       /\ ntime' = [ntime EXCEPT ![w] = IF refresh THEN clock + offset[w] ELSE @]
       /\ cnt' = [cnt EXCEPT ![w] = (IF refresh THEN 0 ELSE @) + 1]
  /\ MainUnchanged /\ UNCHANGED <<result, mtx, stdout, offset, reg, start>>

Get(w) ==
  \/ CopyHi(w) \/ CopyLo(w) \/ Hash(w) \/ LoadResult(w) \/ StoreResult(w)
  \/ PrintTask(w) \/ AcquireMtx(w) \/ PrintBox(w) \/ Stop(w) \/ TryNext(w)

Tick ==
  /\ clock < MaxClock
  /\ clock' = clock + 1
  /\ UNCHANGED <<mpc, call, forked, blk, drawn, result, mtx, stdout, local, given>>

\* The command has returned and the process exits.
Ended == mpc = "end" /\ UNCHANGED vars

Next == Main \/ (\E w \in Worker : Get(w)) \/ Tick \/ Ended
Spec == Init /\ [][Next]_vars

\* The operating system schedules every thread, and a worker takes mtx at
\* most once in a search, so weak fairness is enough for the lock as well.
FairSpec == Spec /\ WF_vars(Main) /\ \A w \in Worker : WF_vars(Get(w))
-----------------------------------------------------------------------------
(* Properties.                                                             *)

Copied == {"hash", "load", "store", "task", "lock", "open", "body", "close", "check", "done"}
Printing == {"open", "body", "close"}

\* The types of the variables.
TypeOK ==
  /\ mpc \in {"begin", "draw", "spawn", "returned", "end"}
  /\ call \in 0 .. 2 /\ forked \in 0 .. Cpus
  /\ blk \in [hi : 0 .. Half - 1, lo : 0 .. Half - 1] /\ drawn \in Nonce
  /\ result \in Nat /\ mtx \in Worker \cup {-1}
  /\ stdout \in Seq(Line) /\ clock \in Nat
  /\ wpc \in [Worker -> {"unborn", "copyHi", "copyLo"} \cup Copied]
  /\ nonce \in [Worker -> Nonce] /\ ntime \in [Worker -> Int]
  /\ offset \in [Worker -> Int] /\ cnt \in [Worker -> Nat] /\ reg \in [Worker -> Nat]
  /\ start \in [Worker -> Nonce] /\ given \in [Worker -> Nonce]

\* Every header a worker puts on stdout meets the target of the search it
\* belongs to, although the worker went on running between the hash and the
\* print (_get reports pb, its own header, after the increment and the lock).
ReportsAreSolutions ==
  \A k \in DOMAIN stdout :
    <<stdout[k].call, stdout[k].nonce, stdout[k].time>> \in Solution

\* Between two lines there are but unlocked "Task" lines.
OnlyTasks(j, k) == \A i \in j + 1 .. k - 1 : stdout[i].kind = "task"

\* The three statements of a box follow one another for the same worker, and
\* no box begins before the last one is closed; only unlocked "Task" lines may
\* come in between (mtx).
BoxesContiguous ==
  \A k \in DOMAIN stdout :
    /\ stdout[k].kind \in {"body", "close"} =>
         \E j \in 1 .. k - 1 :
           /\ stdout[j].kind = IF stdout[k].kind = "body" THEN "open" ELSE "body"
           /\ stdout[j].who = stdout[k].who /\ OnlyTasks(j, k)
    /\ stdout[k].kind = "open" =>
         \A j \in 1 .. k - 1 : OnlyTasks(j, k) => stdout[j].kind \in {"task", "close"}

\* The increments of iresult race, yet no lost update hides a find: during a
\* search the counter the workers poll never falls back to 0.
FoundIsStable == [][result > 0 /\ call' = call => result' > 0]_vars

\* The counter is positive exactly when some worker of this search has stored
\* its find, and never exceeds the number of those workers: a lost update
\* makes it too small, never too large.
Finders ==
  {w \in Worker : \/ wpc[w] = "task"
                  \/ \E k \in DOMAIN stdout : stdout[k].who = w /\ stdout[k].call = call}
CounterCountsFinders ==
  /\ result > 0 <=> Finders # {}
  /\ result <= Cardinality(Finders)

\* Even a nonce copied while findGenesis is storing the next one has its two
\* end fields clear, so workers that started from different nonces do not
\* hash a nonce twice in their first Flag tries ("for local use as thread
\* flags and counters").
Tries(w) == (nonce[w] - start[w]) % (Half * Half)
DisjointScans ==
  \A w, v \in Worker :
    ( /\ wpc[w] \in Copied /\ wpc[v] \in Copied
      /\ start[w] # start[v] /\ Tries(w) < Flag /\ Tries(v) < Flag )
    => nonce[w] # nonce[v]

\* A search over at least one thread returns only after the complete report
\* of a find of that very search is on stdout.
Returned(c) == c \in 1 .. call /\ (c < call \/ mpc \in {"returned", "end"})
ReturnedWithReport ==
  \A c \in 1 .. 2 : Returned(c) /\ Worker # {} =>
    \E k \in DOMAIN stdout : stdout[k].kind = "close" /\ stdout[k].call = c

\* A worker's header is never dated before the requested time nor further
\* after it than the command has been running (timeoffset keeps the age).
TimeFollowsClock ==
  \A w \in Worker : wpc[w] \in Copied =>
    /\ ntime[w] \in StartTime .. StartTime + clock
    /\ clock + offset[w] \in StartTime .. StartTime + clock

\* Although findGenesis rewrites the shared nonce while a worker copies it, the
\* worker searches from a mixture of two nonces that were drawn for it or for
\* workers forked after it; the worker forked last gets the one drawn for it.
DrawnFor(w) ==
  {given[v] : v \in {u \in Worker : w <= u /\ u < forked}}
    \cup (IF mpc = "spawn" THEN {drawn} ELSE {})
NonceMixed ==
  \A w \in Worker : wpc[w] \in Copied =>
    \E hi, lo \in DrawnFor(w) : start[w] = (hi \div Half) * Half + (lo % Half)

\* "Randomise nonce", inside the loop that forks the workers: each worker
\* searches from the nonce drawn for it.
OwnNonce == \A w \in Worker : wpc[w] \in Copied => start[w] = given[w]

\* Every search ends once the target can be met, whatever the schedule.
Termination == <>(mpc = "end")

\* findGenesis is a fork-join search that cannot return empty-handed.
Search == INSTANCE ParallelSearch WITH
  MayQuit <- FALSE,
  phase <- IF mpc \in {"draw", "spawn"} THEN "searching" ELSE "idle",
  started <- {w \in Worker : wpc[w] # "unborn"},
  stopped <- {w \in Worker : wpc[w] = "done"},
  quit <- {},
  found <- result > 0
SearchSafety == Search!Spec

\* Once the find of a search is visible to the workers, findGenesis returns.
FindReleasesCaller == Search!FindReleasesCaller
=============================================================================
