------------------------ MODULE GenesisSearchProofs ------------------------
(***************************************************************************)
(* What holds of the genesis search for every number of threads, every     *)
(* width of the nonce and every target: theorems of GenesisSearch!Spec.    *)
(***************************************************************************)
EXTENDS GenesisSearch, FiniteSetTheorems, TLAPS

(***************************************************************************)
(* Facts about \div and % on the naturals.                                 *)
(***************************************************************************)
\* Euclidean division: quotient and remainder recompose the dividend.
LEMMA DivMod ==
  ASSUME NEW a \in Nat, NEW b \in Nat \ {0}
  PROVE  /\ a \div b \in Nat /\ a % b \in 0 .. b - 1
         /\ a = b * (a \div b) + (a % b)
  BY SMT

\* ... and are the only ones that do.
LEMMA QuotUnique ==
  ASSUME NEW b \in Nat \ {0}, NEW q \in Nat, NEW r \in 0 .. b - 1
  PROVE  /\ (q * b + r) \div b = q
         /\ (q * b + r) % b = r
  BY SMT

\* A number below the divisor is its own remainder.
LEMMA SmallMod ==
  ASSUME NEW b \in Nat \ {0}, NEW r \in 0 .. b - 1
  PROVE  r % b = r
  BY SMT

\* Multiplication is monotone.
LEMMA MulMono ==
  ASSUME NEW a \in Nat, NEW b \in Nat, NEW c \in Nat, a <= b
  PROVE  a * c <= b * c
  BY SMT

\* A number below b * c has a quotient by b below c.
LEMMA QuotBound ==
  ASSUME NEW a \in Nat, NEW b \in Nat \ {0}, NEW c \in Nat, a < b * c
  PROVE  a \div b < c
<1>1. a = b * (a \div b) + (a % b) /\ a \div b \in Nat /\ a % b \in Nat
  BY DivMod, SMT
<1>2. a \div b >= c => b * (a \div b) >= b * c
  BY <1>1, SMT
<1> QED
  BY <1>1, <1>2, SMT
-----------------------------------------------------------------------------
(* The arithmetic of a nonce and its two halves.                           *)

\* Two halves make a nonce: what a copy of pb->nNonce puts together.
LEMMA HalvesFit ==
  ASSUME NEW h \in 0 .. Half - 1, NEW l \in 0 .. Half - 1
  PROVE  h * Half + l \in Nonce
<1>1. h * Half <= (Half - 1) * Half /\ h * Half \in Nat
  BY GenesisAssumption, MulMono, SMT
<1> QED
  BY <1>1, GenesisAssumption, SMT DEF Nonce

\* A nonce has two halves: what findGenesis stores one after the other.
LEMMA NonceHalves ==
  ASSUME NEW n \in Nonce
  PROVE  /\ n \div Half \in 0 .. Half - 1
         /\ n % Half \in 0 .. Half - 1
<1>1. n \in Nat /\ n < Half * Half /\ Half \in Nat \ {0}
  BY GenesisAssumption, SMT DEF Nonce
<1>2. n \div Half < Half
  BY <1>1, QuotBound
<1>3. n \div Half \in Nat /\ n % Half \in 0 .. Half - 1
  BY <1>1, DivMod
<1> QED
  BY <1>1, <1>2, <1>3, SMT

\* The two shifts of findGenesis clear the lowest field of the nonce, as the
\* comment above them says, and leave a nonce.
LEMMA RandomNonceAligned ==
  ASSUME NEW rand \in Nonce
  PROVE  /\ RandomNonce(rand) \in Nonce
         /\ RandomNonce(rand) % Flag = 0
<1> DEFINE Q == Half \div Flag
           b == rand % (Q * Q)
           a == rand \div (Q * Q)
<1>1. Half = Flag * Q /\ Q \in Nat \ {0} /\ Flag \in Nat \ {0}
  BY DivMod, GenesisAssumption, SMT
<1>2. rand \in Nat /\ Q * Q \in Nat \ {0}
  BY <1>1, GenesisAssumption, SMT DEF Nonce
<1>3. a \in Nat /\ b \in 0 .. (Q * Q) - 1 /\ rand = (Q * Q) * a + b
  BY <1>2, DivMod
<1> DEFINE M == Half * Half
           low == (b * Flag) * Flag
<1> HIDE DEF a, b, Q
<1>4. M = (Flag * Flag) * (Q * Q) /\ M \in Nat \ {0}
  BY <1>1, SMT
<1>5. low \in 0 .. M - 1
  <2>1. (Flag * Flag) * b <= (Flag * Flag) * ((Q * Q) - 1)
    BY <1>1, <1>2, <1>3, SMT
  <2> QED
    BY <2>1, <1>1, <1>2, <1>3, <1>4, SMT
<1>6. (rand * Flag) * Flag = a * M + low
  BY <1>1, <1>2, <1>3, <1>4, SMT
<1>7. ((rand * Flag) * Flag) % M = low
  BY <1>3, <1>4, <1>5, <1>6, QuotUnique
<1>8. RandomNonce(rand) = low \div Flag
  BY <1>7 DEF RandomNonce
<1>9. RandomNonce(rand) = b * Flag
  <2>1. b * Flag \in Nat /\ low = (b * Flag) * Flag + 0
    BY <1>1, <1>3, SMT
  <2> QED
    BY <2>1, <1>1, <1>8, QuotUnique
<1>10. (b * Flag) % Flag = 0
  <2>1. b * Flag = b * Flag + 0 /\ b \in Nat
    BY <1>1, <1>3, SMT
  <2> QED
    BY <2>1, <1>1, QuotUnique
<1>11. b * Flag <= low /\ b * Flag \in Nat
  BY <1>1, <1>3, SMT
<1> QED
  BY <1>4, <1>5, <1>9, <1>10, <1>11, SMT DEF Nonce
-----------------------------------------------------------------------------
(* The inductive invariant.                                                *)

\* Workers are forked in order, and run only while findGenesis does.
ForkInv ==
  /\ mpc = "spawn" => forked < Cpus
  /\ mpc = "begin" => call = 0 /\ forked = 0
  /\ mpc \in {"draw", "spawn", "returned"} => call \in 1 .. 2
  /\ \A w \in Worker : wpc[w] = "unborn" <=> w >= forked
  /\ mpc \in {"begin", "returned", "end"} =>
       \A w \in Worker : wpc[w] \in {"unborn", "done"}

\* A nonce half copied is a multiple of Half.
CopyInv ==
  \A w \in Worker : wpc[w] = "copyLo" =>
    \E h \in 0 .. Half - 1 : nonce[w] = h * Half

\* A worker past its store has made the counter positive, and one that is
\* done has seen it positive.
CounterInv ==
  \A w \in Worker :
    wpc[w] \in {"task", "lock", "open", "body", "close", "done"} => result > 0

\* From the hash to the end of its box a worker keeps the header it found.
HeaderInv ==
  \A w \in Worker :
    wpc[w] \in {"load", "store", "task", "lock", "open", "body", "close"} =>
      <<call, nonce[w], ntime[w]>> \in Solution

\* mtx is held by the worker that is printing its box, and only then.
MtxInv == \A w \in Worker : wpc[w] \in Printing <=> mtx = w

IInv ==
  /\ TypeOK /\ ForkInv /\ CopyInv /\ CounterInv /\ HeaderInv /\ MtxInv
  /\ ReportsAreSolutions

\* The number of threads is a natural number.
LEMMA CpusNat == Cpus \in Nat /\ Calls \in 0 .. 2
  BY GenesisAssumption DEF Cpus, Calls

\* The command starts in the invariant.
LEMMA InitInv == Init => IInv
<1> SUFFICES ASSUME Init PROVE IInv
  OBVIOUS
<1> USE GenesisAssumption, CpusNat
<1>1. 1 % Half \in 0 .. Half - 1 /\ 0 \in 0 .. Half - 1
  BY DivMod, SMT
<1>2. 0 \in Nonce
  <2>1. 0 * Half + 0 \in Nonce
    BY HalvesFit, <1>1
  <2> QED
    BY <2>1, SMT
<1>3. TypeOK
  BY <1>1, <1>2 DEF Init, TypeOK, Worker
<1>4. ForkInv /\ MtxInv
  BY DEF Init, ForkInv, MtxInv, Worker, Printing
<1>5. CopyInv /\ CounterInv /\ HeaderInv /\ ReportsAreSolutions
  BY DEF Init, CopyInv, CounterInv, HeaderInv, ReportsAreSolutions
<1> QED
  BY <1>3, <1>4, <1>5 DEF IInv

\* The main thread keeps the invariant.
LEMMA MainStep ==
  ASSUME IInv, Main
  PROVE  IInv'
<1> USE GenesisAssumption, CpusNat
<1> USE DEF IInv
<1>0. 1 % Half \in 0 .. Half - 1 /\ 0 \in 0 .. Half - 1
  BY DivMod, SMT
<1>1. CASE ReturnAtOnce
  <2>1. TypeOK'
    BY <1>1 DEF ReturnAtOnce, local, TypeOK
  <2>2. ForkInv'
    BY <1>1 DEF ReturnAtOnce, local, ForkInv
  <2>3. CopyInv' /\ CounterInv' /\ HeaderInv' /\ MtxInv' /\ ReportsAreSolutions'
    BY <1>1 DEF ReturnAtOnce, local, CopyInv, CounterInv, HeaderInv, MtxInv,
                ReportsAreSolutions
  <2> QED
    BY <2>1, <2>2, <2>3
<1>2. CASE BeginSearch
  <2>1. TypeOK'
    BY <1>0, <1>2 DEF BeginSearch, TypeOK, Worker
  <2>2. ForkInv'
    BY <1>2 DEF BeginSearch, ForkInv, TypeOK, Worker
  <2>3. CopyInv' /\ CounterInv' /\ HeaderInv' /\ ReportsAreSolutions'
    BY <1>2 DEF BeginSearch, CopyInv, CounterInv, HeaderInv, ReportsAreSolutions
  <2>4. MtxInv'
    BY <1>2 DEF BeginSearch, MtxInv, ForkInv, Printing
  <2> QED
    BY <2>1, <2>2, <2>3, <2>4
<1>3. CASE DrawNonce
  <2>1. drawn' \in Nonce
    BY <1>3, RandomNonceAligned DEF DrawNonce, MoreToFork
  <2>2. drawn' \div Half \in 0 .. Half - 1
    BY <2>1, NonceHalves
  <2>3. TypeOK'
    BY <1>3, <2>1, <2>2 DEF DrawNonce, MoreToFork, local, TypeOK
  <2>4. ForkInv'
    BY <1>3 DEF DrawNonce, MoreToFork, local, ForkInv, TypeOK
  <2>5. CopyInv' /\ CounterInv' /\ HeaderInv' /\ MtxInv' /\ ReportsAreSolutions'
    BY <1>3 DEF DrawNonce, MoreToFork, local, CopyInv, CounterInv, HeaderInv, MtxInv,
                ReportsAreSolutions
  <2> QED
    BY <2>3, <2>4, <2>5
<1>4. CASE SpawnWorker
  <2>1. /\ forked \in Worker /\ wpc[forked] = "unborn"
        /\ forked' \in 0 .. Cpus /\ call \in 1 .. 2
    <3>1. forked \in 0 .. Cpus /\ forked < Cpus /\ call \in 1 .. 2
      BY <1>4 DEF SpawnWorker, LowHalf, ForkInv, TypeOK
    <3>2. forked \in Worker /\ forked + 1 \in 0 .. Cpus
      BY <3>1 DEF Worker
    <3> QED
      BY <1>4, <3>1, <3>2 DEF SpawnWorker, LowHalf, ForkInv
  <2>2. drawn % Half \in 0 .. Half - 1
    BY NonceHalves DEF TypeOK
  <2>3. TypeOK'
    BY <1>4, <2>1, <2>2 DEF SpawnWorker, LowHalf, TypeOK
  <2>4. ForkInv'
    <3>1. \A w \in Worker : wpc'[w] = IF w = forked THEN "copyHi" ELSE wpc[w]
      BY <1>4 DEF SpawnWorker, LowHalf, TypeOK
    <3>2. \A w \in Worker : wpc'[w] = "unborn" <=> w >= forked'
      BY <1>4, <2>1, <3>1 DEF SpawnWorker, LowHalf, ForkInv, Worker
    <3> QED
      BY <1>4, <2>1, <3>2 DEF SpawnWorker, LowHalf, ForkInv
  <2>5. CopyInv' /\ CounterInv' /\ HeaderInv' /\ MtxInv' /\ ReportsAreSolutions'
    BY <1>4, <2>1 DEF SpawnWorker, LowHalf, CopyInv, CounterInv, HeaderInv, MtxInv, Printing,
                      ReportsAreSolutions, TypeOK
  <2> QED
    BY <2>3, <2>4, <2>5
<1>5. CASE JoinAll
  <2>1. TypeOK'
    BY <1>5 DEF JoinAll, Joined, local, TypeOK
  <2>2. ForkInv'
    BY <1>5 DEF JoinAll, Joined, local, ForkInv
  <2>3. CopyInv' /\ CounterInv' /\ HeaderInv' /\ MtxInv' /\ ReportsAreSolutions'
    BY <1>5 DEF JoinAll, Joined, local, CopyInv, CounterInv, HeaderInv, MtxInv,
                ReportsAreSolutions
  <2> QED
    BY <2>1, <2>2, <2>3
<1>6. CASE Finish
  <2>1. TypeOK'
    BY <1>6 DEF Finish, local, TypeOK
  <2>2. ForkInv'
    BY <1>6 DEF Finish, local, ForkInv
  <2>3. CopyInv' /\ CounterInv' /\ HeaderInv' /\ MtxInv' /\ ReportsAreSolutions'
    BY <1>6 DEF Finish, local, CopyInv, CounterInv, HeaderInv, MtxInv, ReportsAreSolutions
  <2> QED
    BY <2>1, <2>2, <2>3
<1> QED
  BY <1>1, <1>2, <1>3, <1>4, <1>5, <1>6 DEF Main

\* A worker keeps the invariant.
LEMMA GetStep ==
  ASSUME IInv, NEW w \in Worker, Get(w)
  PROVE  IInv'
<1> USE GenesisAssumption, CpusNat
<1> USE DEF IInv, Goto, MainUnchanged, Copied, Printing
<1>0. /\ wpc[w] \in Copied \cup {"copyHi", "copyLo"} /\ wpc[w] # "done"
      /\ mpc \in {"draw", "spawn"} /\ call \in 1 .. 2
      /\ w < forked
  <2>1. wpc[w] \in Copied \cup {"copyHi", "copyLo"} /\ wpc[w] # "done"
    BY DEF Get, CopyHi, CopyLo, TimeOffset, Hash, AfterFind, LoadResult, StoreResult,
           PrintTask, AcquireMtx, MtxFree, PrintBox, Stop, TryNext, NextNonce
  <2>2. mpc \in {"draw", "spawn"} /\ call \in 1 .. 2
    BY <2>1 DEF ForkInv, TypeOK
  <2> QED
    BY <2>1, <2>2, CpusNat DEF ForkInv, TypeOK, Worker
<1>a. ASSUME wpc' = [wpc EXCEPT ![w] = wpc'[w]], wpc'[w] # "unborn", MainUnchanged
      PROVE  ForkInv'
  <2>1. \A v \in Worker : wpc'[v] = "unborn" <=> wpc[v] = "unborn"
    BY <1>0, <1>a DEF TypeOK
  <2> QED
    BY <1>0, <1>a, <2>1 DEF ForkInv
<1>b. ASSUME NEW kind \in {"task", "open", "body", "close"}, Output(w, kind),
             <<call, nonce[w], ntime[w]>> \in Solution
      PROVE  stdout' \in Seq(Line) /\ ReportsAreSolutions'
  <2> DEFINE line == [who |-> w, kind |-> kind, call |-> call,
                      nonce |-> nonce[w], time |-> ntime[w]]
  <2>1. line \in Line
    BY <1>0 DEF Line, TypeOK
  <2>2. stdout \in Seq(Line) /\ stdout' = Append(stdout, line)
    BY <1>b DEF Output, Printed, TypeOK
  <2>3. /\ stdout' \in Seq(Line)
        /\ Len(stdout') = Len(stdout) + 1 /\ stdout'[Len(stdout')] = line
        /\ \A k \in 1 .. Len(stdout) : stdout'[k] = stdout[k]
    <3> HIDE DEF line
    <3> QED
      BY <2>1, <2>2
  <2>4. ASSUME NEW k \in DOMAIN stdout'
        PROVE  <<stdout'[k].call, stdout'[k].nonce, stdout'[k].time>> \in Solution
    <3>1. CASE k = Len(stdout')
      BY <1>b, <2>3, <3>1
    <3>2. CASE k # Len(stdout')
      <4>1. k \in DOMAIN stdout /\ stdout'[k] = stdout[k]
        BY <2>2, <2>3, <3>2
      <4> QED
        BY <4>1 DEF ReportsAreSolutions
    <3> QED
      BY <3>1, <3>2
  <2> QED
    BY <2>3, <2>4 DEF ReportsAreSolutions
<1>1. CASE CopyHi(w)
  <2>0. blk.hi * Half \in Nonce
    <3>1. 0 \in 0 .. Half - 1 /\ blk.hi \in 0 .. Half - 1
      BY DEF TypeOK
    <3>2. blk.hi * Half + 0 \in Nonce
      BY <3>1, HalvesFit
    <3> QED
      BY <3>1, <3>2
  <2>1. TypeOK'
    BY <1>0, <1>1, <2>0 DEF CopyHi, TypeOK
  <2>2. ForkInv'
    BY <1>a, <1>1 DEF CopyHi, TypeOK
  <2>3. CopyInv'
    BY <1>0, <1>1 DEF CopyHi, TypeOK, CopyInv
  <2>4. CounterInv'
    BY <1>0, <1>1 DEF CopyHi, TypeOK, CounterInv
  <2>5. HeaderInv'
    BY <1>0, <1>1 DEF CopyHi, TypeOK, HeaderInv
  <2>6. MtxInv'
    BY <1>0, <1>1 DEF CopyHi, TypeOK, MtxInv
  <2>7. ReportsAreSolutions'
    BY <1>0, <1>1 DEF CopyHi, TypeOK, ReportsAreSolutions
  <2> QED
    BY <2>1, <2>2, <2>3, <2>4, <2>5, <2>6, <2>7
<1>2. CASE CopyLo(w)
  <2>0. nonce[w] + blk.lo \in Nonce
    <3>1. PICK h \in 0 .. Half - 1 : nonce[w] = h * Half
      BY <1>2 DEF CopyLo, TimeOffset, CopyInv
    <3>2. blk.lo \in 0 .. Half - 1
      BY DEF TypeOK
    <3> QED
      BY <3>1, <3>2, HalvesFit
  <2>1. TypeOK'
    <3>1. nonce' \in [Worker -> Nonce] /\ nonce'[w] \in Nonce
      BY <1>2, <2>0 DEF CopyLo, TimeOffset, TypeOK
    <3>2. start' \in [Worker -> Nonce]
      BY <1>2, <3>1 DEF CopyLo, TimeOffset, TypeOK
    <3>3. ntime' \in [Worker -> Int] /\ offset' \in [Worker -> Int]
      BY <1>2, SMTT(30) DEF CopyLo, TimeOffset, TypeOK
    <3>4. /\ cnt' \in [Worker -> Nat]
          /\ wpc' \in [Worker -> {"unborn", "copyHi", "copyLo"} \cup Copied]
      BY <1>2, SMTT(30) DEF CopyLo, TimeOffset, TypeOK
    <3> QED
      BY <1>2, <3>1, <3>2, <3>3, <3>4 DEF CopyLo, TimeOffset, TypeOK
  <2>2. ForkInv'
    BY <1>a, <1>2 DEF CopyLo, TimeOffset, TypeOK
  <2>3. CopyInv'
    BY <1>0, <1>2 DEF CopyLo, TimeOffset, TypeOK, CopyInv
  <2>4. CounterInv'
    BY <1>0, <1>2 DEF CopyLo, TimeOffset, TypeOK, CounterInv
  <2>5. HeaderInv'
    BY <1>0, <1>2 DEF CopyLo, TimeOffset, TypeOK, HeaderInv
  <2>6. MtxInv'
    BY <1>0, <1>2 DEF CopyLo, TimeOffset, TypeOK, MtxInv
  <2>7. ReportsAreSolutions'
    BY <1>0, <1>2 DEF CopyLo, TimeOffset, TypeOK, ReportsAreSolutions
  <2> QED
    BY <2>1, <2>2, <2>3, <2>4, <2>5, <2>6, <2>7
<1>3. CASE Hash(w)
  <2>1. TypeOK'
    BY <1>0, <1>3 DEF Hash, AfterFind, TypeOK
  <2>2. ForkInv'
    BY <1>a, <1>3 DEF Hash, AfterFind, TypeOK
  <2>3. CopyInv'
    BY <1>0, <1>3 DEF Hash, AfterFind, TypeOK, CopyInv
  <2>4. CounterInv'
    BY <1>0, <1>3 DEF Hash, AfterFind, TypeOK, CounterInv
  <2>5. HeaderInv'
    BY <1>0, <1>3 DEF Hash, AfterFind, TypeOK, HeaderInv
  <2>6. MtxInv'
    BY <1>0, <1>3 DEF Hash, AfterFind, TypeOK, MtxInv
  <2>7. ReportsAreSolutions'
    BY <1>0, <1>3 DEF Hash, AfterFind, TypeOK, ReportsAreSolutions
  <2> QED
    BY <2>1, <2>2, <2>3, <2>4, <2>5, <2>6, <2>7
<1>4. CASE LoadResult(w)
  <2>1. TypeOK'
    BY <1>0, <1>4 DEF LoadResult, TypeOK
  <2>2. ForkInv'
    BY <1>a, <1>4 DEF LoadResult, TypeOK
  <2>3. CopyInv'
    BY <1>0, <1>4 DEF LoadResult, TypeOK, CopyInv
  <2>4. CounterInv'
    BY <1>0, <1>4 DEF LoadResult, TypeOK, CounterInv
  <2>5. HeaderInv'
    BY <1>0, <1>4 DEF LoadResult, TypeOK, HeaderInv
  <2>6. MtxInv'
    BY <1>0, <1>4 DEF LoadResult, TypeOK, MtxInv
  <2>7. ReportsAreSolutions'
    BY <1>0, <1>4 DEF LoadResult, TypeOK, ReportsAreSolutions
  <2> QED
    BY <2>1, <2>2, <2>3, <2>4, <2>5, <2>6, <2>7
<1>5. CASE StoreResult(w)
  <2>1. TypeOK'
    BY <1>0, <1>5, SMTT(20) DEF StoreResult, TypeOK
  <2>2. ForkInv'
    BY <1>a, <1>5 DEF StoreResult, TypeOK
  <2>3. CopyInv'
    BY <1>0, <1>5 DEF StoreResult, TypeOK, CopyInv
  <2>4. CounterInv'
    BY <1>0, <1>5, SMTT(30) DEF StoreResult, TypeOK, CounterInv
  <2>5. HeaderInv'
    BY <1>0, <1>5 DEF StoreResult, TypeOK, HeaderInv
  <2>6. MtxInv'
    BY <1>0, <1>5 DEF StoreResult, TypeOK, MtxInv
  <2>7. ReportsAreSolutions'
    BY <1>0, <1>5 DEF StoreResult, TypeOK, ReportsAreSolutions
  <2> QED
    BY <2>1, <2>2, <2>3, <2>4, <2>5, <2>6, <2>7
<1>6. CASE PrintTask(w)
  <2>0. stdout' \in Seq(Line) /\ ReportsAreSolutions'
    BY <1>6, <1>b DEF PrintTask, HeaderInv
  <2>1. TypeOK'
    BY <1>0, <1>6, <2>0 DEF PrintTask, TypeOK
  <2>2. ForkInv'
    BY <1>a, <1>6 DEF PrintTask, TypeOK
  <2>3. CopyInv'
    BY <1>0, <1>6 DEF PrintTask, TypeOK, CopyInv
  <2>4. CounterInv'
    BY <1>0, <1>6 DEF PrintTask, TypeOK, CounterInv
  <2>5. HeaderInv'
    BY <1>0, <1>6 DEF PrintTask, TypeOK, HeaderInv
  <2>6. MtxInv'
    BY <1>0, <1>6 DEF PrintTask, TypeOK, MtxInv
  <2> QED
    BY <2>0, <2>1, <2>2, <2>3, <2>4, <2>5, <2>6
<1>7. CASE AcquireMtx(w)
  <2>1. TypeOK'
    BY <1>0, <1>7 DEF AcquireMtx, MtxFree, TypeOK
  <2>2. ForkInv'
    BY <1>a, <1>7 DEF AcquireMtx, MtxFree, TypeOK
  <2>3. CopyInv'
    BY <1>0, <1>7 DEF AcquireMtx, MtxFree, TypeOK, CopyInv
  <2>4. CounterInv'
    BY <1>0, <1>7 DEF AcquireMtx, MtxFree, TypeOK, CounterInv
  <2>5. HeaderInv'
    BY <1>0, <1>7 DEF AcquireMtx, MtxFree, TypeOK, HeaderInv
  <2>6. MtxInv'
    BY <1>0, <1>7, SMTT(20) DEF AcquireMtx, MtxFree, TypeOK, MtxInv, Worker
  <2>7. ReportsAreSolutions'
    BY <1>0, <1>7 DEF AcquireMtx, MtxFree, TypeOK, ReportsAreSolutions
  <2> QED
    BY <2>1, <2>2, <2>3, <2>4, <2>5, <2>6, <2>7
<1>8. CASE PrintBox(w)
  <2>0. stdout' \in Seq(Line) /\ ReportsAreSolutions'
    BY <1>8, <1>b DEF PrintBox, HeaderInv
  <2>1. TypeOK'
    BY <1>0, <1>8, <2>0 DEF PrintBox, TypeOK
  <2>2. ForkInv'
    BY <1>a, <1>8 DEF PrintBox, TypeOK
  <2>3. CopyInv'
    <3>1. nonce' = nonce /\ \A v \in Worker : wpc'[v] = "copyLo" => wpc[v] = "copyLo"
      BY <1>0, <1>8 DEF PrintBox, TypeOK
    <3> QED
      BY <3>1 DEF CopyInv
  <2>4. CounterInv'
    BY <1>0, <1>8 DEF PrintBox, TypeOK, CounterInv
  <2>5. HeaderInv'
    BY <1>0, <1>8 DEF PrintBox, TypeOK, HeaderInv
  <2>6. MtxInv'
    <3>1. CASE wpc[w] = "close"
      <4>1. /\ mtx' = -1 /\ wpc'[w] = "check"
            /\ \A v \in Worker : v # w => wpc'[v] = wpc[v]
        BY <1>8, <3>1 DEF PrintBox, TypeOK
      <4>2. \A v \in Worker : v # w => ~(wpc[v] \in Printing)
        BY <3>1 DEF MtxInv
      <4>3. \A v \in Worker : v # -1
        BY DEF Worker
      <4> QED
        BY <4>1, <4>2, <4>3 DEF MtxInv
    <3>2. CASE wpc[w] # "close"
      BY <1>0, <1>8, <3>2 DEF PrintBox, TypeOK, MtxInv
    <3> QED
      BY <3>1, <3>2
  <2> QED
    BY <2>0, <2>1, <2>2, <2>3, <2>4, <2>5, <2>6
<1>9. CASE Stop(w)
  <2>1. TypeOK'
    BY <1>0, <1>9 DEF Stop, TypeOK
  <2>2. ForkInv'
    BY <1>a, <1>9 DEF Stop, TypeOK
  <2>3. CopyInv'
    BY <1>0, <1>9 DEF Stop, TypeOK, CopyInv
  <2>4. CounterInv'
    BY <1>0, <1>9 DEF Stop, TypeOK, CounterInv
  <2>5. HeaderInv'
    BY <1>0, <1>9 DEF Stop, TypeOK, HeaderInv
  <2>6. MtxInv'
    BY <1>0, <1>9 DEF Stop, TypeOK, MtxInv
  <2>7. ReportsAreSolutions'
    BY <1>0, <1>9 DEF Stop, TypeOK, ReportsAreSolutions
  <2> QED
    BY <2>1, <2>2, <2>3, <2>4, <2>5, <2>6, <2>7
<1>10. CASE TryNext(w)
  <2>0. (nonce[w] + 1) % (Half * Half) \in Nonce
    <3>1. nonce[w] \in Nonce
      BY DEF TypeOK
    <3>2. Half * Half \in Nat \ {0}
      BY HalvesFit
    <3>3. nonce[w] + 1 \in Nat
      BY <3>1, <3>2 DEF Nonce
    <3> QED
      BY <3>2, <3>3, DivMod DEF Nonce
  <2>1. TypeOK'
    <3>1. nonce' \in [Worker -> Nonce]
      BY <1>10, <2>0, SMTT(20) DEF TryNext, NextNonce, TypeOK
    <3>2. ntime' \in [Worker -> Int]
      BY <1>10, SMTT(20) DEF TryNext, NextNonce, TypeOK
    <3>3. cnt' \in [Worker -> Nat]
      BY <1>10, SMTT(20) DEF TryNext, NextNonce, TypeOK
    <3>4. wpc' \in [Worker -> {"unborn", "copyHi", "copyLo"} \cup Copied]
      BY <1>10, SMTT(20) DEF TryNext, NextNonce, TypeOK
    <3> QED
      BY <1>10, <3>1, <3>2, <3>3, <3>4 DEF TryNext, NextNonce, TypeOK
  <2>2. ForkInv'
    BY <1>a, <1>10 DEF TryNext, NextNonce, TypeOK
  <2>3. CopyInv'
    BY <1>0, <1>10 DEF TryNext, NextNonce, TypeOK, CopyInv
  <2>4. CounterInv'
    BY <1>0, <1>10 DEF TryNext, NextNonce, TypeOK, CounterInv
  <2>5. HeaderInv'
    BY <1>0, <1>10 DEF TryNext, NextNonce, TypeOK, HeaderInv
  <2>6. MtxInv'
    BY <1>0, <1>10 DEF TryNext, NextNonce, TypeOK, MtxInv
  <2>7. ReportsAreSolutions'
    BY <1>0, <1>10 DEF TryNext, NextNonce, TypeOK, ReportsAreSolutions
  <2> QED
    BY <2>1, <2>2, <2>3, <2>4, <2>5, <2>6, <2>7
<1> QED
  BY <1>1, <1>2, <1>3, <1>4, <1>5, <1>6, <1>7, <1>8, <1>9, <1>10 DEF Get

\* The clock, the end of the command and stuttering keep the invariant.
LEMMA OtherStep ==
  ASSUME IInv, Tick \/ UNCHANGED vars
  PROVE  IInv'
<1>1. CASE Tick
  <2> USE <1>1 DEF IInv, Tick, local
  <2>1. TypeOK'
    BY GenesisAssumption DEF TypeOK
  <2>2. ForkInv' /\ CopyInv' /\ CounterInv'
    BY DEF ForkInv, CopyInv, CounterInv
  <2>3. HeaderInv' /\ MtxInv' /\ ReportsAreSolutions'
    BY DEF HeaderInv, MtxInv, ReportsAreSolutions
  <2> QED
    BY <2>1, <2>2, <2>3
<1>2. CASE UNCHANGED vars
  <2> USE <1>2 DEF IInv, vars, local
  <2>1. TypeOK'
    BY DEF TypeOK
  <2>2. ForkInv' /\ CopyInv' /\ CounterInv'
    BY DEF ForkInv, CopyInv, CounterInv
  <2>3. HeaderInv' /\ MtxInv' /\ ReportsAreSolutions'
    BY DEF HeaderInv, MtxInv, ReportsAreSolutions
  <2> QED
    BY <2>1, <2>2, <2>3
<1> QED
  BY <1>1, <1>2

\* IInv is an inductive invariant of the command.
THEOREM Invariance == Spec => []IInv
<1>1. IInv /\ [Next]_vars => IInv'
  BY MainStep, GetStep, OtherStep DEF Next, Ended
<1> QED
  BY InitInv, <1>1, PTL DEF Spec

\* Every variable keeps its type, whatever the interleaving of the threads.
THEOREM TypeCorrect == Spec => []TypeOK
<1>1. IInv => TypeOK
  BY DEF IInv
<1> QED
  BY Invariance, <1>1, PTL

\* What the workers report meets the target of the search they belong to.
THEOREM ReportsSound == Spec => []ReportsAreSolutions
<1>1. IInv => ReportsAreSolutions
  BY DEF IInv
<1> QED
  BY Invariance, <1>1, PTL
-----------------------------------------------------------------------------
(* Step properties and the refinement of ParallelSearch.                   *)

\* Lost updates never take the counter of a search back to 0.
THEOREM FoundStable == Spec => FoundIsStable
<1>1. IInv /\ [Next]_vars => [result > 0 /\ call' = call => result' > 0]_vars
  <2> SUFFICES ASSUME IInv, [Next]_vars, result > 0, call' = call
               PROVE  result' > 0
    BY DEF IInv
  <2> USE DEF IInv, local, MainUnchanged
  <2>1. CASE Main
    BY <2>1 DEF Main, ReturnAtOnce, BeginSearch, DrawNonce, MoreToFork, SpawnWorker, LowHalf,
                JoinAll, Joined, Finish, TypeOK
  <2>2. ASSUME NEW w \in Worker, Get(w)
        PROVE  result' > 0
    <3>1. CASE StoreResult(w)
      BY <3>1 DEF StoreResult, TypeOK
    <3>2. CASE ~StoreResult(w)
      BY <2>2, <3>2 DEF Get, CopyHi, CopyLo, TimeOffset, Hash, AfterFind, LoadResult,
                        PrintTask, AcquireMtx, MtxFree, PrintBox, Stop, TryNext, NextNonce
    <3> QED
      BY <3>1, <3>2
  <2>3. CASE Tick \/ UNCHANGED vars
    BY <2>3 DEF Tick, vars
  <2> QED
    BY <2>1, <2>2, <2>3 DEF Next, Ended
<1> QED
  BY Invariance, <1>1, PTL DEF Spec, FoundIsStable

\* findGenesis implements the fork-join search: a worker leaves only when a
\* find is visible, and the caller resumes only when every worker has left.
THEOREM Refinement == Spec => SearchSafety
<1> USE DEF Search!vars
<1>1. Init => Search!Init
  BY DEF Init, Search!Init
<1>2. IInv /\ IInv' /\ [Next]_vars => [Search!Next]_(Search!vars)
  <2> SUFFICES ASSUME IInv, IInv', [Next]_vars
               PROVE  [Search!Next]_(Search!vars)
    OBVIOUS
  <2> USE DEF IInv, local, MainUnchanged, Goto
  <2>1. CASE ReturnAtOnce \/ DrawNonce \/ Finish \/ Tick \/ UNCHANGED vars
    BY <2>1 DEF ReturnAtOnce, DrawNonce, MoreToFork, Finish, Tick, vars
  <2>2. CASE BeginSearch
    <3>1. Search!Begin
      BY <2>2 DEF BeginSearch, Search!Begin
    <3> QED
      BY <3>1 DEF Search!Next
  <2>3. CASE SpawnWorker
    <3>1. PICK v \in Worker : v = forked /\ wpc[v] = "unborn"
      BY <2>3, CpusNat DEF SpawnWorker, LowHalf, TypeOK, ForkInv, Worker
    <3>2. \A w \in Worker : wpc'[w] = IF w = v THEN "copyHi" ELSE wpc[w]
      BY <2>3, <3>1 DEF SpawnWorker, LowHalf, TypeOK
    <3>3. Search!Fork(v)
      BY <2>3, <3>1, <3>2 DEF SpawnWorker, LowHalf, Search!Fork
    <3> QED
      BY <3>1, <3>3 DEF Search!Next
  <2>4. CASE JoinAll
    <3>1. Search!Join
      BY <2>4 DEF JoinAll, Joined, Search!Join
    <3> QED
      BY <3>1 DEF Search!Next
  <2>5. ASSUME NEW w \in Worker, Get(w)
        PROVE  [Search!Next]_(Search!vars)
    <3>1. \A v \in Worker \ {w} : wpc'[v] = wpc[v]
      BY <2>5 DEF TypeOK, Get, CopyHi, CopyLo, TimeOffset, Hash, AfterFind, LoadResult,
                  StoreResult, PrintTask, AcquireMtx, MtxFree, PrintBox, Stop, TryNext,
                  NextNonce
    <3>2. /\ wpc[w] \notin {"unborn", "done"} /\ wpc'[w] # "unborn"
          /\ mpc' = mpc /\ mpc \in {"draw", "spawn"}
      <4>1. wpc[w] \notin {"unborn", "done"} /\ wpc'[w] # "unborn" /\ mpc' = mpc
        BY <2>5 DEF TypeOK, Get, CopyHi, CopyLo, TimeOffset, Hash, AfterFind, LoadResult,
                    StoreResult, PrintTask, AcquireMtx, MtxFree, PrintBox, Stop, TryNext,
                    NextNonce
      <4> QED
        BY <4>1 DEF ForkInv, TypeOK
    <3>3. CASE StoreResult(w)
      <4>1. result' > 0 /\ wpc'[w] # "done"
        BY <3>3 DEF StoreResult, TypeOK
      <4>2. Search!Find(w)
        BY <3>1, <3>2, <4>1 DEF Search!Find
      <4> QED
        BY <4>2 DEF Search!Next
    <3>4. CASE Stop(w)
      <4>1. wpc'[w] = "done" /\ result > 0 /\ result' = result
        BY <3>4 DEF Stop, TypeOK
      <4>2. Search!Leave(w)
        BY <3>1, <3>2, <4>1 DEF Search!Leave
      <4> QED
        BY <4>2 DEF Search!Next
    <3>5. CASE ~StoreResult(w) /\ ~Stop(w)
      <4>1. wpc'[w] # "done" /\ result' = result
        BY <2>5, <3>5 DEF TypeOK, Get, CopyHi, CopyLo, TimeOffset, Hash, AfterFind,
                          LoadResult, PrintTask, AcquireMtx, MtxFree, PrintBox, TryNext,
                          NextNonce
      <4> QED
        BY <3>1, <3>2, <4>1
    <3> QED
      BY <3>3, <3>4, <3>5
  <2> QED
    BY <2>1, <2>2, <2>3, <2>4, <2>5 DEF Next, Main, Ended
<1> QED
  BY Invariance, <1>1, <1>2, PTL DEF Spec, SearchSafety, Search!Spec
-----------------------------------------------------------------------------
(* A search returns with a complete report.                                *)

\* A worker that has stored its find and has yet to close its box.
Reporting == {"task", "lock", "open", "body", "close"}
Closed(c) == \E k \in DOMAIN stdout : stdout[k].kind = "close" /\ stdout[k].call = c

\* The find that made the counter positive is being reported or has been.
ReportInv ==
  /\ result > 0 => (\E w \in Worker : wpc[w] \in Reporting) \/ Closed(call)
  /\ \A c \in 1 .. 2 : Returned(c) /\ Worker # {} => Closed(c)

\* A line that is on stdout stays there.
LEMMA ClosedStays ==
  ASSUME TypeOK, NEW c \in 1 .. 2, Closed(c),
         \/ UNCHANGED stdout
         \/ \E line \in Line : stdout' = Append(stdout, line)
  PROVE  Closed(c)'
<1>1. PICK k \in DOMAIN stdout : stdout[k].kind = "close" /\ stdout[k].call = c
  BY DEF Closed
<1>2. k \in DOMAIN stdout' /\ stdout'[k] = stdout[k]
  <2>1. stdout \in Seq(Line)
    BY DEF TypeOK
  <2>2. ASSUME NEW line \in Line, stdout' = Append(stdout, line)
        PROVE  k \in DOMAIN stdout' /\ stdout'[k] = stdout[k]
    BY <2>1, <2>2
  <2> QED
    BY <2>2
<1> QED
  BY <1>1, <1>2 DEF Closed

\* Every step leaves stdout alone or appends one line to it.
LEMMA StdoutGrows ==
  ASSUME IInv, [Next]_vars
  PROVE  UNCHANGED stdout \/ \E line \in Line : stdout' = Append(stdout, line)
<1> USE DEF IInv, local
<1>1. CASE Main \/ Tick \/ UNCHANGED vars
  BY <1>1 DEF Main, ReturnAtOnce, BeginSearch, DrawNonce, MoreToFork, SpawnWorker, LowHalf, JoinAll,
              Joined, Finish, Tick, vars
<1>2. ASSUME NEW w \in Worker, PrintTask(w) \/ PrintBox(w)
      PROVE  \E line \in Line : stdout' = Append(stdout, line)
  <2>1. call \in 1 .. 2 /\ nonce[w] \in Nonce /\ ntime[w] \in Int
    BY <1>2 DEF PrintTask, PrintBox, Goto, ForkInv, TypeOK
  <2>2. PICK kind \in {"task", "open", "body", "close"} : Output(w, kind)
    BY <1>2 DEF PrintTask, PrintBox
  <2>3. [who |-> w, kind |-> kind, call |-> call,
         nonce |-> nonce[w], time |-> ntime[w]] \in Line
    BY <2>1 DEF Line
  <2> QED
    BY <2>2, <2>3 DEF Output, Printed
<1>3. ASSUME NEW w \in Worker, Get(w), ~(PrintTask(w) \/ PrintBox(w))
      PROVE  UNCHANGED stdout
  BY <1>3 DEF Get, CopyHi, CopyLo, TimeOffset, Hash, AfterFind, LoadResult, StoreResult,
              AcquireMtx, MtxFree, Stop, TryNext, NextNonce
<1> QED
  BY <1>1, <1>2, <1>3 DEF Next, Ended

\* Every step keeps the report invariant.
LEMMA ReportStep ==
  ASSUME IInv, IInv', ReportInv, [Next]_vars
  PROVE  ReportInv'
<1> USE DEF IInv, local
<1>0. \A c \in 1 .. 2 : Closed(c) => Closed(c)'
  BY ClosedStays, StdoutGrows
<1>1. CASE ReturnAtOnce \/ DrawNonce \/ SpawnWorker \/ Finish \/ Tick \/ UNCHANGED vars
  <2>1. /\ call' = call /\ result' = result /\ stdout' = stdout
        /\ \A w \in Worker : wpc[w] \in Reporting => wpc'[w] \in Reporting
        /\ \A c \in 1 .. 2 : Returned(c)' => Returned(c)
    <3>1. CASE SpawnWorker
      <4>1. forked \in Worker => wpc[forked] = "unborn"
        BY DEF ForkInv, TypeOK, Worker
      <4> QED
        BY <3>1, <4>1 DEF SpawnWorker, LowHalf, Reporting, Returned, TypeOK
    <3>2. CASE ReturnAtOnce
      BY <3>2 DEF ReturnAtOnce, ForkInv, Returned
    <3>3. CASE DrawNonce \/ Finish \/ Tick \/ UNCHANGED vars
      BY <3>3 DEF DrawNonce, MoreToFork, Finish, Tick, vars, Returned
    <3> QED
      BY <1>1, <3>1, <3>2, <3>3
  <2>2. \A c \in 1 .. 2 : Closed(c)' <=> Closed(c)
    BY <2>1 DEF Closed
  <2>3. result > 0 => (\E w \in Worker : wpc[w] \in Reporting)' \/ Closed(call)'
    BY <2>1 DEF ReportInv, Closed
  <2> QED
    BY <2>1, <2>2, <2>3 DEF ReportInv
<1>2. CASE BeginSearch
  <2>1. \A c \in 1 .. 2 : Returned(c)' => Returned(c)
    BY <1>2 DEF BeginSearch, Returned, ForkInv, TypeOK
  <2>2. result' = 0
    BY <1>2 DEF BeginSearch
  <2> QED
    BY <1>0, <2>1, <2>2 DEF ReportInv
<1>3. CASE JoinAll
  <2>1. /\ call \in 1 .. 2 /\ call' = call /\ result' = result /\ wpc' = wpc
        /\ \A w \in Worker : wpc[w] = "done"
    BY <1>3 DEF JoinAll, Joined, ForkInv
  <2>2. Worker # {} => Closed(call)
    BY <2>1 DEF CounterInv, ReportInv, Reporting
  <2>3. \A c \in 1 .. 2 : Returned(c)' => Returned(c) \/ c = call
    BY <1>3, <2>1 DEF JoinAll, Joined, Returned, TypeOK
  <2>4. result > 0 => Closed(call)'
    BY <1>0, <2>1 DEF ReportInv, Reporting
  <2> QED
    BY <1>0, <2>1, <2>2, <2>3, <2>4 DEF ReportInv
<1>4. ASSUME NEW w \in Worker, Get(w)
      PROVE  ReportInv'
  <2>1. /\ mpc' = mpc /\ call' = call /\ call \in 1 .. 2
        /\ \A v \in Worker \ {w} : wpc'[v] = wpc[v]
    <3>1. mpc' = mpc /\ call' = call /\ \A v \in Worker \ {w} : wpc'[v] = wpc[v]
      BY <1>4 DEF TypeOK, Get, CopyHi, CopyLo, TimeOffset, Hash, AfterFind, LoadResult,
                  StoreResult, PrintTask, AcquireMtx, MtxFree, PrintBox, Stop, TryNext,
                  NextNonce, Goto, MainUnchanged
    <3>2. wpc[w] \notin {"unborn", "done"}
      BY <1>4 DEF Get, CopyHi, CopyLo, TimeOffset, Hash, AfterFind, LoadResult, StoreResult,
                  PrintTask, AcquireMtx, MtxFree, PrintBox, Stop, TryNext, NextNonce, Goto
    <3> QED
      BY <3>1, <3>2 DEF ForkInv, TypeOK
  <2>2. \A c \in 1 .. 2 : Returned(c)' <=> Returned(c)
    BY <2>1 DEF Returned
  <2>3. \A c \in 1 .. 2 : Returned(c)' /\ Worker # {} => Closed(c)'
    BY <1>0, <2>2 DEF ReportInv
  <2>4. ASSUME result' > 0
        PROVE  (\E v \in Worker : wpc[v] \in Reporting)' \/ Closed(call)'
    <3>1. CASE StoreResult(w)
      BY <3>1 DEF StoreResult, Goto, TypeOK, Reporting
    <3>2. CASE PrintBox(w) /\ wpc[w] = "close"
      <4> DEFINE line == [who |-> w, kind |-> "close", call |-> call,
                          nonce |-> nonce[w], time |-> ntime[w]]
      <4>1. stdout' = Append(stdout, line)
        BY <3>2 DEF PrintBox, Output, Printed, Goto
      <4>2. line.kind = "close" /\ line.call = call
        OBVIOUS
      <4> HIDE DEF line
      <4>3. Len(stdout) + 1 \in DOMAIN stdout' /\ stdout'[Len(stdout) + 1] = line
        BY <4>1, SMTT(20) DEF TypeOK
      <4>4. stdout'[Len(stdout) + 1].kind = "close" /\ stdout'[Len(stdout) + 1].call = call'
        BY <2>1, <4>2, <4>3
      <4> QED
        BY <4>3, <4>4 DEF Closed
    <3>3. CASE ~StoreResult(w) /\ ~(PrintBox(w) /\ wpc[w] = "close")
      <4>1. result' = result /\ (wpc[w] \in Reporting => wpc'[w] \in Reporting)
        BY <1>4, <3>3 DEF TypeOK, Get, CopyHi, CopyLo, TimeOffset, Hash, AfterFind,
                          LoadResult, PrintTask, AcquireMtx, MtxFree, PrintBox, Stop,
                          TryNext, NextNonce, Goto, Reporting
      <4> QED
        BY <1>0, <2>1, <2>4, <4>1 DEF ReportInv
    <3> QED
      BY <3>1, <3>2, <3>3
  <2> QED
    BY <2>3, <2>4 DEF ReportInv
<1> QED
  BY <1>1, <1>2, <1>3, <1>4 DEF Next, Main, Ended

\* Whatever the number of threads, unless it is 0, findGenesis does not
\* return before a find of that search has been reported completely.
THEOREM ReportBeforeReturn == Spec => []ReturnedWithReport
<1>1. Init => ReportInv
  BY DEF Init, ReportInv, Returned
<1>2. IInv /\ IInv' /\ ReportInv /\ [Next]_vars => ReportInv'
  BY ReportStep
<1>3. ReportInv => ReturnedWithReport
  BY DEF ReportInv, ReturnedWithReport, Closed
<1> QED
  BY Invariance, <1>1, <1>2, <1>3, PTL DEF Spec
-----------------------------------------------------------------------------
(* What a worker copies while findGenesis rewrites the shared nonce.       *)

\* The shared header holds the nonce of the worker forked last, or already
\* the high half of the next; a half-copied nonce is the high half of one drawn
\* for the worker or a later one.
MixInv ==
  /\ mpc = "spawn" => blk.hi = drawn \div Half
  /\ mpc = "draw" /\ forked > 0 => blk.hi = given[forked - 1] \div Half
  /\ mpc \in {"draw", "spawn"} /\ forked > 0 => blk.lo = given[forked - 1] % Half
  /\ \A w \in Worker : wpc[w] = "copyLo" =>
       \E hi \in DrawnFor(w) : nonce[w] = (hi \div Half) * Half
  /\ NonceMixed

\* A worker that is running finds both halves of nonces drawn for it or later.
LEMMA SharedIsDrawn ==
  ASSUME IInv, MixInv, NEW w \in Worker, wpc[w] \notin {"unborn", "done"}
  PROVE  /\ \E hi \in DrawnFor(w) : blk.hi = hi \div Half
         /\ \E lo \in DrawnFor(w) : blk.lo = lo % Half
<1>1. mpc \in {"draw", "spawn"} /\ w < forked /\ forked \in 0 .. Cpus
  BY CpusNat DEF IInv, ForkInv, TypeOK, Worker
<1>2. forked > 0 /\ forked - 1 \in {u \in Worker : w <= u /\ u < forked}
  BY <1>1, CpusNat DEF Worker
<1>3. given[forked - 1] \in DrawnFor(w)
  BY <1>2 DEF DrawnFor
<1>4. mpc = "spawn" => drawn \in DrawnFor(w)
  BY DEF DrawnFor
<1> QED
  BY <1>1, <1>2, <1>3, <1>4 DEF MixInv

\* A step keeps MixInv: only the fork changes what was drawn for whom, and it
\* hands the nonce that is being stored to the worker it forks.
LEMMA MixStep ==
  ASSUME IInv, MixInv, [Next]_vars
  PROVE  MixInv'
<1> USE DEF IInv, local, MainUnchanged, Goto
<1>1. CASE ReturnAtOnce \/ JoinAll \/ Finish \/ Tick \/ UNCHANGED vars
  <2>1. /\ UNCHANGED <<forked, blk, drawn, wpc, nonce, start, given>>
        /\ mpc' # mpc => mpc' \notin {"draw", "spawn"} /\ mpc # "spawn"
    BY <1>1 DEF ReturnAtOnce, JoinAll, Joined, Finish, Tick, vars
  <2>2. \A w \in Worker : DrawnFor(w)' = DrawnFor(w)
    BY <2>1 DEF DrawnFor
  <2> QED
    BY <2>1, <2>2 DEF MixInv, NonceMixed
<1>2. CASE BeginSearch
  <2>1. mpc' = "draw" /\ forked' = 0 /\ \A w \in Worker : wpc'[w] = "unborn"
    BY <1>2 DEF BeginSearch
  <2> QED
    BY <2>1 DEF MixInv, NonceMixed, Copied
<1>3. CASE DrawNonce
  <2>1. /\ mpc = "draw" /\ mpc' = "spawn"
        /\ blk'.hi = drawn' \div Half /\ blk'.lo = blk.lo
        /\ UNCHANGED <<forked, wpc, nonce, start, given>>
    BY <1>3 DEF DrawNonce, MoreToFork, TypeOK
  <2>2. \A w \in Worker : DrawnFor(w) \subseteq DrawnFor(w)'
    BY <2>1 DEF DrawnFor
  <2> QED
    BY <2>1, <2>2 DEF MixInv, NonceMixed
<1>4. CASE SpawnWorker
  <2>1. /\ mpc = "spawn" /\ mpc' = "draw"
        /\ forked \in 0 .. Cpus /\ forked < Cpus /\ forked \in Worker
        /\ forked' = forked + 1 /\ forked' > 0 /\ forked' - 1 = forked
    <3>1. /\ mpc = "spawn" /\ mpc' = "draw" /\ forked' = forked + 1
          /\ forked \in 0 .. Cpus /\ forked < Cpus
      BY <1>4 DEF SpawnWorker, LowHalf, ForkInv, TypeOK
    <3> QED
      BY <3>1, CpusNat DEF Worker
  <2>2. /\ blk'.hi = blk.hi /\ blk'.lo = drawn % Half
        /\ given'[forked] = drawn
        /\ \A u \in Worker : u # forked => given'[u] = given[u]
        /\ UNCHANGED <<drawn, nonce, start>>
        /\ \A w \in Worker : wpc'[w] = IF w = forked THEN "copyHi" ELSE wpc[w]
    BY <1>4, <2>1 DEF SpawnWorker, LowHalf, TypeOK
  <2>3. ASSUME NEW w \in Worker, w < forked PROVE DrawnFor(w) \subseteq DrawnFor(w)'
    <3>1. ASSUME NEW v \in Worker, w <= v, v < forked
          PROVE  given[v] \in DrawnFor(w)'
      <4>1. v # forked /\ v < forked'
        BY <2>1, <3>1 DEF Worker
      <4> QED
        BY <2>2, <3>1, <4>1 DEF DrawnFor
    <3>2. drawn \in DrawnFor(w)'
      <4>1. w <= forked /\ forked < forked'
        BY <2>1, <2>3 DEF Worker
      <4> QED
        BY <2>1, <2>2, <4>1 DEF DrawnFor
    <3> QED
      BY <3>1, <3>2 DEF DrawnFor
  <2>4. \A w \in Worker : wpc'[w] \in Copied \cup {"copyLo"} => wpc'[w] = wpc[w] /\ w < forked
    BY <2>1, <2>2, CpusNat DEF ForkInv, Copied, Worker
  <2> QED
    BY <2>1, <2>2, <2>3, <2>4 DEF MixInv, NonceMixed
<1>5. ASSUME NEW w \in Worker, Get(w)
      PROVE  MixInv'
  <2>1. /\ UNCHANGED <<mpc, forked, blk, drawn, given>>
        /\ \A v \in Worker : DrawnFor(v)' = DrawnFor(v)
        /\ wpc[w] \notin {"unborn", "done"}
    BY <1>5 DEF Get, CopyHi, CopyLo, Hash, LoadResult, StoreResult, PrintTask,
                AcquireMtx, PrintBox, Stop, TryNext, DrawnFor
  <2>2. CASE CopyHi(w)
    <3>1. /\ nonce'[w] = blk.hi * Half /\ wpc'[w] = "copyLo" /\ start' = start
          /\ \A v \in Worker \ {w} : wpc'[v] = wpc[v] /\ nonce'[v] = nonce[v]
      BY <2>2 DEF CopyHi, TypeOK
    <3>2. PICK hi \in DrawnFor(w) : blk.hi = hi \div Half
      BY <2>1, SharedIsDrawn
    <3>3. ASSUME NEW v \in Worker, wpc'[v] = "copyLo"
          PROVE  \E h \in DrawnFor(v) : nonce'[v] = (h \div Half) * Half
      BY <3>1, <3>2, <3>3 DEF MixInv
    <3>4. ASSUME NEW v \in Worker, wpc'[v] \in Copied
          PROVE  wpc[v] \in Copied
      BY <3>1, <3>4 DEF Copied
    <3> QED
      BY <2>1, <3>1, <3>3, <3>4 DEF MixInv, NonceMixed
  <2>3. CASE CopyLo(w)
    <3>1. /\ start'[w] = nonce[w] + blk.lo /\ wpc'[w] = "hash" /\ wpc[w] = "copyLo"
          /\ \A v \in Worker \ {w} :
               wpc'[v] = wpc[v] /\ nonce'[v] = nonce[v] /\ start'[v] = start[v]
      BY <2>3 DEF CopyLo, TimeOffset, TypeOK
    <3>2. PICK hi \in DrawnFor(w) : nonce[w] = (hi \div Half) * Half
      BY <3>1 DEF MixInv
    <3>3. PICK lo \in DrawnFor(w) : blk.lo = lo % Half
      BY <2>1, SharedIsDrawn
    <3>4. start'[w] = (hi \div Half) * Half + (lo % Half)
      BY <3>1, <3>2, <3>3
    <3>5. ASSUME NEW v \in Worker, wpc'[v] \in Copied
          PROVE  \E h, l \in DrawnFor(v) : start'[v] = (h \div Half) * Half + (l % Half)
      <4>1. CASE v = w
        BY <3>4, <4>1
      <4>2. CASE v # w
        BY <3>1, <3>5, <4>2 DEF MixInv, NonceMixed
      <4> QED
        BY <4>1, <4>2
    <3>6. \A v \in Worker : wpc'[v] = "copyLo" => v # w
      BY <3>1
    <3> QED
      BY <2>1, <3>1, <3>5, <3>6 DEF MixInv, NonceMixed
  <2>4. CASE ~CopyHi(w) /\ ~CopyLo(w)
    <3>1. /\ start' = start
          /\ \A v \in Worker : wpc'[v] \in Copied => wpc[v] \in Copied
          /\ \A v \in Worker : wpc'[v] = "copyLo" => wpc[v] = "copyLo" /\ nonce'[v] = nonce[v]
      BY <1>5, <2>4 DEF TypeOK, Get, Hash, AfterFind, LoadResult, StoreResult, PrintTask,
                  AcquireMtx, MtxFree, PrintBox, Stop, TryNext, NextNonce, Copied
    <3> QED
      BY <2>1, <3>1 DEF MixInv, NonceMixed
  <2> QED
    BY <2>2, <2>3, <2>4
<1> QED
  BY <1>1, <1>2, <1>3, <1>4, <1>5 DEF Next, Main, Ended

\* Whatever the interleaving, a worker searches from the high half of one and
\* the low half of another nonce drawn for it or for workers forked after it.
THEOREM NoncesAreMixed == Spec => []NonceMixed
<1>1. Init => MixInv
  BY DEF Init, MixInv, NonceMixed, Copied
<1>2. IInv /\ MixInv /\ [Next]_vars => MixInv'
  BY MixStep
<1>3. MixInv => NonceMixed
  BY DEF MixInv
<1> QED
  BY Invariance, <1>1, <1>2, <1>3, PTL DEF Spec

\* The worker that is forked last starts from the nonce drawn for it.
LastOwnNonce ==
  \A w \in Worker : w = Cpus - 1 /\ wpc[w] \in Copied => start[w] = given[w]

\* The race on the nonce spares the worker that is forked last, whose nonce
\* nobody rewrites.
THEOREM LastIsOwn == Spec => []LastOwnNonce
<1>1. IInv /\ NonceMixed => LastOwnNonce
  <2> SUFFICES ASSUME IInv, NonceMixed, NEW w \in Worker, w = Cpus - 1, wpc[w] \in Copied
               PROVE  start[w] = given[w]
    BY DEF LastOwnNonce
  <2>1. forked = Cpus /\ mpc # "spawn"
    <3>1. forked \in 0 .. Cpus /\ Cpus \in Nat
      BY CpusNat DEF IInv, TypeOK
    <3>2. wpc[w] # "unborn"
      BY DEF Copied
    <3>3. ~(w >= forked) /\ (mpc = "spawn" => forked < Cpus)
      BY <3>2 DEF IInv, ForkInv
    <3> QED
      BY <3>1, <3>3
  <2>2. \A v \in Worker : w <= v => v = w
    BY CpusNat DEF Worker
  <2>3. DrawnFor(w) \subseteq {given[w]}
    BY <2>1, <2>2 DEF DrawnFor
  <2>4. start[w] = (given[w] \div Half) * Half + (given[w] % Half)
    BY <2>3 DEF NonceMixed
  <2>5. given[w] \in Nat /\ Half \in Nat \ {0}
    BY GenesisAssumption, HalvesFit DEF IInv, TypeOK, Nonce
  <2>6. given[w] = Half * (given[w] \div Half) + (given[w] % Half) /\ given[w] \div Half \in Nat
    BY <2>5, DivMod
  <2> QED
    BY <2>4, <2>5, <2>6
<1> QED
  BY Invariance, NoncesAreMixed, <1>1, PTL

\* Where only one thread is started every worker has its own nonce: it takes
\* two for the race the run of OwnNonce shows.
THEOREM OneThreadOwn == ASSUME Cpus <= 1 PROVE Spec => []OwnNonce
<1>1. LastOwnNonce => OwnNonce
  <2>1. \A w \in Worker : w = Cpus - 1
    BY CpusNat DEF Worker
  <2> QED
    BY <2>1 DEF LastOwnNonce, OwnNonce
<1> QED
  BY LastIsOwn, <1>1, PTL
-----------------------------------------------------------------------------
(* Workers that start from different nonces scan disjoint ranges.          *)

\* Whatever mixture of two drawn nonces a worker copies, the lowest field of
\* the result is clear: the halves are multiples of Flag.
AlignInv ==
  /\ mpc = "spawn" => drawn % Flag = 0
  /\ forked > 0 => blk.lo % Flag = 0
  /\ \A w \in Worker : wpc[w] \in Copied => start[w] % Flag = 0

\* Half is a multiple of Flag, so the low half of an aligned nonce is aligned
\* and an aligned low half makes the nonce aligned.
LEMMA HalfAligned ==
  ASSUME NEW h \in Nat, NEW l \in Nat
  PROVE  (h * Half + l) % Flag = l % Flag
<1> DEFINE Q == Half \div Flag
           q == l \div Flag
           r == l % Flag
<1>1. Half = Flag * Q /\ Q \in Nat /\ Flag \in Nat \ {0}
  BY DivMod, GenesisAssumption, SMT
<1>2. l = Flag * q + r /\ q \in Nat /\ r \in 0 .. Flag - 1
  BY <1>1, DivMod
<1> HIDE DEF Q, q, r
<1>3. h * Half + l = (h * Q + q) * Flag + r /\ h * Q + q \in Nat
  BY <1>1, <1>2, SMT
<1>4. (h * Half + l) % Flag = r
  BY <1>1, <1>2, <1>3, QuotUnique
<1> QED
  BY <1>4 DEF r

\* Every step keeps the alignment.
LEMMA AlignStep ==
  ASSUME IInv, AlignInv, [Next]_vars
  PROVE  AlignInv'
<1> USE DEF IInv, local, MainUnchanged, Goto
<1>1. CASE ReturnAtOnce \/ JoinAll \/ Finish \/ Tick \/ UNCHANGED vars
  BY <1>1 DEF ReturnAtOnce, JoinAll, Joined, Finish, Tick, vars, AlignInv
<1>2. CASE BeginSearch
  BY <1>2 DEF BeginSearch, AlignInv, Copied
<1>3. CASE DrawNonce
  <2>1. drawn' % Flag = 0
    BY <1>3, RandomNonceAligned DEF DrawNonce, MoreToFork
  <2>2. blk'.lo = blk.lo
    BY <1>3 DEF DrawNonce, MoreToFork, TypeOK
  <2> QED
    BY <1>3, <2>1, <2>2 DEF DrawNonce, MoreToFork, AlignInv
<1>4. CASE SpawnWorker
  <2>1. (drawn % Half) % Flag = 0
    <3>1. drawn \in Nat /\ Half \in Nat \ {0}
      BY GenesisAssumption DEF TypeOK, Nonce
    <3>2. /\ drawn = (drawn \div Half) * Half + (drawn % Half)
          /\ drawn \div Half \in Nat /\ drawn % Half \in Nat
      BY <3>1, DivMod, SMT
    <3>3. drawn % Flag = (drawn % Half) % Flag
      BY <3>2, HalfAligned
    <3> QED
      BY <1>4, <3>3 DEF SpawnWorker, LowHalf, AlignInv
  <2>2. blk'.lo = drawn % Half
    BY <1>4 DEF SpawnWorker, LowHalf, TypeOK
  <2>3. \A w \in Worker : wpc'[w] \in Copied => wpc[w] \in Copied
    BY <1>4 DEF SpawnWorker, LowHalf, TypeOK, Copied
  <2> QED
    BY <1>4, <2>1, <2>2, <2>3 DEF SpawnWorker, LowHalf, AlignInv
<1>5. ASSUME NEW w \in Worker, CopyLo(w)
      PROVE  AlignInv'
  <2>1. PICK h \in 0 .. Half - 1 : nonce[w] = h * Half
    BY <1>5 DEF CopyLo, TimeOffset, CopyInv
  <2>2. blk.lo \in Nat /\ h \in Nat /\ blk.lo % Flag = 0
    <3>1. w < forked /\ forked > 0
      BY <1>5, CpusNat DEF CopyLo, TimeOffset, ForkInv, TypeOK, Worker
    <3> QED
      BY <3>1, GenesisAssumption DEF AlignInv, TypeOK
  <2>3. start'[w] = h * Half + blk.lo
    BY <1>5, <2>1 DEF CopyLo, TimeOffset, TypeOK
  <2>4. start'[w] % Flag = 0
    BY <2>2, <2>3, HalfAligned
  <2>5. \A v \in Worker \ {w} : start'[v] = start[v] /\ wpc'[v] = wpc[v]
    BY <1>5 DEF CopyLo, TimeOffset, TypeOK
  <2> QED
    BY <1>5, <2>4, <2>5 DEF CopyLo, TimeOffset, AlignInv
<1>6. ASSUME NEW w \in Worker, Get(w), ~CopyLo(w)
      PROVE  AlignInv'
  <2>1. /\ UNCHANGED <<mpc, forked, blk, drawn, start>>
        /\ \A v \in Worker : wpc'[v] \in Copied => wpc[v] \in Copied
    BY <1>6 DEF TypeOK, Get, CopyHi, Hash, AfterFind, LoadResult, StoreResult, PrintTask,
                AcquireMtx, MtxFree, PrintBox, Stop, TryNext, NextNonce, Copied
  <2> QED
    BY <2>1 DEF AlignInv
<1> QED
  BY <1>1, <1>2, <1>3, <1>4, <1>5, <1>6 DEF Next, Main, Ended

\* Half is a whole number of flag fields.
LEMMA FlagsInHalf ==
  \E Q \in Nat \ {0} : Half = Flag * Q /\ Flag \in Nat \ {0}
<1>1. Half = Flag * (Half \div Flag) + (Half % Flag) /\ Half \div Flag \in Nat
  BY DivMod, GenesisAssumption
<1>2. Half = Flag * (Half \div Flag) /\ Half \div Flag # 0
  BY <1>1, GenesisAssumption, SMT
<1> QED
  BY <1>1, <1>2, GenesisAssumption

\* A worker that has made t < Flag tries is t past its start: an aligned
\* nonce leaves the counter field room, so the nonce has not wrapped.
LEMMA TriesOfNonce ==
  ASSUME NEW s \in Nonce, NEW n \in Nonce, s % Flag = 0,
         (n - s) % (Half * Half) < Flag
  PROVE  \E t \in 0 .. Flag - 1 : n = s + t
<1> DEFINE M == Half * Half
           a == s \div Flag
<1>1. PICK Q \in Nat \ {0} : Half = Flag * Q /\ Flag \in Nat \ {0}
  BY FlagsInHalf
<1>2. s = a * Flag /\ a \in Nat /\ s \in Nat /\ n \in Nat /\ s < M /\ n < M
  <2>1. s \in Nat /\ n \in Nat /\ s < M /\ n < M
    BY GenesisAssumption, SMT DEF Nonce
  <2> HIDE DEF M
  <2>2. s = Flag * (s \div Flag) + (s % Flag) /\ s \div Flag \in Nat
    BY <1>1, <2>1, DivMod
  <2> QED
    BY <1>1, <2>1, <2>2, SMT
<1> HIDE DEF a
<1>3. M = ((Q * Flag) * Q) * Flag /\ M \in Nat \ {0} /\ (Q * Flag) * Q \in Nat
  BY <1>1, SMT
<1>4. CASE n >= s
  <2>1. n - s \in 0 .. M - 1 /\ n - s = 0 * M + (n - s)
    <3> HIDE DEF M
    <3> QED
      BY <1>2, <1>3, <1>4, SMT
  <2>2. (n - s) % M = n - s
    <3> HIDE DEF M
    <3> QED
      BY <1>3, <2>1, SmallMod
  <2>3. n - s < Flag
    BY <2>2
  <2>4. n - s \in 0 .. Flag - 1 /\ n = s + (n - s)
    BY <1>1, <1>2, <1>4, <2>3, SMT
  <2> QED
    BY <2>4
<1>5. CASE n < s
  <2>1. (n - s) % M = n - s + M
    <3>1. n - s + M \in 0 .. M - 1 /\ n - s \in Int
      BY <1>2, <1>3, <1>5, SMT
    <3> HIDE DEF M
    <3>2. n - s = (-1) * M + (n - s + M)
      BY <1>2, <1>3, SMT
    <3> QED
      BY <1>3, <3>1, <3>2, SMT
  <2>2. a < (Q * Flag) * Q
    BY <1>1, <1>2, <1>3, MulMono, SMT
  <2>3. a * Flag <= ((Q * Flag) * Q - 1) * Flag
    BY <1>1, <1>2, <1>3, <2>2, MulMono, SMT
  <2>4. s <= M - Flag
    BY <1>1, <1>2, <1>3, <2>3, SMT
  <2>5. n - s + M >= Flag
    BY <1>1, <1>2, <1>3, <2>4, SMT
  <2> QED
    BY <2>1, <2>5, <1>1, <1>2, <1>3, SMT
<1> QED
  BY <1>2, <1>4, <1>5

\* Whatever the number of threads and the nonces drawn, two workers that
\* start from different nonces hash different headers for Flag tries.
THEOREM ScansDisjoint == Spec => []DisjointScans
<1>1. Init => AlignInv
  BY DEF Init, AlignInv, Copied
<1>2. IInv /\ AlignInv /\ [Next]_vars => AlignInv'
  BY AlignStep
<1>3. IInv /\ AlignInv => DisjointScans
  <2> SUFFICES ASSUME IInv, AlignInv, NEW w \in Worker, NEW v \in Worker,
                      wpc[w] \in Copied, wpc[v] \in Copied,
                      Tries(w) < Flag, Tries(v) < Flag, nonce[w] = nonce[v]
               PROVE  start[w] = start[v]
    BY DEF DisjointScans
  <2>1. /\ start[w] \in Nonce /\ start[v] \in Nonce /\ nonce[w] \in Nonce
        /\ nonce[v] \in Nonce /\ start[w] % Flag = 0 /\ start[v] % Flag = 0
    BY DEF IInv, TypeOK, AlignInv
  <2>2. PICK t \in 0 .. Flag - 1 : nonce[w] = start[w] + t
    <3>1. (nonce[w] - start[w]) % (Half * Half) < Flag
      BY DEF Tries
    <3> QED
      BY <2>1, <3>1, TriesOfNonce
  <2>3. PICK u \in 0 .. Flag - 1 : nonce[v] = start[v] + u
    <3>1. (nonce[v] - start[v]) % (Half * Half) < Flag
      BY DEF Tries
    <3> QED
      BY <2>1, <3>1, TriesOfNonce
  <2> DEFINE a == start[w] \div Flag
             b == start[v] \div Flag
  <2>4. start[w] = a * Flag /\ start[v] = b * Flag /\ a \in Nat /\ b \in Nat
    <3>1. ASSUME NEW s \in Nonce, s % Flag = 0
          PROVE  s = (s \div Flag) * Flag /\ s \div Flag \in Nat
      <4>1. s \in Nat
        BY GenesisAssumption, SMT DEF Nonce
      <4>2. s = Flag * (s \div Flag) + (s % Flag) /\ s \div Flag \in Nat
        BY <4>1, DivMod, GenesisAssumption
      <4> QED
        BY <3>1, <4>1, <4>2, GenesisAssumption, SMT
    <3> QED
      BY <2>1, <3>1
  <2> HIDE DEF a, b
  <2>5. (nonce[w] \div Flag) = a /\ (nonce[v] \div Flag) = b
    <3>1. nonce[w] = a * Flag + t /\ nonce[v] = b * Flag + u
      BY <2>2, <2>3, <2>4
    <3> QED
      BY <2>4, <3>1, QuotUnique, GenesisAssumption
  <2> QED
    BY <2>4, <2>5
<1> QED
  BY Invariance, <1>1, <1>2, <1>3, PTL DEF Spec
-----------------------------------------------------------------------------
(* The clock.                                                              *)

\* However often a worker refreshes its time: it is dated between the requested
\* time and that plus the seconds the command has run.
THEOREM TimesFollow == Spec => []TimeFollowsClock
<1>1. Init => TimeFollowsClock
  BY DEF Init, TimeFollowsClock, Copied
<1>2. IInv /\ TimeFollowsClock /\ [Next]_vars => TimeFollowsClock'
  <2> SUFFICES ASSUME IInv, TimeFollowsClock, [Next]_vars PROVE TimeFollowsClock'
    OBVIOUS
  <2> USE DEF IInv, local, MainUnchanged, Goto, Copied
  <2>0. /\ StartTime \in Nat /\ clock \in Nat /\ ntime \in [Worker -> Int]
        /\ offset \in [Worker -> Int] /\ wpc \in [Worker -> {"unborn", "copyHi", "copyLo"} \cup Copied]
    BY GenesisAssumption DEF TypeOK
  <2>1. ASSUME UNCHANGED <<clock, ntime, offset>>,
               \A w \in Worker : wpc'[w] \in Copied => wpc[w] \in Copied
        PROVE  TimeFollowsClock'
    BY <2>1 DEF TimeFollowsClock
  <2>2. CASE BeginSearch \/ SpawnWorker
    <3>1. \A w \in Worker : wpc'[w] \in Copied => wpc[w] \in Copied
      BY <2>0, <2>2 DEF BeginSearch, SpawnWorker, LowHalf
    <3>2. UNCHANGED <<clock, ntime, offset>>
      BY <2>2 DEF BeginSearch, SpawnWorker, LowHalf
    <3> QED
      BY <2>1, <3>1, <3>2
  <2>3. CASE ReturnAtOnce \/ DrawNonce \/ JoinAll \/ Finish \/ UNCHANGED vars
    BY <2>3 DEF ReturnAtOnce, DrawNonce, JoinAll, Finish, vars, TimeFollowsClock
  <2>4. CASE Tick
    <3> SUFFICES ASSUME NEW w \in Worker, wpc[w] \in Copied
                 PROVE  /\ ntime[w] \in StartTime .. StartTime + (clock + 1)
                        /\ (clock + 1) + offset[w] \in StartTime .. StartTime + (clock + 1)
      BY <2>4 DEF Tick, TimeFollowsClock
    <3>1. /\ ntime[w] \in StartTime .. StartTime + clock
          /\ clock + offset[w] \in StartTime .. StartTime + clock
      BY DEF TimeFollowsClock
    <3>2. ntime[w] \in Int /\ offset[w] \in Int
      BY <2>0
    <3> QED
      BY <2>0, <3>1, <3>2
  <2>5. ASSUME NEW w \in Worker, Get(w) PROVE TimeFollowsClock'
    <3>1. CASE CopyLo(w)
      <4>1. /\ ntime' = [ntime EXCEPT ![w] = StartTime]
            /\ offset' = [offset EXCEPT ![w] = StartTime - clock] /\ clock' = clock
        BY <3>1 DEF CopyLo, TimeOffset
      <4>2. \A v \in Worker \ {w} : wpc'[v] = wpc[v]
        BY <2>0, <3>1 DEF CopyLo
      <4> SUFFICES ASSUME NEW v \in Worker, wpc'[v] \in Copied
                   PROVE  /\ ntime'[v] \in StartTime .. StartTime + clock
                          /\ clock + offset'[v] \in StartTime .. StartTime + clock
        BY <4>1 DEF TimeFollowsClock
      <4>3. CASE v = w
        <5>1. ntime'[v] = StartTime /\ offset'[v] = StartTime - clock
          BY <2>0, <4>1, <4>3
        <5> QED
          BY <2>0, <5>1
      <4>4. CASE v # w
        <5>1. ntime'[v] = ntime[v] /\ offset'[v] = offset[v] /\ wpc[v] \in Copied
          BY <2>0, <4>1, <4>2, <4>4
        <5> QED
          BY <5>1 DEF TimeFollowsClock
      <4> QED
        BY <4>3, <4>4
    <3>2. CASE TryNext(w)
      <4>1. /\ ntime' = [ntime EXCEPT ![w] =
                           IF cnt[w] > RefreshAfter THEN clock + offset[w] ELSE ntime[w]]
            /\ offset' = offset /\ clock' = clock
        BY <3>2 DEF TryNext
      <4>2. \A v \in Worker : wpc'[v] \in Copied => wpc[v] \in Copied
        BY <2>0, <3>2 DEF TryNext
      <4>3. ntime'[w] \in {ntime[w], clock + offset[w]}
            /\ \A v \in Worker \ {w} : ntime'[v] = ntime[v]
        BY <2>0, <4>1
      <4> QED
        BY <4>1, <4>2, <4>3 DEF TimeFollowsClock
    <3>3. CASE ~CopyLo(w) /\ ~TryNext(w)
      <4>1. /\ UNCHANGED <<clock, ntime, offset>>
            /\ \A v \in Worker : wpc'[v] \in Copied => wpc[v] \in Copied
        BY <2>0, <2>5, <3>3 DEF Get, CopyHi, Hash, AfterFind, LoadResult, StoreResult,
                                PrintTask, AcquireMtx, PrintBox, Stop
      <4> QED
        BY <2>1, <4>1
    <3> QED
      BY <3>1, <3>2, <3>3
  <2> QED
    BY <2>2, <2>3, <2>4, <2>5 DEF Next, Main, Ended
<1> QED
  BY Invariance, <1>1, <1>2, PTL DEF Spec
-----------------------------------------------------------------------------
(* The counter of the finds.                                               *)

\* The worker has a line on stdout from this search.
HasLine(w) == \E k \in DOMAIN stdout : stdout[k].who = w /\ stdout[k].call = call

\* A worker writes only after it has stored its find, and has written from its
\* first line to the end of its loop; what it is about to store is no more than
\* the number of those that have stored.
FinderInv ==
  /\ \A k \in DOMAIN stdout : stdout[k].call \in 1 .. call
  /\ \A w \in Worker : HasLine(w) => wpc[w] \in {"lock", "open", "body", "close", "check", "done"}
  /\ \A w \in Worker : wpc[w] \in {"lock", "open", "body", "close"} => HasLine(w)
  /\ \A w \in Worker : wpc[w] = "store" => reg[w] <= Cardinality(Finders)
  /\ CounterCountsFinders

LEMMA FindersFinite == IsFiniteSet(Finders) /\ Cardinality(Finders) \in Nat
<1>1. IsFiniteSet(Worker)
  BY CpusNat, FS_Interval DEF Worker
<1>2. Finders \subseteq Worker
  BY DEF Finders
<1> QED
  BY <1>1, <1>2, FS_Subset, FS_CardinalityType

\* What a step of a worker leaves alone.
LEMMA GetShape ==
  ASSUME IInv, NEW w \in Worker, Get(w)
  PROVE  /\ call' = call /\ wpc' = [wpc EXCEPT ![w] = wpc'[w]]
         /\ \A v \in Worker \ {w} : wpc'[v] = wpc[v] /\ reg'[v] = reg[v]
         /\ call \in 1 .. 2
<1> USE DEF IInv, Goto, MainUnchanged
<1>1. /\ call' = call /\ wpc' = [wpc EXCEPT ![w] = wpc'[w]]
      /\ \A v \in Worker \ {w} : wpc'[v] = wpc[v] /\ reg'[v] = reg[v]
  BY DEF TypeOK, Get, CopyHi, CopyLo, Hash, AfterFind, LoadResult, StoreResult, PrintTask,
         AcquireMtx, PrintBox, Stop, TryNext
<1>2. wpc[w] \notin {"unborn", "done"}
  BY DEF Get, CopyHi, CopyLo, Hash, AfterFind, LoadResult, StoreResult, PrintTask,
         AcquireMtx, PrintBox, Stop, TryNext
<1> QED
  BY <1>1, <1>2 DEF ForkInv, TypeOK

\* The line a worker appends is its own.
LEMMA OwnLine ==
  ASSUME IInv, NEW w \in Worker, NEW kind \in {"task", "open", "body", "close"}, Output(w, kind),
         call' = call, call \in 1 .. 2,
         \A k \in DOMAIN stdout : stdout[k].call \in 1 .. call
  PROVE  /\ \A v \in Worker : HasLine(v)' <=> HasLine(v) \/ v = w
         /\ \A k \in DOMAIN stdout' : stdout'[k].call \in 1 .. call
<1> DEFINE line == [who |-> w, kind |-> kind, call |-> call,
                    nonce |-> nonce[w], time |-> ntime[w]]
           n == Len(stdout)
<1>1. line \in Line /\ line.who = w /\ line.call = call
  BY DEF IInv, TypeOK, Line
<1>2. stdout \in Seq(Line) /\ stdout' = Append(stdout, line)
  BY DEF Output, Printed, IInv, TypeOK
<1> HIDE DEF line
<1>3. /\ n \in Nat /\ DOMAIN stdout = 1 .. n /\ DOMAIN stdout' = 1 .. n + 1
      /\ \A k \in 1 .. n : stdout'[k] = stdout[k]
      /\ stdout'[n + 1] = line
  BY <1>1, <1>2, SMTT(20)
<1> HIDE DEF n
<1>4. \A k \in 1 .. n + 1 : k \in 1 .. n \/ k = n + 1
  BY <1>3
<1>5. n + 1 \in 1 .. n + 1 /\ \A k \in 1 .. n : k \in 1 .. n + 1
  BY <1>3
<1>6. ASSUME NEW v \in Worker PROVE HasLine(v)' <=> HasLine(v) \/ v = w
  <2>1. HasLine(v)' => HasLine(v) \/ v = w
    BY <1>1, <1>3, <1>4 DEF HasLine
  <2>2. HasLine(v) => HasLine(v)'
    BY <1>3, <1>5 DEF HasLine
  <2>3. v = w => HasLine(v)'
    BY <1>1, <1>3, <1>5 DEF HasLine
  <2> QED
    BY <2>1, <2>2, <2>3
<1>7. \A k \in DOMAIN stdout' : stdout'[k].call \in 1 .. call
  BY <1>1, <1>3, <1>4
<1> QED
  BY <1>6, <1>7

LEMMA FinderStep ==
  ASSUME IInv, IInv', FinderInv, [Next]_vars
  PROVE  FinderInv'
<1> USE DEF IInv, local
<1>0. Finders = {w \in Worker : wpc[w] = "task" \/ HasLine(w)}
      /\ Finders' = {w \in Worker : wpc'[w] = "task" \/ HasLine(w)'}
  BY DEF Finders, HasLine
<1>1. ASSUME UNCHANGED <<result, reg>>, Finders' = Finders,
             \A w \in Worker : wpc'[w] = "store" => wpc[w] = "store"
      PROVE  /\ \A w \in Worker : wpc'[w] = "store" => reg'[w] <= Cardinality(Finders')
             /\ CounterCountsFinders'
  BY <1>1 DEF FinderInv, CounterCountsFinders
<1>2. CASE BeginSearch
  <2>1. /\ call' = call + 1 /\ call \in 0 .. 2 /\ stdout' = stdout /\ result' = 0
        /\ \A w \in Worker : wpc'[w] = "unborn"
    BY <1>2 DEF BeginSearch, TypeOK
  <2>2. \A w \in Worker : ~HasLine(w)'
    BY <2>1 DEF HasLine, FinderInv
  <2>3. Finders' = {}
    BY <1>0, <2>1, <2>2
  <2>4. \A k \in DOMAIN stdout' : stdout'[k].call \in 1 .. call'
    BY <2>1 DEF FinderInv
  <2>5. CounterCountsFinders'
    BY <2>1, <2>3, FS_EmptySet DEF CounterCountsFinders
  <2> QED
    BY <2>1, <2>2, <2>4, <2>5 DEF FinderInv
<1>3. CASE ReturnAtOnce \/ DrawNonce \/ JoinAll \/ Finish \/ Tick \/ UNCHANGED vars \/ SpawnWorker
  <2>1. UNCHANGED <<call, stdout, result, reg>>
    BY <1>3 DEF ReturnAtOnce, DrawNonce, JoinAll, Finish, Tick, vars, SpawnWorker, LowHalf
  <2>2. \A w \in Worker : wpc'[w] = wpc[w] \/ (wpc[w] = "unborn" /\ wpc'[w] = "copyHi")
    <3>1. CASE SpawnWorker
      <4>1. forked \in Worker => wpc[forked] = "unborn"
        BY DEF ForkInv, TypeOK, Worker
      <4> QED
        BY <3>1, <4>1 DEF SpawnWorker, LowHalf, TypeOK
    <3>2. CASE ~SpawnWorker
      BY <1>3, <3>2 DEF ReturnAtOnce, DrawNonce, JoinAll, Finish, Tick, vars
    <3> QED
      BY <3>1, <3>2
  <2>3. \A w \in Worker : HasLine(w)' <=> HasLine(w)
    BY <2>1 DEF HasLine
  <2>4. Finders' = Finders
    BY <1>0, <2>2, <2>3
  <2>5. \A w \in Worker : HasLine(w)' => wpc'[w] \in {"lock", "open", "body", "close", "check", "done"}
    BY <2>2, <2>3 DEF FinderInv
  <2>6. \A w \in Worker : wpc'[w] \in {"lock", "open", "body", "close"} => HasLine(w)'
    BY <2>2, <2>3 DEF FinderInv
  <2> QED
    BY <1>1, <2>1, <2>2, <2>4, <2>5, <2>6 DEF FinderInv
<1>4. ASSUME NEW w \in Worker, Get(w) PROVE FinderInv'
  <2> USE DEF Goto
  <2>1. /\ call' = call /\ call \in 1 .. 2
        /\ \A v \in Worker \ {w} : wpc'[v] = wpc[v] /\ reg'[v] = reg[v]
    BY <1>4, GetShape
  <2>2. ASSUME stdout' = stdout, ~StoreResult(w), ~PrintTask(w), ~PrintBox(w)
        PROVE  FinderInv'
    <3>1. \A v \in Worker : HasLine(v)' <=> HasLine(v)
      BY <2>1, <2>2 DEF HasLine
    <3>2. /\ wpc[w] # "task" /\ wpc'[w] # "task" /\ result' = result
          /\ wpc'[w] \in {"lock", "open", "body", "close"} => wpc[w] = "lock"
          /\ wpc'[w] = "store" => reg'[w] = result
          /\ wpc[w] \in {"open", "body", "close", "done"} => FALSE
          /\ wpc[w] = "lock" => wpc'[w] = "open"
          /\ wpc[w] = "check" => wpc'[w] = "done" \/ ~(result > 0)
      BY <1>4, <2>2 DEF TypeOK, Get, CopyHi, CopyLo, Hash, AfterFind, LoadResult,
                        AcquireMtx, Stop, TryNext
    <3>3. Finders' = Finders
      BY <1>0, <2>1, <3>1, <3>2
    <3>4. HasLine(w) => wpc'[w] \in {"lock", "open", "body", "close", "check", "done"}
      <4>1. HasLine(w) => result > 0
        BY <1>0 DEF FinderInv, CounterCountsFinders
      <4> QED
        BY <3>2, <4>1 DEF FinderInv
    <3>5. CounterCountsFinders'
      BY <3>2, <3>3 DEF FinderInv, CounterCountsFinders
    <3>6. \A v \in Worker : wpc'[v] = "store" => reg'[v] <= Cardinality(Finders')
      BY <2>1, <3>2, <3>3 DEF FinderInv, CounterCountsFinders
    <3>7. \A k \in DOMAIN stdout' : stdout'[k].call \in 1 .. call'
      BY <2>1, <2>2 DEF FinderInv
    <3>8. \A v \in Worker : HasLine(v)' => wpc'[v] \in {"lock", "open", "body", "close", "check", "done"}
      BY <2>1, <3>1, <3>4 DEF FinderInv
    <3>9. \A v \in Worker : wpc'[v] \in {"lock", "open", "body", "close"} => HasLine(v)'
      BY <2>1, <3>1, <3>2 DEF FinderInv
    <3> QED
      BY <3>5, <3>6, <3>7, <3>8, <3>9 DEF FinderInv
  <2>3. CASE StoreResult(w)
    <3>1. /\ wpc[w] = "store" /\ wpc'[w] = "task" /\ result' = reg[w] + 1
          /\ stdout' = stdout /\ reg' = reg /\ reg[w] \in Nat
      BY <2>3 DEF StoreResult, TypeOK
    <3>2. \A v \in Worker : HasLine(v)' <=> HasLine(v)
      BY <2>1, <3>1 DEF HasLine
    <3>3. ~HasLine(w)
      BY <3>1 DEF FinderInv
    <3>4. Finders' = Finders \cup {w} /\ w \notin Finders
      BY <1>0, <2>1, <3>1, <3>2, <3>3
    <3>5. /\ Cardinality(Finders') = Cardinality(Finders) + 1 /\ Cardinality(Finders) \in Nat
      BY <3>4, FindersFinite, FS_AddElement
    <3>6. \A v \in Worker : wpc'[v] = "store" => reg'[v] <= Cardinality(Finders')
      <4> SUFFICES ASSUME NEW v \in Worker, wpc'[v] = "store"
                   PROVE  reg[v] <= Cardinality(Finders')
        BY <3>1
      <4>1. wpc[v] = "store" /\ reg[v] \in Nat
        BY <2>1, <3>1 DEF TypeOK
      <4>2. reg[v] <= Cardinality(Finders)
        BY <4>1 DEF FinderInv
      <4> QED
        BY <3>5, <4>1, <4>2
    <3>7. reg[w] <= Cardinality(Finders)
      BY <3>1 DEF FinderInv
    <3>8. CounterCountsFinders'
      <4>1. result' > 0 /\ result' <= Cardinality(Finders')
        BY <3>1, <3>5, <3>7
      <4> QED
        BY <3>4, <4>1 DEF CounterCountsFinders
    <3>9. /\ \A k \in DOMAIN stdout' : stdout'[k].call \in 1 .. call'
          /\ \A v \in Worker : HasLine(v)' => wpc'[v] \in {"lock", "open", "body", "close", "check", "done"}
          /\ \A v \in Worker : wpc'[v] \in {"lock", "open", "body", "close"} => HasLine(v)'
      BY <2>1, <3>1, <3>2, <3>3 DEF FinderInv
    <3> QED
      BY <3>6, <3>8, <3>9 DEF FinderInv
  <2>4. CASE PrintTask(w) \/ PrintBox(w)
    <3>1. PICK kind \in {"task", "open", "body", "close"} : Output(w, kind)
      BY <2>4 DEF PrintTask, PrintBox
    <3>2. /\ UNCHANGED <<result, reg>> /\ wpc[w] \in {"task", "open", "body", "close"}
          /\ wpc'[w] \in {"lock", "body", "close", "check"}
      BY <2>4 DEF PrintTask, PrintBox, TypeOK
    <3>3. /\ \A v \in Worker : HasLine(v)' <=> HasLine(v) \/ v = w
          /\ \A k \in DOMAIN stdout' : stdout'[k].call \in 1 .. call'
      <4>1. \A k \in DOMAIN stdout : stdout[k].call \in 1 .. call
        BY DEF FinderInv
      <4> QED
        BY <2>1, <3>1, <4>1, OwnLine
    <3>4. w \in Finders
      BY <1>0, <3>2 DEF FinderInv
    <3>5. Finders' = Finders
      BY <1>0, <2>1, <3>2, <3>3, <3>4
    <3>6. \A v \in Worker : wpc'[v] = "store" => wpc[v] = "store"
      BY <2>1, <3>2
    <3>7. \A v \in Worker : HasLine(v)' => wpc'[v] \in {"lock", "open", "body", "close", "check", "done"}
      BY <2>1, <3>2, <3>3 DEF FinderInv
    <3>8. \A v \in Worker : wpc'[v] \in {"lock", "open", "body", "close"} => HasLine(v)'
      BY <2>1, <3>3 DEF FinderInv
    <3> QED
      BY <1>1, <3>2, <3>3, <3>5, <3>6, <3>7, <3>8 DEF FinderInv
  <2>5. CASE ~StoreResult(w) /\ ~PrintTask(w) /\ ~PrintBox(w)
    <3>1. stdout' = stdout
      BY <1>4, <2>5 DEF Get, CopyHi, CopyLo, Hash, LoadResult, AcquireMtx, Stop, TryNext
    <3> QED
      BY <2>2, <2>5, <3>1
  <2> QED
    BY <2>3, <2>4, <2>5
<1> QED
  BY <1>2, <1>3, <1>4 DEF Next, Main, Ended

\* FinderInv is an invariant.
LEMMA FindersKept == Spec => []FinderInv
<1>1. Init => FinderInv
  <2> SUFFICES ASSUME Init PROVE FinderInv
    OBVIOUS
  <2>1. stdout = <<>> /\ DOMAIN stdout = {} /\ result = 0 /\ \A w \in Worker : wpc[w] = "unborn"
    BY DEF Init
  <2>2. Finders = {}
    BY <2>1 DEF Finders
  <2> QED
    BY <2>1, <2>2, FS_EmptySet DEF FinderInv, HasLine, CounterCountsFinders
<1>2. IInv /\ IInv' /\ FinderInv /\ [Next]_vars => FinderInv'
  BY FinderStep
<1> QED
  BY Invariance, <1>1, <1>2, PTL DEF Spec

\* For any number of threads: the racing counter is positive exactly when a
\* worker of this search has stored its find, and is never too large.
THEOREM CounterRight == Spec => []CounterCountsFinders
<1>1. FinderInv => CounterCountsFinders
  BY DEF FinderInv
<1> QED
  BY FindersKept, <1>1, PTL

-----------------------------------------------------------------------------
(* The boxes.                                                              *)

\* The last line that is no "Task" line is the one the holder of mtx printed
\* last, and ends a box if nobody is within one.
LastLine(j) == \A i \in DOMAIN stdout : i > j => stdout[i].kind = "task"
Within(w, kind, last) ==
  wpc[w] = kind => \E j \in DOMAIN stdout : /\ stdout[j].kind = last /\ stdout[j].who = w
                                            /\ LastLine(j)
BoxInv ==
  /\ BoxesContiguous
  /\ \A w \in Worker : Within(w, "body", "open") /\ Within(w, "close", "body")
  /\ (\A w \in Worker : wpc[w] \notin {"body", "close"}) =>
       \A j \in DOMAIN stdout : LastLine(j) => stdout[j].kind \in {"task", "close"}

\* What is between the lines when one more is appended.
LEMMA TasksBetween ==
  ASSUME TypeOK, NEW line \in Line, stdout' = Append(stdout, line)
  PROVE  LET m == Len(stdout)
         IN  /\ m \in Nat /\ DOMAIN stdout = 1 .. m /\ DOMAIN stdout' = 1 .. m + 1
             /\ \A i \in 1 .. m : stdout'[i] = stdout[i]
             /\ stdout'[m + 1] = line
             /\ \A j \in 1 .. m : \A k \in 1 .. m + 1 : OnlyTasks(j, k)' <=> OnlyTasks(j, k)
             /\ \A j \in 1 .. m : OnlyTasks(j, m + 1) <=> LastLine(j)
             /\ \A j \in 1 .. m : LastLine(j)' <=> (LastLine(j) /\ line.kind = "task")
             /\ \A j : j = m + 1 => LastLine(j)'
<1> DEFINE m == Len(stdout)
<1>1. /\ m \in Nat /\ DOMAIN stdout = 1 .. m /\ DOMAIN stdout' = 1 .. m + 1
      /\ \A i \in 1 .. m : stdout'[i] = stdout[i]
      /\ stdout'[m + 1] = line
  BY SMTT(20) DEF TypeOK
<1> HIDE DEF m
<1>2. ASSUME NEW j \in 1 .. m, NEW k \in 1 .. m + 1
      PROVE  OnlyTasks(j, k)' <=> OnlyTasks(j, k)
  <2>1. \A i \in j + 1 .. k - 1 : i \in 1 .. m
    BY <1>1
  <2> QED
    BY <1>1, <2>1 DEF OnlyTasks
<1>3. ASSUME NEW j \in 1 .. m
      PROVE  OnlyTasks(j, m + 1) <=> LastLine(j)
  <2>1. \A i : i \in j + 1 .. (m + 1) - 1 <=> (i \in 1 .. m /\ i > j)
    BY <1>1
  <2> QED
    BY <1>1, <2>1 DEF OnlyTasks, LastLine
<1>4. ASSUME NEW j \in 1 .. m
      PROVE  LastLine(j)' <=> (LastLine(j) /\ line.kind = "task")
  <2>1. /\ \A i \in 1 .. m + 1 : i \in 1 .. m \/ i = m + 1
        /\ \A i \in 1 .. m : i \in 1 .. m + 1
        /\ m + 1 \in 1 .. m + 1 /\ m + 1 > j
    BY <1>1
  <2> QED
    BY <1>1, <2>1 DEF LastLine
<1>5. ASSUME NEW j, j = m + 1
      PROVE  LastLine(j)'
  <2>1. \A i \in 1 .. m + 1 : ~(i > j)
    BY <1>1, <1>5
  <2> QED
    BY <1>1, <2>1 DEF LastLine
<1> QED
  BY <1>1, <1>2, <1>3, <1>4, <1>5 DEF m

LEMMA BoxStep ==
  ASSUME IInv, BoxInv, [Next]_vars
  PROVE  BoxInv'
<1> USE DEF local
<1>0. TypeOK /\ MtxInv /\ ForkInv
  BY DEF IInv
<1>1. ASSUME stdout' = stdout,
             \A w \in Worker : /\ wpc'[w] = "body" <=> wpc[w] = "body"
                               /\ wpc'[w] = "close" <=> wpc[w] = "close"
      PROVE  BoxInv'
  BY <1>1 DEF BoxInv, BoxesContiguous, Within, OnlyTasks, LastLine
<1>2. CASE BeginSearch
  <2>1. /\ stdout' = stdout /\ \A w \in Worker : wpc'[w] = "unborn"
        /\ \A w \in Worker : wpc[w] \in {"unborn", "done"}
    BY <1>0, <1>2 DEF BeginSearch, ForkInv
  <2> QED
    BY <1>1, <2>1
<1>3. CASE SpawnWorker
  <2>1. forked \in Worker => wpc[forked] = "unborn"
    BY <1>0 DEF ForkInv, TypeOK, Worker
  <2>2. /\ stdout' = stdout
        /\ \A w \in Worker : wpc'[w] = wpc[w] \/ (wpc[w] = "unborn" /\ wpc'[w] = "copyHi")
    BY <1>0, <1>3, <2>1 DEF SpawnWorker, LowHalf, TypeOK
  <2> QED
    BY <1>1, <2>2
<1>4. CASE ReturnAtOnce \/ DrawNonce \/ JoinAll \/ Finish \/ Tick \/ UNCHANGED vars
  BY <1>1, <1>4 DEF ReturnAtOnce, DrawNonce, JoinAll, Finish, Tick, vars
<1>5. ASSUME NEW w \in Worker, Get(w) PROVE BoxInv'
  <2> USE DEF Goto
  <2>1. /\ call \in 1 .. 2 /\ wpc' = [wpc EXCEPT ![w] = wpc'[w]]
        /\ \A v \in Worker \ {w} : wpc'[v] = wpc[v]
    BY <1>5, GetShape
  <2>2. CASE ~PrintTask(w) /\ ~PrintBox(w)
    <3>1. /\ stdout' = stdout
          /\ wpc[w] \notin {"body", "close"} /\ wpc'[w] \notin {"body", "close"}
      BY <1>0, <1>5, <2>2 DEF TypeOK, Get, CopyHi, CopyLo, Hash, AfterFind, LoadResult,
                              StoreResult, AcquireMtx, Stop, TryNext
    <3> QED
      BY <1>1, <2>1, <3>1
  <2>3. ASSUME NEW kind \in {"task", "open", "body", "close"}, Output(w, kind)
        PROVE  \E line \in Line : /\ stdout' = Append(stdout, line)
                                  /\ line.kind = kind /\ line.who = w
    <3> DEFINE line == [who |-> w, kind |-> kind, call |-> call,
                        nonce |-> nonce[w], time |-> ntime[w]]
    <3>1. line \in Line
      BY <1>0, <2>1 DEF Line, TypeOK
    <3>2. stdout' = Append(stdout, line) /\ line.kind = kind /\ line.who = w
      BY <2>3 DEF Output, Printed
    <3> QED
      BY <3>1, <3>2
  <2> DEFINE m == Len(stdout)
  <2>4. CASE PrintTask(w)
    <3>1. PICK line \in Line : stdout' = Append(stdout, line) /\ line.kind = "task"
      BY <2>3, <2>4 DEF PrintTask
    <3>2. wpc[w] = "task" /\ wpc'[w] = "lock"
      BY <1>0, <2>4 DEF PrintTask, TypeOK
    <3>3. /\ m \in Nat /\ DOMAIN stdout = 1 .. m /\ DOMAIN stdout' = 1 .. m + 1
          /\ \A i \in 1 .. m : stdout'[i] = stdout[i]
          /\ stdout'[m + 1].kind = "task"
          /\ \A j \in 1 .. m : \A k \in 1 .. m + 1 : OnlyTasks(j, k)' <=> OnlyTasks(j, k)
          /\ \A j \in 1 .. m : LastLine(j)' <=> LastLine(j)
      BY <1>0, <3>1, TasksBetween
    <3> HIDE DEF m
    <3>4. \A k \in 1 .. m + 1 : k \in 1 .. m \/ k = m + 1
      BY <3>3
    <3>5. \A k \in 1 .. m : k \in 1 .. m + 1 /\ \A j \in 1 .. k - 1 : j \in 1 .. m
      BY <3>3
    <3>6. BoxesContiguous'
      <4> SUFFICES ASSUME NEW k \in 1 .. m + 1, stdout'[k].kind # "task"
                   PROVE  /\ stdout'[k].kind \in {"body", "close"} =>
                               \E j \in 1 .. k - 1 :
                                 /\ stdout'[j].kind = IF stdout'[k].kind = "body" THEN "open" ELSE "body"
                                 /\ stdout'[j].who = stdout'[k].who /\ OnlyTasks(j, k)'
                          /\ stdout'[k].kind = "open" =>
                               \A j \in 1 .. k - 1 : OnlyTasks(j, k)' => stdout'[j].kind \in {"task", "close"}
        BY <3>3 DEF BoxesContiguous
      <4>1. k \in 1 .. m /\ stdout'[k] = stdout[k]
        BY <3>3, <3>4
      <4>2. \A j \in 1 .. k - 1 : stdout'[j] = stdout[j] /\ (OnlyTasks(j, k)' <=> OnlyTasks(j, k))
        BY <3>3, <3>5, <4>1
      <4> QED
        BY <3>3, <4>1, <4>2 DEF BoxInv, BoxesContiguous
    <3>7. \A v \in Worker : Within(v, "body", "open")' /\ Within(v, "close", "body")'
      <4>1. \A v \in Worker : /\ wpc'[v] = "body" <=> wpc[v] = "body"
                              /\ wpc'[v] = "close" <=> wpc[v] = "close"
        BY <2>1, <3>2
      <4>2. \A v \in Worker : Within(v, "body", "open") /\ Within(v, "close", "body")
        BY DEF BoxInv
      <4> QED
        BY <3>3, <3>5, <4>1, <4>2 DEF Within
    <3>8. (\A v \in Worker : wpc'[v] \notin {"body", "close"}) =>
            \A j \in 1 .. m + 1 : LastLine(j)' => stdout'[j].kind \in {"task", "close"}
      <4> SUFFICES ASSUME \A v \in Worker : wpc'[v] \notin {"body", "close"},
                          NEW j \in 1 .. m + 1, LastLine(j)'
                   PROVE  stdout'[j].kind \in {"task", "close"}
        OBVIOUS
      <4>1. \A v \in Worker : wpc[v] \notin {"body", "close"}
        BY <2>1, <3>2
      <4>2. CASE j \in 1 .. m
        BY <3>3, <4>1, <4>2 DEF BoxInv
      <4> QED
        BY <3>3, <3>4, <4>2
    <3> QED
      BY <3>3, <3>6, <3>7, <3>8 DEF BoxInv
  <2>5. CASE PrintBox(w)
    <3>0. wpc[w] \in {"open", "body", "close"}
      BY <2>5 DEF PrintBox
    <3>1. PICK line \in Line : /\ stdout' = Append(stdout, line) /\ line.who = w
                               /\ line.kind = wpc[w]
      <4>1. Output(w, wpc[w])
        BY <2>5 DEF PrintBox
      <4> QED
        BY <2>3, <3>0, <4>1
    <3>2. /\ wpc[w] = "open" => wpc'[w] = "body"
          /\ wpc[w] = "body" => wpc'[w] = "close"
          /\ wpc[w] = "close" => wpc'[w] = "check"
      BY <1>0, <2>5 DEF PrintBox, TypeOK
    <3>3. /\ m \in Nat /\ DOMAIN stdout = 1 .. m /\ DOMAIN stdout' = 1 .. m + 1
          /\ \A i \in 1 .. m : stdout'[i] = stdout[i]
          /\ stdout'[m + 1] = line
          /\ \A j \in 1 .. m : \A k \in 1 .. m + 1 : OnlyTasks(j, k)' <=> OnlyTasks(j, k)
          /\ \A j \in 1 .. m : ~LastLine(j)' /\ (OnlyTasks(j, m + 1) <=> LastLine(j))
          /\ \A j : j = m + 1 => LastLine(j)'
      BY <1>0, <3>0, <3>1, TasksBetween
    <3>4. \A v \in Worker \ {w} : wpc[v] \notin {"open", "body", "close"}
      BY <1>0, <3>0 DEF MtxInv, Printing
    <3> HIDE DEF m
    <3>5. \A k \in 1 .. m + 1 : k \in 1 .. m \/ k = m + 1
      BY <3>3
    <3>6. /\ m + 1 \in 1 .. m + 1 /\ (m + 1) - 1 = m
          /\ \A k \in 1 .. m : k \in 1 .. m + 1 /\ \A j \in 1 .. k - 1 : j \in 1 .. m
      BY <3>3
    <3>7. BoxesContiguous'
      <4> SUFFICES ASSUME NEW k \in 1 .. m + 1
                   PROVE  /\ stdout'[k].kind \in {"body", "close"} =>
                               \E j \in 1 .. k - 1 :
                                 /\ stdout'[j].kind = IF stdout'[k].kind = "body" THEN "open" ELSE "body"
                                 /\ stdout'[j].who = stdout'[k].who /\ OnlyTasks(j, k)'
                          /\ stdout'[k].kind = "open" =>
                               \A j \in 1 .. k - 1 : OnlyTasks(j, k)' => stdout'[j].kind \in {"task", "close"}
        BY <3>3 DEF BoxesContiguous
      <4>1. CASE k \in 1 .. m
        <5>1. \A j \in 1 .. k - 1 : stdout'[j] = stdout[j] /\ (OnlyTasks(j, k)' <=> OnlyTasks(j, k))
          BY <3>3, <3>6, <4>1
        <5> QED
          BY <3>3, <4>1, <5>1 DEF BoxInv, BoxesContiguous
      <4>2. CASE k = m + 1
        <5>1. stdout'[k] = line /\ k - 1 = m
          BY <3>3, <3>6, <4>2
        <5>2. \A j \in 1 .. m : stdout'[j] = stdout[j] /\ (OnlyTasks(j, k)' <=> LastLine(j))
          BY <3>3, <3>6, <4>2
        <5>3. CASE wpc[w] = "open"
          <6>1. \A v \in Worker : wpc[v] \notin {"body", "close"}
            BY <3>4, <5>3
          <6>2. \A j \in 1 .. m : LastLine(j) => stdout[j].kind \in {"task", "close"}
            BY <3>3, <6>1 DEF BoxInv
          <6> QED
            BY <3>1, <5>1, <5>2, <5>3, <6>2
        <5>4. CASE wpc[w] = "body"
          <6>1. PICK j \in 1 .. m : /\ stdout[j].kind = "open" /\ stdout[j].who = w
                                    /\ LastLine(j)
            BY <3>3, <5>4 DEF BoxInv, Within
          <6> QED
            BY <3>1, <5>1, <5>2, <5>4, <6>1
        <5>5. CASE wpc[w] = "close"
          <6>1. PICK j \in 1 .. m : /\ stdout[j].kind = "body" /\ stdout[j].who = w
                                    /\ LastLine(j)
            BY <3>3, <5>5 DEF BoxInv, Within
          <6> QED
            BY <3>1, <5>1, <5>2, <5>5, <6>1
        <5> QED
          BY <3>0, <5>3, <5>4, <5>5
      <4> QED
        BY <3>5, <4>1, <4>2
    <3>8. \A v \in Worker : Within(v, "body", "open")' /\ Within(v, "close", "body")'
      <4> SUFFICES ASSUME NEW v \in Worker
                   PROVE  Within(v, "body", "open")' /\ Within(v, "close", "body")'
        OBVIOUS
      <4>1. CASE v # w
        <5>1. wpc'[v] \notin {"body", "close"}
          BY <2>1, <3>4, <4>1
        <5> QED
          BY <5>1 DEF Within
      <4>2. CASE v = w
        <5>1. wpc'[w] = "body" => line.kind = "open"
          BY <3>0, <3>1, <3>2
        <5>2. wpc'[w] = "close" => line.kind = "body"
          BY <3>0, <3>1, <3>2
        <5>3. PICK j \in DOMAIN stdout' : /\ LastLine(j)' /\ stdout'[j].who = v
                                          /\ stdout'[j].kind = line.kind
          BY <3>1, <3>3, <3>6, <4>2
        <5> QED
          BY <4>2, <5>1, <5>2, <5>3 DEF Within
      <4> QED
        BY <4>1, <4>2
    <3>9. (\A v \in Worker : wpc'[v] \notin {"body", "close"}) =>
            \A j \in 1 .. m + 1 : LastLine(j)' => stdout'[j].kind \in {"task", "close"}
      <4> SUFFICES ASSUME wpc'[w] \notin {"body", "close"}, NEW j \in 1 .. m + 1, LastLine(j)'
                   PROVE  stdout'[j].kind \in {"task", "close"}
        OBVIOUS
      <4>1. j = m + 1 /\ wpc[w] = "close"
        BY <3>0, <3>2, <3>3, <3>5
      <4> QED
        BY <3>1, <3>3, <4>1
    <3> QED
      BY <3>3, <3>7, <3>8, <3>9 DEF BoxInv
  <2> QED
    BY <2>2, <2>4, <2>5
<1> QED
  BY <1>2, <1>3, <1>4, <1>5 DEF Next, Main, Ended

\* For any number of threads, no box is broken into by another worker's.
THEOREM BoxesWhole == Spec => []BoxesContiguous
<1>1. Init => BoxInv
  BY DEF Init, BoxInv, BoxesContiguous, Within
<1>2. IInv /\ BoxInv /\ [Next]_vars => BoxInv'
  BY BoxStep
<1>3. BoxInv => BoxesContiguous
  BY DEF BoxInv
<1> QED
  BY Invariance, <1>1, <1>2, <1>3, PTL DEF Spec
-----------------------------------------------------------------------------
(* What there is to say of the end of a search without fairness: after a   *)
(* find every step brings it nearer, and somebody can always take one.     *)

\* How far a worker at a place of _get is from its end once something is found.
Stage(place) ==
  CASE place = "unborn" -> 0 [] place = "copyHi" -> 1 [] place = "copyLo" -> 2
    [] place = "hash" -> 3   [] place = "load" -> 4   [] place = "store" -> 5
    [] place = "task" -> 6   [] place = "lock" -> 7   [] place = "open" -> 8
    [] place = "body" -> 9   [] place = "close" -> 10 [] place = "check" -> 11
    [] OTHER -> 12

\* ... and findGenesis between two of its forks.
MainStage(place) ==
  CASE place = "begin" -> 0 [] place = "draw" -> 1 [] place = "spawn" -> 2
    [] place = "returned" -> 3 [] OTHER -> 4

\* Once a search has a find nobody goes back: no worker tries another nonce,
\* findGenesis forks nothing twice, and every step that is not one of the clock
\* takes a worker or findGenesis further.
SettlesAfterFind ==
  [][result > 0 /\ call' = call =>
       /\ \A w \in Worker : Stage(wpc'[w]) >= Stage(wpc[w])
       /\ forked' > forked \/ (forked' = forked /\ MainStage(mpc') >= MainStage(mpc))
       /\ \/ \E w \in Worker : Stage(wpc'[w]) > Stage(wpc[w])
          \/ forked' > forked \/ MainStage(mpc') > MainStage(mpc)
          \/ clock' > clock]_vars

\* The step relation behind SettlesAfterFind, for a step that is no stutter.
LEMMA SettlingStep ==
  ASSUME IInv, Next, vars' # vars, result > 0, call' = call
  PROVE  /\ \A w \in Worker : Stage(wpc'[w]) >= Stage(wpc[w])
         /\ forked' > forked \/ (forked' = forked /\ MainStage(mpc') >= MainStage(mpc))
         /\ \/ \E w \in Worker : Stage(wpc'[w]) > Stage(wpc[w])
            \/ forked' > forked \/ MainStage(mpc') > MainStage(mpc)
            \/ clock' > clock
<1> USE DEF IInv, local
<1>0. \A p : Stage(p) \in 0 .. 12 /\ MainStage(p) \in 0 .. 4
  BY DEF Stage, MainStage
<1>1. CASE ReturnAtOnce \/ DrawNonce \/ JoinAll \/ Finish
  <2>1. wpc' = wpc /\ forked' = forked
    BY <1>1 DEF ReturnAtOnce, DrawNonce, JoinAll, Finish
  <2>2. MainStage(mpc') > MainStage(mpc)
    BY <1>1 DEF ReturnAtOnce, DrawNonce, JoinAll, Finish, MainStage
  <2> QED
    BY <1>0, <2>1, <2>2
<1>2. CASE BeginSearch
  BY <1>2 DEF BeginSearch, TypeOK
<1>3. CASE SpawnWorker
  <2>1. forked' > forked /\ wpc' = [wpc EXCEPT ![forked] = "copyHi"]
    BY <1>3 DEF SpawnWorker, TypeOK
  <2>2. \A w \in Worker : w = forked => wpc[w] = "unborn"
    BY DEF ForkInv, TypeOK, Worker
  <2>3. \A w \in Worker : wpc'[w] = IF w = forked THEN "copyHi" ELSE wpc[w]
    BY <2>1 DEF TypeOK
  <2>4. Stage("copyHi") >= Stage("unborn")
    BY DEF Stage
  <2> QED
    BY <1>0, <2>1, <2>2, <2>3, <2>4
<1>4. ASSUME NEW w \in Worker, Get(w)
      PROVE  /\ \A v \in Worker : Stage(wpc'[v]) >= Stage(wpc[v])
             /\ Stage(wpc'[w]) > Stage(wpc[w])
             /\ forked' = forked /\ mpc' = mpc
  <2>1. \A v \in Worker \ {w} : wpc'[v] = wpc[v]
    BY <1>4, GetShape
  <2>2. forked' = forked /\ mpc' = mpc
    BY <1>4 DEF MainUnchanged, Get, CopyHi, CopyLo, Hash, LoadResult, StoreResult, PrintTask,
                AcquireMtx, PrintBox, Stop, TryNext
  <2>3. ~TryNext(w)
    BY DEF TryNext
  <2>4. Stage(wpc'[w]) > Stage(wpc[w])
    <3> USE DEF TypeOK, Goto, Stage
    <3>1. CASE CopyHi(w)
      BY <3>1 DEF CopyHi
    <3>2. CASE CopyLo(w)
      BY <3>2 DEF CopyLo
    <3>3. CASE Hash(w)
      BY <3>3 DEF Hash, AfterFind
    <3>4. CASE LoadResult(w)
      BY <3>4 DEF LoadResult
    <3>5. CASE StoreResult(w)
      BY <3>5 DEF StoreResult
    <3>6. CASE PrintTask(w)
      BY <3>6 DEF PrintTask
    <3>7. CASE AcquireMtx(w)
      BY <3>7 DEF AcquireMtx
    <3>8. CASE PrintBox(w)
      <4>1. \/ Goto(w, "open", "body") \/ Goto(w, "body", "close")
            \/ Goto(w, "close", "check")
        BY <3>8 DEF PrintBox
      <4> QED
        BY <4>1
    <3>9. CASE Stop(w)
      BY <3>9 DEF Stop
    <3> HIDE DEF TypeOK, Goto, Stage
    <3> QED
      BY <1>4, <2>3, <3>1, <3>2, <3>3, <3>4, <3>5, <3>6, <3>7, <3>8, <3>9 DEF Get
  <2> QED
    BY <1>0, <2>1, <2>2, <2>4
<1>5. CASE Tick
  <2>1. UNCHANGED <<mpc, forked, wpc>> /\ clock' > clock
    BY <1>5 DEF Tick, TypeOK
  <2> QED
    BY <1>0, <2>1
<1>6. ~Ended
  BY DEF Ended
<1> QED
  BY <1>0, <1>1, <1>2, <1>3, <1>4, <1>5, <1>6 DEF Next, Main

\* After a find the search runs down: the steps left are bounded by the places
\* there are between the workers and the end.
THEOREM Settles == Spec => SettlesAfterFind
<1> DEFINE A == result > 0 /\ call' = call =>
                  /\ \A w \in Worker : Stage(wpc'[w]) >= Stage(wpc[w])
                  /\ forked' > forked \/ (forked' = forked /\ MainStage(mpc') >= MainStage(mpc))
                  /\ \/ \E w \in Worker : Stage(wpc'[w]) > Stage(wpc[w])
                     \/ forked' > forked \/ MainStage(mpc') > MainStage(mpc)
                     \/ clock' > clock
<1>1. IInv /\ [Next]_vars => [A]_vars
  <2> SUFFICES ASSUME IInv, Next, vars' # vars, result > 0, call' = call PROVE A
    OBVIOUS
  <2> QED
    BY SettlingStep
<1>2. SettlesAfterFind <=> [][A]_vars
  BY DEF SettlesAfterFind
<1> HIDE DEF A
<1> QED
  BY Invariance, <1>1, <1>2, PTL DEF Spec

\* A worker that is between its start and its end and is not waiting for mtx.
CanMove(w) == wpc[w] \notin {"unborn", "done"} /\ (wpc[w] = "lock" => MtxFree)

\* While the joins of findGenesis wait some worker can go on: whoever waits for
\* mtx waits for one that is printing its box, which waits for nothing.
NobodyStuck ==
  mpc = "draw" /\ ~MoreToFork /\ ~Joined => \E w \in Worker : CanMove(w)

\* The mutex cannot leave the joins waiting for a worker that waits as well.
THEOREM NeverStuck == Spec => []NobodyStuck
<1>1. IInv => NobodyStuck
  <2> SUFFICES ASSUME IInv, mpc = "draw", ~MoreToFork, ~Joined
               PROVE  \E w \in Worker : CanMove(w)
    BY DEF NobodyStuck
  <2>1. PICK w \in Worker : wpc[w] # "done"
    BY DEF Joined
  <2>2. wpc[w] # "unborn"
    BY CpusNat DEF IInv, ForkInv, TypeOK, MoreToFork, Worker
  <2>3. CASE wpc[w] = "lock" /\ ~MtxFree
    <3>1. mtx \in Worker /\ wpc[mtx] \in Printing
      BY <2>3 DEF IInv, TypeOK, MtxInv, MtxFree
    <3> QED
      BY <3>1 DEF CanMove, Printing
  <2> QED
    BY <2>1, <2>2, <2>3 DEF CanMove
<1> QED
  BY Invariance, <1>1, PTL

\* In a search a worker reports one header, and none of its lines twice: it
\* does not go back to hashing after its own find, which the counter it has
\* itself incremented prevents although increments may be lost.
OneReportEach ==
  \A j, k \in DOMAIN stdout :
    stdout[j].call = stdout[k].call /\ stdout[j].who = stdout[k].who =>
      /\ stdout[j].nonce = stdout[k].nonce /\ stdout[j].time = stdout[k].time
      /\ stdout[j].kind = stdout[k].kind => j = k

\* The lines of the current search show the header their worker still has, and
\* the worker has passed the places where they are printed.
OnceInv ==
  /\ \A k \in DOMAIN stdout : stdout[k].call = call =>
       /\ stdout[k].nonce = nonce[stdout[k].who] /\ stdout[k].time = ntime[stdout[k].who]
       /\ Stage(wpc[stdout[k].who]) > Stage(stdout[k].kind)
  /\ OneReportEach

\* A step keeps OnceInv.
LEMMA OnceStep ==
  ASSUME IInv, FinderInv, OnceInv, [Next]_vars
  PROVE  OnceInv'
<1> USE DEF IInv, local
<1>0. \A k \in DOMAIN stdout : stdout[k] \in Line /\ stdout[k].who \in Worker
  <2>1. stdout \in Seq(Line)
    BY DEF TypeOK
  <2>2. \A k \in DOMAIN stdout : stdout[k] \in Line
    BY <2>1, SMTT(20)
  <2> QED
    BY <2>2 DEF Line
<1>1. CASE BeginSearch
  <2>1. call' = call + 1 /\ call \in 0 .. 2 /\ stdout' = stdout
    BY <1>1 DEF BeginSearch, TypeOK
  <2>2. \A k \in DOMAIN stdout : stdout[k].call # call'
    BY <2>1 DEF FinderInv
  <2> QED
    BY <2>1, <2>2 DEF OnceInv, OneReportEach
<1>2. CASE ReturnAtOnce \/ DrawNonce \/ JoinAll \/ Finish \/ Tick \/ UNCHANGED vars
  BY <1>2 DEF ReturnAtOnce, DrawNonce, JoinAll, Finish, Tick, vars, OnceInv, OneReportEach
<1>3. CASE SpawnWorker
  <2>1. UNCHANGED <<call, stdout, nonce, ntime>>
    BY <1>3 DEF SpawnWorker
  <2>2. \A w \in Worker : Stage(wpc'[w]) >= Stage(wpc[w])
    <3>1. \A w \in Worker : w = forked => wpc[w] = "unborn"
      BY DEF ForkInv, TypeOK, Worker
    <3>2. \A w \in Worker : wpc'[w] = IF w = forked THEN "copyHi" ELSE wpc[w]
      BY <1>3 DEF SpawnWorker, TypeOK
    <3>3. Stage("copyHi") >= Stage("unborn") /\ \A p : Stage(p) >= Stage(p)
      BY DEF Stage
    <3> QED
      BY <3>1, <3>2, <3>3
  <2>3. \A p : Stage(p) \in Nat
    BY DEF Stage
  <2> QED
    BY <1>0, <2>1, <2>2, <2>3 DEF OnceInv, OneReportEach
<1>4. ASSUME NEW w \in Worker, Get(w), ~PrintTask(w), ~PrintBox(w)
      PROVE  OnceInv'
  <2>1. /\ call' = call /\ \A v \in Worker \ {w} : wpc'[v] = wpc[v]
    BY <1>4, GetShape
  <2>2. /\ stdout' = stdout
        /\ \A v \in Worker \ {w} : nonce'[v] = nonce[v] /\ ntime'[v] = ntime[v]
    BY <1>4 DEF TypeOK, Goto, Get, CopyHi, CopyLo, Hash, LoadResult, StoreResult, AcquireMtx,
                Stop, TryNext
  <2>3. CASE HasLine(w)
    <3>1. /\ wpc[w] \in {"lock", "open", "body", "close", "check", "done"}
          /\ w \in Finders /\ result > 0
      BY <2>3 DEF FinderInv, CounterCountsFinders, Finders, HasLine
    <3>2. AcquireMtx(w) \/ Stop(w)
      BY <1>4, <3>1 DEF Goto, Get, CopyHi, CopyLo, Hash, LoadResult, StoreResult, TryNext
    <3>3. nonce' = nonce /\ ntime' = ntime /\ Stage(wpc'[w]) > Stage(wpc[w])
      <4>1. /\ nonce' = nonce /\ ntime' = ntime
            /\ (wpc[w] = "lock" /\ wpc'[w] = "open") \/ (wpc[w] = "check" /\ wpc'[w] = "done")
        BY <3>2 DEF Goto, AcquireMtx, Stop, TypeOK
      <4> QED
        BY <4>1 DEF Stage
    <3>4. \A p : Stage(p) \in Nat
      BY DEF Stage
    <3>5. \A v \in Worker : Stage(wpc'[v]) >= Stage(wpc[v])
      BY <2>1, <3>3, <3>4
    <3> QED
      BY <1>0, <2>1, <2>2, <3>3, <3>4, <3>5 DEF OnceInv, OneReportEach
  <2>4. CASE ~HasLine(w)
    <3>1. \A k \in DOMAIN stdout : stdout[k].call = call => stdout[k].who \in Worker \ {w}
      BY <1>0, <2>4 DEF HasLine
    <3> QED
      BY <2>1, <2>2, <3>1 DEF OnceInv, OneReportEach
  <2> QED
    BY <2>3, <2>4
<1>5. ASSUME NEW w \in Worker, PrintTask(w) \/ PrintBox(w)
      PROVE  OnceInv'
  <2>1. /\ call' = call /\ call \in 1 .. 2
        /\ \A v \in Worker \ {w} : wpc'[v] = wpc[v]
    BY <1>5, GetShape DEF Get
  <2>2. PICK kind \in {"task", "open", "body", "close"} :
          Output(w, kind) /\ wpc[w] = kind /\ Stage(wpc'[w]) > Stage(kind)
    BY <1>5 DEF PrintTask, PrintBox, Goto, Stage, TypeOK
  <2>3. nonce' = nonce /\ ntime' = ntime
    BY <1>5 DEF PrintTask, PrintBox
  <2> DEFINE line == [who |-> w, kind |-> kind, call |-> call,
                      nonce |-> nonce[w], time |-> ntime[w]]
             n == Len(stdout)
  <2>4. /\ line \in Line /\ line.who = w /\ line.call = call /\ line.kind = kind
        /\ line.nonce = nonce[w] /\ line.time = ntime[w]
    BY <2>1 DEF TypeOK, Line
  <2>5. stdout \in Seq(Line) /\ stdout' = Append(stdout, line)
    BY <2>2 DEF Output, Printed, TypeOK
  <2> HIDE DEF line
  <2>6. /\ n \in Nat /\ DOMAIN stdout = 1 .. n /\ DOMAIN stdout' = 1 .. n + 1
        /\ \A k \in 1 .. n : stdout'[k] = stdout[k]
        /\ stdout'[n + 1] = line
    BY <2>4, <2>5, SMTT(20)
  <2> HIDE DEF n
  <2>7. \A k \in 1 .. n + 1 : k \in 1 .. n \/ k = n + 1
    BY <2>6
  <2>8. \A p : Stage(p) \in Nat
    BY DEF Stage
  <2>9. \A v \in Worker : Stage(wpc'[v]) >= Stage(wpc[v])
    BY <2>1, <2>2, <2>8
  <2>10. ASSUME NEW k \in DOMAIN stdout', stdout'[k].call = call
         PROVE  /\ stdout'[k].nonce = nonce[stdout'[k].who]
                /\ stdout'[k].time = ntime[stdout'[k].who]
                /\ Stage(wpc'[stdout'[k].who]) > Stage(stdout'[k].kind)
    <3>1. CASE k = n + 1
      BY <2>2, <2>4, <2>6, <3>1
    <3>2. CASE k \in 1 .. n
      <4> DEFINE v == stdout[k].who
      <4>1. /\ stdout'[k] = stdout[k] /\ stdout[k].call = call /\ v \in Worker
            /\ k \in DOMAIN stdout
        BY <1>0, <2>6, <2>10, <3>2
      <4>2. /\ stdout[k].nonce = nonce[v] /\ stdout[k].time = ntime[v]
            /\ Stage(wpc[v]) > Stage(stdout[k].kind)
        BY <4>1 DEF OnceInv
      <4>3. Stage(wpc'[v]) > Stage(stdout[k].kind)
        BY <2>8, <2>9, <4>1, <4>2
      <4> QED
        BY <4>1, <4>2, <4>3
    <3> QED
      BY <2>6, <2>7, <3>1, <3>2
  <2>11. ASSUME NEW k \in 1 .. n, stdout[k].call = call, stdout[k].who = w
         PROVE  stdout[k].nonce = nonce[w] /\ stdout[k].time = ntime[w] /\ stdout[k].kind # kind
    BY <2>2, <2>6, <2>8, <2>11 DEF OnceInv
  <2>12. OneReportEach'
    <3> SUFFICES ASSUME NEW j \in DOMAIN stdout', NEW k \in DOMAIN stdout',
                        stdout'[j].call = stdout'[k].call, stdout'[j].who = stdout'[k].who
                 PROVE  /\ stdout'[j].nonce = stdout'[k].nonce /\ stdout'[j].time = stdout'[k].time
                        /\ stdout'[j].kind = stdout'[k].kind => j = k
      BY DEF OneReportEach
    <3>1. CASE j \in 1 .. n /\ k \in 1 .. n
      BY <2>6, <3>1 DEF OnceInv, OneReportEach
    <3>2. CASE j = n + 1 /\ k \in 1 .. n
      BY <2>4, <2>6, <2>11, <3>2
    <3>3. CASE k = n + 1 /\ j \in 1 .. n
      BY <2>4, <2>6, <2>11, <3>3
    <3> QED
      BY <2>6, <2>7, <3>1, <3>2, <3>3
  <2> QED
    BY <2>1, <2>3, <2>10, <2>12 DEF OnceInv
<1> QED
  BY <1>1, <1>2, <1>3, <1>4, <1>5 DEF Next, Main, Ended

\* For any number of threads each worker reports at most once in a search.
THEOREM ReportsOnce == Spec => []OneReportEach
<1>1. Init => OnceInv
  BY DEF Init, OnceInv, OneReportEach
<1>2. IInv /\ FinderInv /\ OnceInv /\ [Next]_vars => OnceInv'
  BY OnceStep
<1>3. OnceInv => OneReportEach
  BY DEF OnceInv
<1> QED
  BY Invariance, FindersKept, <1>1, <1>2, <1>3, PTL DEF Spec
=============================================================================
