------------------------ MODULE AddressSearchProofs ------------------------
(***************************************************************************)
(* What holds of the address search for every number of threads, every set *)
(* of keys and every request: theorems of AddressSearch!Spec.              *)
(***************************************************************************)
EXTENDS AddressSearch, FiniteSetTheorems, TLAPS

(* The inductive invariant.                                                *)

\* A worker has been forked exactly when the loop has passed it, nothing has
\* happened before the search begins, and the closing line follows the joins.
ForkInv ==
  /\ mpc = "begin" => forked = 0 /\ result = 0 /\ quit = {}
  /\ mpc = "end" => forked = 0 \/ \A w \in Worker : wpc[w] = "done"
  /\ congratulated => mpc = "end" /\ \A w \in Worker : wpc[w] = "done"
  /\ \A w \in Worker : wpc[w] = "unborn" <=> ~(w < forked)

\* A worker has left because of the counter or because it quit.
LeaveInv ==
  /\ \A w \in Worker : wpc[w] = "done" => result > 0 \/ w \in quit
  /\ \A w \in Worker : wpc[w] = "return" => result > 0
  /\ \A w \in quit : wpc[w] = "done"

\* The key a worker is announcing is still the one it tested, and its private
\* key is on stdout before its address.
KeyInv ==
  \A w \in Worker :
    /\ wpc[w] \in {"privkey", "address"} =>
         /\ key[w] \notin Unverifiable
         /\ \A t \in DOMAIN args.targets :
              <<key[w], args.targets[t]>> \in IF args.case = "true" THEN Exact ELSE Folded
    /\ wpc[w] = "address" =>
         \E j \in DOMAIN stdout :
           stdout[j] = [who |-> w, kind |-> "privkey", key |-> key[w]]

\* The workers whose find is on stdout and in the counter.
Counted == {w \in Announced : wpc[w] \in {"return", "done"}}

\* A worker increments once, after its announcement; what it adds to was
\* counted before, so no more than the finders are ever counted.
CountInv ==
  /\ \A w \in Worker : wpc[w] \in {"load", "store", "return"} => w \in Announced
  /\ \A w \in Announced : wpc[w] \in {"load", "store", "return", "done"}
  /\ result <= Cardinality(Counted)
  /\ \A w \in Worker : wpc[w] = "store" => reg[w] <= Cardinality(Counted)

IInv ==
  TypeOK /\ ForkInv /\ LeaveInv /\ KeyInv /\ CountInv /\ AnnouncementsComplete
-----------------------------------------------------------------------------
\* The number of threads is a number, and there are finitely many.
LEMMA CpusNat == Cpus \in Nat /\ IsFiniteSet(Worker)
<1>1. Cpus \in Nat
  BY AddressAssumption DEF Cpus
<1> QED
  BY <1>1, FS_Interval DEF Worker

\* Counted workers are announced, and both sets can be counted.
LEMMA CountedFinite ==
  /\ Counted \subseteq Announced /\ IsFiniteSet(Announced)
  /\ IsFiniteSet(Counted) /\ Cardinality(Counted) \in Nat
  /\ Cardinality(Counted) <= Cardinality(Announced)
<1>1. Counted \subseteq Announced /\ Announced \subseteq Worker
  BY DEF Counted, Announced
<1> QED
  BY <1>1, CpusNat, FS_Subset, FS_CardinalityType

\* The same of the state after a step.
LEMMA CountedFiniteNext ==
  IsFiniteSet(Counted') /\ Cardinality(Counted') \in Nat
<1>1. Counted' \subseteq Worker
  BY DEF Counted, Announced
<1> QED
  BY <1>1, CpusNat, FS_Subset, FS_CardinalityType

\* A line appended to stdout announces its worker if it is an address.
LEMMA AppendAnnounced ==
  ASSUME TypeOK, NEW line \in Line, stdout' = Append(stdout, line)
  PROVE  Announced' = Announced \cup {w \in Worker : line.kind = "address" /\ line.who = w}
<1>1. /\ stdout \in Seq(Line) /\ Len(stdout) \in Nat
      /\ DOMAIN stdout = 1 .. Len(stdout)
      /\ DOMAIN stdout' = 1 .. Len(stdout) + 1
      /\ \A k \in DOMAIN stdout : stdout'[k] = stdout[k]
      /\ stdout'[Len(stdout) + 1] = line
  BY DEF TypeOK
<1>2. ASSUME NEW w \in Worker
      PROVE  w \in Announced' <=> w \in Announced \/ (line.kind = "address" /\ line.who = w)
  <2>1. ASSUME w \in Announced' PROVE w \in Announced \/ (line.kind = "address" /\ line.who = w)
    <3>1. PICK k \in DOMAIN stdout' : stdout'[k].kind = "address" /\ stdout'[k].who = w
      BY <2>1 DEF Announced
    <3>2. CASE k = Len(stdout) + 1
      BY <1>1, <3>1, <3>2
    <3>3. CASE k \in DOMAIN stdout
      BY <1>1, <3>1, <3>3 DEF Announced
    <3> QED
      BY <1>1, <3>1, <3>2, <3>3
  <2>2. ASSUME w \in Announced PROVE w \in Announced'
    <3>1. PICK k \in DOMAIN stdout : stdout[k].kind = "address" /\ stdout[k].who = w
      BY <2>2 DEF Announced
    <3> QED
      BY <1>1, <3>1 DEF Announced
  <2>3. ASSUME line.kind = "address" /\ line.who = w PROVE w \in Announced'
    <3>1. Len(stdout) + 1 \in DOMAIN stdout'
      BY <1>1
    <3> QED
      BY <1>1, <2>3, <3>1 DEF Announced
  <2> QED
    BY <2>1, <2>2, <2>3
<1>3. Announced \subseteq Worker /\ Announced' \subseteq Worker
  BY DEF Announced
<1> QED
  BY <1>2, <1>3

\* The initial states satisfy the invariant.
LEMMA InitInv == Init => IInv
<1> SUFFICES ASSUME Init PROVE IInv
  OBVIOUS
<1> USE DEF Init
<1>0. Announced = {} /\ Counted = {} /\ Cardinality(Counted) = 0
  <2>1. Announced = {} /\ Counted = {}
    BY DEF Announced, Counted
  <2> QED
    BY <2>1, FS_EmptySet
<1>1. TypeOK
  <2>1. (CHOOSE k \in Key : TRUE) \in Key
    BY AddressAssumption
  <2>2. key \in [Worker -> Key]
    BY <2>1
  <2>3. stdout \in Seq(Line) /\ quit \in SUBSET Worker /\ forked \in 0 .. Cpus
    BY CpusNat
  <2> QED
    BY <2>2, <2>3 DEF TypeOK
<1>2. ForkInv /\ LeaveInv /\ KeyInv
  BY CpusNat DEF ForkInv, LeaveInv, KeyInv, Worker
<1>3. CountInv
  BY <1>0 DEF CountInv
<1>4. AnnouncementsComplete
  BY DEF AnnouncementsComplete
<1> QED
  BY <1>1, <1>2, <1>3, <1>4 DEF IInv

\* Without output, a step that keeps what is counted and adds nothing to the
\* counter keeps Counted.
LEMMA CountedKept ==
  ASSUME stdout' = stdout,
         \A w \in Announced : wpc'[w] \in {"return", "done"} <=> wpc[w] \in {"return", "done"}
  PROVE  Announced' = Announced /\ Counted' = Counted
<1>1. Announced' = Announced
  BY DEF Announced
<1> QED
  BY <1>1 DEF Counted

\* The main thread keeps the invariant.
LEMMA MainStep ==
  ASSUME IInv, Main
  PROVE  IInv'
<1> USE DEF IInv
<1>0. stdout' = stdout /\ UNCHANGED <<args, result, key, reg, quit>>
  BY DEF Main, ShowHelp, Start, SpawnWorker, MoreToFork, Congratulate, Joined
<1>1. CASE ShowHelp \/ Start \/ Congratulate
  <2>0. UNCHANGED <<wpc, forked>>
    BY <1>1 DEF ShowHelp, Start, Congratulate, Joined
  <2>1. TypeOK'
    BY <1>0, <1>1, <2>0 DEF ShowHelp, Start, Congratulate, Joined, TypeOK
  <2>2. ForkInv'
    BY <1>0, <1>1, <2>0 DEF ShowHelp, Start, Congratulate, Joined, ForkInv
  <2>3. Announced' = Announced /\ Counted' = Counted
    BY <1>0, <2>0, CountedKept
  <2>4. LeaveInv' /\ KeyInv' /\ AnnouncementsComplete'
    BY <1>0, <2>0 DEF LeaveInv, KeyInv, AnnouncementsComplete
  <2>5. CountInv'
    BY <1>0, <2>0, <2>3 DEF CountInv
  <2> QED
    BY <2>1, <2>2, <2>4, <2>5
<1>2. CASE SpawnWorker
  <2>1. /\ forked \in Worker /\ wpc[forked] = "unborn" /\ mpc = "fork"
        /\ forked' = forked + 1 /\ UNCHANGED <<mpc, congratulated>>
        /\ wpc' = [wpc EXCEPT ![forked] = "poll"]
    BY <1>2, CpusNat DEF SpawnWorker, MoreToFork, TypeOK, ForkInv, Worker
  <2>2. \A w \in Worker : wpc'[w] = IF w = forked THEN "poll" ELSE wpc[w]
    BY <2>1 DEF TypeOK
  <2>3. TypeOK'
    BY <1>0, <1>2, <2>1, CpusNat DEF SpawnWorker, MoreToFork, TypeOK
  <2>4. ForkInv'
    BY <1>0, <2>1, <2>2, CpusNat DEF ForkInv, TypeOK, Worker
  <2>5. forked \notin Announced /\ forked \notin quit /\ Announced \subseteq Worker
    BY <2>1 DEF CountInv, LeaveInv, Announced
  <2>6. Announced' = Announced /\ Counted' = Counted
    BY <1>0, <2>2, <2>5, CountedKept
  <2>7. LeaveInv' /\ KeyInv' /\ AnnouncementsComplete'
    BY <1>0, <2>2, <2>5 DEF LeaveInv, KeyInv, AnnouncementsComplete, TypeOK
  <2>8. CountInv'
    BY <1>0, <2>2, <2>5, <2>6 DEF CountInv
  <2> QED
    BY <2>3, <2>4, <2>7, <2>8
<1> QED
  BY <1>1, <1>2 DEF Main

\* What a step of a worker leaves alone, and where it may be taken.
LEMMA GetShape ==
  ASSUME IInv, NEW w \in Worker, GetAddress(w)
  PROVE  /\ UNCHANGED <<mpc, args, forked, congratulated>> /\ mpc = "fork"
         /\ wpc[w] \notin {"unborn", "done"} /\ wpc'[w] # "unborn"
         /\ wpc' \in [Worker -> {"unborn", "poll", "draw", "privkey", "address",
                                 "load", "store", "return", "done"}]
         /\ \A v \in Worker : v # w => /\ wpc'[v] = wpc[v] /\ key'[v] = key[v]
                                       /\ reg'[v] = reg[v]
<1> USE DEF IInv, Goto, MainUnchanged
<1>1. /\ UNCHANGED <<mpc, args, forked, congratulated>>
      /\ wpc[w] \notin {"unborn", "done"} /\ wpc'[w] # "unborn"
      /\ wpc' \in [Worker -> {"unborn", "poll", "draw", "privkey", "address",
                              "load", "store", "return", "done"}]
  BY DEF GetAddress, Made, Poll, LoopEnd, Draw, AfterMatch, Announce, LoadResult,
         StoreResult, Incremented, Return, TypeOK
<1>2. \A v \in Worker : v # w => /\ wpc'[v] = wpc[v] /\ key'[v] = key[v] /\ reg'[v] = reg[v]
  BY DEF GetAddress, Made, Poll, LoopEnd, Draw, AfterMatch, Announce, LoadResult,
         StoreResult, Incremented, Return, TypeOK
<1>3. mpc = "fork"
  BY <1>1, CpusNat DEF TypeOK, ForkInv, Worker
<1> QED
  BY <1>1, <1>2, <1>3

\* The parts of the invariant that a worker's step can only extend.
LEMMA GetForkLeave ==
  ASSUME IInv, NEW w \in Worker, GetAddress(w)
  PROVE  ForkInv' /\ LeaveInv'
<1> USE DEF IInv, Goto, MainUnchanged
<1>1. ForkInv'
  BY GetShape DEF ForkInv
<1>2. LeaveInv'
  <2>1. CASE Poll(w)
    BY <2>1, GetShape DEF Poll, LoopEnd, LeaveInv, TypeOK
  <2>2. ASSUME NEW k \in Key, Draw(w, k) PROVE LeaveInv'
    <3>1. quit' = quit \/ (quit' = quit \cup {w} /\ wpc'[w] = "done")
      BY <2>2 DEF Draw, AfterMatch, TypeOK
    <3>2. result' = result /\ wpc'[w] # "return" /\ (wpc'[w] = "done" => w \in quit')
      BY <2>2 DEF Draw, AfterMatch, TypeOK
    <3>3. wpc[w] # "done"
      BY <2>2 DEF Draw, AfterMatch
    <3> QED
      BY <3>1, <3>2, <3>3, GetShape DEF LeaveInv, TypeOK
  <2>3. CASE Announce(w) \/ LoadResult(w)
    BY <2>3, GetShape DEF Announce, LoadResult, LeaveInv, TypeOK
  <2>4. CASE StoreResult(w)
    <3>1. result' > 0 /\ wpc'[w] = "return" /\ quit' = quit /\ wpc[w] # "done"
      BY <2>4 DEF StoreResult, Incremented, TypeOK
    <3> QED
      BY <3>1, GetShape DEF LeaveInv, TypeOK
  <2>5. CASE Return(w)
    BY <2>5, GetShape DEF Return, LeaveInv, TypeOK
  <2> QED
    BY <2>1, <2>2, <2>3, <2>4, <2>5 DEF GetAddress, Made
<1> QED
  BY <1>1, <1>2

\* A key that holds every target holds it in the terms of the request.
LEMMA HoldsAllTargets ==
  ASSUME NEW k, HoldsAll(k)
  PROVE  \A t \in DOMAIN args.targets :
           <<k, args.targets[t]>> \in IF args.case = "true" THEN Exact ELSE Folded
  BY DEF HoldsAll, Holds, atob

\* The steps that print nothing.
LEMMA QuietStep ==
  ASSUME IInv, NEW w \in Worker, GetAddress(w), ~Announce(w)
  PROVE  TypeOK' /\ KeyInv' /\ CountInv' /\ AnnouncementsComplete'
<1> USE DEF IInv, Goto, MainUnchanged
<1>1. stdout' = stdout /\ Announced' = Announced
  <2>1. stdout' = stdout
    BY DEF GetAddress, Made, Poll, LoopEnd, Draw, AfterMatch, LoadResult, StoreResult,
           Incremented, Return
  <2> QED
    BY <2>1 DEF Announced
<1>2. AnnouncementsComplete'
  BY <1>1, GetShape DEF AnnouncementsComplete
<1>3. TypeOK'
  <2>1. result' \in Nat
    BY DEF GetAddress, Made, Poll, LoopEnd, Draw, AfterMatch, LoadResult, StoreResult,
           Incremented, Return, TypeOK
  <2>2. key' \in [Worker -> Key]
    BY DEF GetAddress, Made, Poll, LoopEnd, Draw, AfterMatch, LoadResult, StoreResult,
           Incremented, Return, TypeOK
  <2>3. reg' \in [Worker -> Nat]
    BY DEF GetAddress, Made, Poll, LoopEnd, Draw, AfterMatch, LoadResult, StoreResult,
           Incremented, Return, TypeOK
  <2>4. quit' \in SUBSET Worker
    BY DEF GetAddress, Made, Poll, LoopEnd, Draw, AfterMatch, LoadResult, StoreResult,
           Incremented, Return, TypeOK
  <2> QED
    BY <1>1, <2>1, <2>2, <2>3, <2>4, GetShape DEF TypeOK
<1>4. KeyInv'
  <2>1. /\ wpc'[w] # "address"
        /\ wpc'[w] = "privkey" => key'[w] \notin Unverifiable /\ HoldsAll(key'[w])
    BY DEF GetAddress, Made, Poll, LoopEnd, Draw, AfterMatch, LoadResult, StoreResult,
           Incremented, Return, TypeOK
  <2>2. args' = args
    BY GetShape
  <2>3. wpc'[w] = "privkey" =>
          \A t \in DOMAIN args.targets :
            <<key'[w], args.targets[t]>> \in IF args.case = "true" THEN Exact ELSE Folded
    BY <2>1, HoldsAllTargets
  <2> QED
    BY <1>1, <2>1, <2>2, <2>3, GetShape DEF KeyInv
<1>5. CountInv'
  <2>1. CASE StoreResult(w)
    <3>1. /\ w \in Announced /\ wpc[w] = "store" /\ wpc'[w] = "return"
          /\ result' = reg[w] + 1 /\ reg' = reg
      BY <2>1 DEF StoreResult, Incremented, CountInv, TypeOK
    <3>2. w \notin Counted /\ Counted' = Counted \cup {w}
      BY <1>1, <3>1, GetShape DEF Counted, Announced
    <3>3. Cardinality(Counted') = Cardinality(Counted) + 1
      BY <3>2, CountedFinite, FS_AddElement
    <3>4. result' <= Cardinality(Counted')
      BY <3>1, <3>3, CountedFinite DEF CountInv, TypeOK
    <3>5. \A v \in Worker : wpc'[v] = "store" => reg'[v] <= Cardinality(Counted')
      BY <3>1, <3>3, CountedFinite, GetShape DEF CountInv, TypeOK
    <3>6. Announced \subseteq Worker
      BY DEF Announced
    <3>7. \A v \in Announced : wpc'[v] \in {"load", "store", "return", "done"}
      BY <3>1, <3>6, GetShape DEF CountInv
    <3>8. \A v \in Worker : wpc'[v] \in {"load", "store", "return"} => v \in Announced
      BY <3>1, GetShape DEF CountInv
    <3> QED
      BY <1>1, <3>4, <3>5, <3>7, <3>8 DEF CountInv
  <2>2. CASE ~StoreResult(w)
    <3>1. /\ result' = result
          /\ wpc'[w] = "load" => wpc[w] = "load"
          /\ wpc'[w] = "store" => wpc[w] = "load" /\ reg'[w] = result
          /\ wpc'[w] # "return"
          /\ wpc'[w] = "done" => wpc[w] \in {"poll", "draw", "return"}
          /\ wpc[w] = "load" => wpc'[w] = "store"
          /\ wpc[w] = "return" => wpc'[w] = "done"
          /\ wpc[w] # "store"
      BY <2>2 DEF GetAddress, Made, Poll, LoopEnd, Draw, AfterMatch, LoadResult, Return, TypeOK
    <3>2. Counted' = Counted
      BY <1>1, <3>1, GetShape, CountedKept DEF CountInv, Announced
    <3>3. \A v \in Worker : wpc'[v] = "store" => reg'[v] <= Cardinality(Counted)
      BY <3>1, GetShape DEF CountInv
    <3>4. \A v \in Announced : wpc'[v] \in {"load", "store", "return", "done"}
      BY <3>1, GetShape DEF CountInv, Announced
    <3>5. \A v \in Worker : wpc'[v] \in {"load", "store", "return"} => v \in Announced
      BY <3>1, GetShape DEF CountInv
    <3> QED
      BY <1>1, <3>1, <3>2, <3>3, <3>4, <3>5 DEF CountInv
  <2> QED
    BY <2>1, <2>2
<1> QED
  BY <1>2, <1>3, <1>4, <1>5

\* A line of an announcement.
LEMMA AnnounceStep ==
  ASSUME IInv, NEW w \in Worker, Announce(w)
  PROVE  TypeOK' /\ KeyInv' /\ CountInv' /\ AnnouncementsComplete'
<1> USE DEF IInv, Goto, MainUnchanged
<1> DEFINE line == [who |-> w, kind |-> wpc[w], key |-> key[w]]
<1>0. GetAddress(w)
  BY DEF GetAddress, Made
<1>1. /\ UNCHANGED <<args, result, key, reg, quit>>
      /\ wpc[w] \in {"privkey", "address"} /\ line \in Line
      /\ wpc'[w] = IF wpc[w] = "privkey" THEN "address" ELSE "load"
      /\ stdout' = Append(stdout, line)
  BY DEF Announce, TypeOK, Line
<1>2. /\ stdout \in Seq(Line) /\ Len(stdout) \in Nat
      /\ DOMAIN stdout = 1 .. Len(stdout)
      /\ stdout' \in Seq(Line) /\ DOMAIN stdout' = 1 .. Len(stdout) + 1
      /\ \A k \in DOMAIN stdout : stdout'[k] = stdout[k]
      /\ stdout'[Len(stdout) + 1] = line
  BY <1>1 DEF TypeOK
<1> HIDE DEF line
<1>3. TypeOK'
  BY <1>0, <1>1, <1>2, GetShape DEF TypeOK
<1>4. KeyInv'
  <2>1. ASSUME NEW v \in Worker, NEW j \in DOMAIN stdout,
               stdout[j] = [who |-> v, kind |-> "privkey", key |-> key[v]]
        PROVE  j \in DOMAIN stdout' /\ stdout'[j] = [who |-> v, kind |-> "privkey", key |-> key[v]]
    BY <1>2, <2>1
  <2>2. wpc[w] = "privkey" =>
          /\ Len(stdout) + 1 \in DOMAIN stdout'
          /\ stdout'[Len(stdout) + 1] = [who |-> w, kind |-> "privkey", key |-> key[w]]
    BY <1>2 DEF line
  <2>3. ASSUME NEW v \in Worker, wpc'[v] = "address"
        PROVE  \E j \in DOMAIN stdout' :
                 stdout'[j] = [who |-> v, kind |-> "privkey", key |-> key[v]]
    <3>1. CASE v = w
      BY <1>1, <2>2, <2>3, <3>1
    <3>2. CASE v # w
      <4>1. wpc[v] = "address"
        BY <1>0, <2>3, <3>2, GetShape
      <4> QED
        BY <2>1, <4>1 DEF KeyInv
    <3> QED
      BY <3>1, <3>2
  <2>4. \A v \in Worker : wpc'[v] \in {"privkey", "address"} => wpc[v] \in {"privkey", "address"}
    BY <1>0, <1>1, GetShape
  <2> QED
    BY <1>1, <2>3, <2>4 DEF KeyInv
<1>5. Announced' = Announced \cup {v \in Worker : line.kind = "address" /\ line.who = v}
  BY <1>1, AppendAnnounced
<1>6. CountInv'
  <2>1. w \notin Announced
    BY <1>1 DEF CountInv
  <2>2. line.kind = wpc[w] /\ line.who = w
    BY DEF line
  <2>3. Announced' = IF wpc[w] = "address" THEN Announced \cup {w} ELSE Announced
    BY <1>5, <2>2
  <2>4. Counted' = Counted
    BY <1>0, <1>1, <2>1, <2>3, GetShape DEF Counted, Announced
  <2> QED
    BY <1>0, <1>1, <2>1, <2>3, <2>4, GetShape DEF CountInv, Announced
<1>7. AnnouncementsComplete'
  <2> SUFFICES ASSUME NEW k \in DOMAIN stdout', stdout'[k].kind = "address"
               PROVE  /\ \E j \in 1 .. k - 1 : stdout'[j] = [stdout'[k] EXCEPT !.kind = "privkey"]
                      /\ stdout'[k].key \notin Unverifiable
                      /\ \A t \in DOMAIN args.targets :
                           <<stdout'[k].key, args.targets[t]>>
                             \in IF args.case = "true" THEN Exact ELSE Folded
    BY <1>1 DEF AnnouncementsComplete
  <2>1. CASE k \in DOMAIN stdout
    <3>1. stdout'[k] = stdout[k] /\ \A j \in 1 .. k - 1 : stdout'[j] = stdout[j]
      BY <1>2, <2>1
    <3> QED
      BY <2>1, <3>1 DEF AnnouncementsComplete
  <2>2. CASE k = Len(stdout) + 1
    <3>1. stdout'[k] = line /\ wpc[w] = "address"
      BY <1>2, <2>2 DEF line
    <3>2. PICK j \in DOMAIN stdout : stdout[j] = [who |-> w, kind |-> "privkey", key |-> key[w]]
      BY <3>1 DEF KeyInv
    <3>3. j \in 1 .. k - 1 /\ stdout'[j] = [line EXCEPT !.kind = "privkey"]
      BY <1>2, <2>2, <3>2 DEF line
    <3>4. line.key = key[w]
      BY DEF line
    <3> QED
      BY <3>1, <3>3, <3>4 DEF KeyInv
  <2>3. k \in DOMAIN stdout \/ k = Len(stdout) + 1
    BY <1>2
  <2> QED
    BY <2>1, <2>2, <2>3
<1> QED
  BY <1>3, <1>4, <1>6, <1>7

\* IInv is an inductive invariant of the command.
THEOREM Invariance == Spec => []IInv
<1>1. IInv /\ [Next]_vars => IInv'
  <2> SUFFICES ASSUME IInv, [Next]_vars PROVE IInv'
    OBVIOUS
  <2>1. CASE Main
    BY <2>1, MainStep
  <2>2. ASSUME NEW w \in Worker, GetAddress(w) PROVE IInv'
    BY <2>2, GetForkLeave, QuietStep, AnnounceStep DEF IInv
  <2>3. CASE UNCHANGED vars
    <3> USE <2>3 DEF vars, IInv
    <3>1. TypeOK' /\ ForkInv' /\ LeaveInv'
      BY DEF TypeOK, ForkInv, LeaveInv
    <3>2. KeyInv' /\ AnnouncementsComplete'
      BY DEF KeyInv, AnnouncementsComplete
    <3>3. Announced' = Announced /\ Counted' = Counted
      BY DEF Announced, Counted
    <3>4. CountInv'
      BY <3>3 DEF CountInv
    <3> QED
      BY <3>1, <3>2, <3>4
  <2> QED
    BY <2>1, <2>2, <2>3 DEF Next, Ended
<1> QED
  BY InitInv, <1>1, PTL DEF Spec

\* Every variable keeps its type, whatever the interleaving of the threads.
THEOREM TypeCorrect == Spec => []TypeOK
<1>1. IInv => TypeOK
  BY DEF IInv
<1> QED
  BY Invariance, <1>1, PTL

\* What is announced can be used, with its private key above the address.
THEOREM AnnouncedUsable == Spec => []AnnouncementsComplete
<1>1. IInv => AnnouncementsComplete
  BY DEF IInv
<1> QED
  BY Invariance, <1>1, PTL

\* The counter tells a worker to stop only after an announcement, and counts
\* no more finds than have been announced.
THEOREM StopJustified == Spec => []StopsAfterAnnouncement
<1>1. IInv => StopsAfterAnnouncement
  <2> SUFFICES ASSUME IInv PROVE StopsAfterAnnouncement
    OBVIOUS
  <2>1. result <= Cardinality(Announced)
    BY CountedFinite, FS_CardinalityType DEF IInv, CountInv, TypeOK
  <2>2. Announced = {} => Cardinality(Announced) = 0
    BY FS_EmptySet, Zenon
  <2>3. result > 0 => Announced # {}
    BY <2>1, <2>2 DEF IInv, TypeOK
  <2> QED
    BY <2>1, <2>3 DEF StopsAfterAnnouncement
<1> QED
  BY Invariance, <1>1, PTL

\* The closing line is untrue only if every worker quit.
THEOREM CongratsJustified == Spec => []CongratsUnlessAllQuit
<1>1. IInv /\ StopsAfterAnnouncement => CongratsUnlessAllQuit
  BY DEF IInv, TypeOK, ForkInv, LeaveInv, StopsAfterAnnouncement, CongratsUnlessAllQuit
<1> QED
  BY Invariance, StopJustified, <1>1, PTL

\* FindAddress implements the fork-join search whose workers may give up.
THEOREM Refinement == Spec => SearchSafety
<1> USE DEF Search!vars
<1>1. Init => Search!Init
  BY DEF Init, Search!Init
<1>2. IInv /\ [Next]_vars => [Search!Next]_(Search!vars)
  <2> SUFFICES ASSUME IInv, [Next]_vars
               PROVE  [Search!Next]_(Search!vars)
    OBVIOUS
  <2> USE DEF IInv, Goto, MainUnchanged
  <2>1. CASE ShowHelp \/ UNCHANGED vars
    BY <2>1 DEF ShowHelp, vars
  <2>2. CASE Start
    <3>1. \A w \in Worker : wpc[w] = "unborn"
      BY <2>2, CpusNat DEF Start, ForkInv, Worker
    <3>2. Search!Begin
      BY <2>2, <3>1 DEF Start, ForkInv, Search!Begin
    <3> QED
      BY <3>2 DEF Search!Next
  <2>3. CASE SpawnWorker
    <3>1. PICK v \in Worker : v = forked /\ wpc[v] = "unborn"
      BY <2>3, CpusNat DEF SpawnWorker, MoreToFork, TypeOK, ForkInv, Worker
    <3>2. \A w \in Worker : wpc'[w] = IF w = v THEN "poll" ELSE wpc[w]
      BY <2>3, <3>1 DEF SpawnWorker, MoreToFork, TypeOK
    <3>3. Search!Fork(v)
      BY <2>3, <3>1, <3>2 DEF SpawnWorker, MoreToFork, Search!Fork
    <3> QED
      BY <3>1, <3>3 DEF Search!Next
  <2>4. CASE Congratulate
    <3>1. Search!Join
      BY <2>4 DEF Congratulate, Joined, Search!Join
    <3> QED
      BY <3>1 DEF Search!Next
  <2>5. ASSUME NEW w \in Worker, GetAddress(w)
        PROVE  [Search!Next]_(Search!vars)
    <3>1. CASE StoreResult(w)
      <4>1. result' > 0 /\ wpc'[w] # "done" /\ quit' = quit
        BY <3>1 DEF StoreResult, Incremented, TypeOK
      <4>2. Search!Find(w)
        BY <2>5, <4>1, GetShape DEF Search!Find
      <4> QED
        BY <4>2 DEF Search!Next
    <3>2. CASE ~StoreResult(w) /\ wpc'[w] # "done"
      <4>1. result' = result /\ quit' = quit
        BY <2>5, <3>2 DEF GetAddress, Made, Poll, LoopEnd, Draw, AfterMatch, Announce,
                          LoadResult, Return, TypeOK
      <4> QED
        BY <2>5, <3>2, <4>1, GetShape
    <3>3. CASE wpc'[w] = "done" /\ quit' # quit
      <4>1. quit' = quit \cup {w} /\ result' = result
        BY <2>5, <3>3 DEF GetAddress, Made, Poll, LoopEnd, Draw, AfterMatch, Announce,
                          LoadResult, StoreResult, Incremented, Return, TypeOK
      <4>2. Search!Quit(w)
        BY <2>5, <3>3, <4>1, GetShape DEF Search!Quit
      <4> QED
        BY <4>2 DEF Search!Next
    <3>4. CASE wpc'[w] = "done" /\ quit' = quit
      <4>1. result > 0 /\ result' = result
        <5>1. CASE Poll(w)
          BY <3>4, <5>1 DEF Poll, LoopEnd, TypeOK
        <5>2. CASE Return(w)
          BY <5>2 DEF Return, LeaveInv
        <5>3. ASSUME NEW k \in Key, Draw(w, k) PROVE FALSE
          BY <3>4, <5>3 DEF Draw, AfterMatch, LeaveInv, TypeOK
        <5>4. CASE Announce(w) \/ LoadResult(w) \/ StoreResult(w)
          BY <3>4, <5>4 DEF Announce, LoadResult, StoreResult, Incremented, TypeOK
        <5> QED
          BY <2>5, <5>1, <5>2, <5>3, <5>4 DEF GetAddress, Made
      <4>2. Search!Leave(w)
        BY <2>5, <3>4, <4>1, GetShape DEF Search!Leave
      <4> QED
        BY <4>2 DEF Search!Next
    <3> QED
      BY <3>1, <3>2, <3>3, <3>4
  <2> QED
    BY <2>1, <2>2, <2>3, <2>4, <2>5 DEF Next, Main, Ended
<1> QED
  BY Invariance, <1>1, <1>2, PTL DEF Spec, SearchSafety, Search!Spec
-----------------------------------------------------------------------------
(* The end of a search, and what its workers print.                        *)

\* How far a worker at a place of _getaddress is once something is found: one
\* that is drawing a key when the find is made polls the counter once more.
Stage(place) ==
  CASE place = "unborn" -> 0 [] place = "draw" -> 1    [] place = "poll" -> 2
    [] place = "privkey" -> 3 [] place = "address" -> 4 [] place = "load" -> 5
    [] place = "store" -> 6  [] place = "return" -> 7  [] OTHER -> 8

\* Once a find is counted it stays so, and the search runs down: each step of a
\* worker takes it further, so that none draws more than the key it is drawing,
\* and FindAddress only forks, joins and ends.
SettlesAfterFind ==
  [][result > 0 =>
       /\ result' > 0
       /\ \A w \in Worker : Stage(wpc'[w]) >= Stage(wpc[w])
       /\ \/ \E w \in Worker : Stage(wpc'[w]) > Stage(wpc[w])
          \/ mpc = "fork" /\ mpc' = "end"]_vars

\* The step relation behind SettlesAfterFind, for a step that is no stutter.
LEMMA SettlingStep ==
  ASSUME IInv, Next, vars' # vars, result > 0
  PROVE  /\ result' > 0
         /\ \A w \in Worker : Stage(wpc'[w]) >= Stage(wpc[w])
         /\ \/ \E w \in Worker : Stage(wpc'[w]) > Stage(wpc[w])
            \/ mpc = "fork" /\ mpc' = "end"
<1> USE DEF IInv
<1>0. \A p : Stage(p) \in 0 .. 8
  BY DEF Stage
<1>1. ~ShowHelp /\ ~Start /\ ~Ended
  BY DEF ShowHelp, Start, Ended, ForkInv, TypeOK
<1>2. CASE Congratulate
  <2>1. wpc' = wpc /\ result' = result /\ mpc = "fork" /\ mpc' = "end"
    BY <1>2 DEF Congratulate
  <2> QED
    BY <1>0, <2>1
<1>3. CASE SpawnWorker
  <2>1. /\ forked \in Worker /\ result' = result
        /\ \A w \in Worker : wpc'[w] = IF w = forked THEN "poll" ELSE wpc[w]
    BY <1>3, CpusNat DEF SpawnWorker, MoreToFork, TypeOK, Worker
  <2>2. wpc[forked] = "unborn"
    BY <2>1 DEF ForkInv, TypeOK
  <2>3. Stage("poll") > Stage("unborn")
    BY DEF Stage
  <2> QED
    BY <1>0, <2>1, <2>2, <2>3
<1>4. ASSUME NEW w \in Worker, GetAddress(w)
      PROVE  /\ result' > 0
             /\ \A v \in Worker : Stage(wpc'[v]) >= Stage(wpc[v])
             /\ Stage(wpc'[w]) > Stage(wpc[w])
  <2>1. \A v \in Worker : v # w => wpc'[v] = wpc[v]
    BY <1>4, GetShape
  <2>2. result' > 0
    <3>1. result' = result \/ result' = reg[w] + 1
      BY <1>4 DEF MainUnchanged, GetAddress, Made, Poll, Draw, Announce, LoadResult, StoreResult,
                  Incremented, Return
    <3> QED
      BY <3>1 DEF TypeOK
  <2>3. \/ wpc[w] = "poll" /\ wpc'[w] = "done"
        \/ wpc[w] = "draw" /\ wpc'[w] \in {"poll", "privkey", "done"}
        \/ wpc[w] = "privkey" /\ wpc'[w] = "address"
        \/ wpc[w] = "address" /\ wpc'[w] = "load"
        \/ wpc[w] = "load" /\ wpc'[w] = "store"
        \/ wpc[w] = "store" /\ wpc'[w] = "return"
        \/ wpc[w] = "return" /\ wpc'[w] = "done"
    BY <1>4 DEF TypeOK, Goto, GetAddress, Made, Poll, LoopEnd, Draw, AfterMatch, Announce,
                LoadResult, StoreResult, Return
  <2>4. Stage(wpc'[w]) > Stage(wpc[w])
    BY <2>3 DEF Stage
  <2> QED
    BY <1>0, <2>1, <2>2, <2>4
<1> QED
  BY <1>1, <1>2, <1>3, <1>4 DEF Next, Main

\* A find ends the search within as many steps as there are places between
\* the workers and their end.
THEOREM Settles == Spec => SettlesAfterFind
<1> DEFINE A == result > 0 =>
                  /\ result' > 0
                  /\ \A w \in Worker : Stage(wpc'[w]) >= Stage(wpc[w])
                  /\ \/ \E w \in Worker : Stage(wpc'[w]) > Stage(wpc[w])
                     \/ mpc = "fork" /\ mpc' = "end"
<1>1. IInv /\ [Next]_vars => [A]_vars
  <2> SUFFICES ASSUME IInv, Next, vars' # vars, result > 0 PROVE A
    OBVIOUS
  <2> QED
    BY SettlingStep
<1>2. SettlesAfterFind <=> [][A]_vars
  BY DEF SettlesAfterFind
<1> HIDE DEF A
<1> QED
  BY Invariance, <1>1, <1>2, PTL DEF Spec

\* Where every public key verifies, nobody quits and, with at least one thread,
\* the closing line of findaddress is true.
THEOREM CongratsTrue ==
  ASSUME Unverifiable = {}, Cpus > 0
  PROVE  Spec => []CongratsTruthful
<1> DEFINE NoneQuit == quit = {}
<1>1. Init => NoneQuit
  BY DEF Init
<1>2. NoneQuit /\ [Next]_vars => NoneQuit'
  <2> SUFFICES ASSUME quit = {}, [Next]_vars PROVE quit' = {}
    OBVIOUS
  <2>1. ASSUME NEW w \in Worker, GetAddress(w) PROVE quit' = {}
    BY <2>1 DEF GetAddress, Made, Poll, Draw, Announce, LoadResult, StoreResult, Return
  <2> QED
    BY <2>1 DEF Next, Main, ShowHelp, Start, SpawnWorker, Congratulate, Ended, vars
<1>3. CongratsUnlessAllQuit /\ NoneQuit => CongratsTruthful
  <2>1. 0 \in Worker
    BY CpusNat DEF Worker
  <2> QED
    BY <2>1 DEF CongratsUnlessAllQuit, CongratsTruthful
<1> HIDE DEF NoneQuit
<1> QED
  BY CongratsJustified, <1>1, <1>2, <1>3, PTL DEF Spec

\* A worker announces at most one key, in two lines that show the same one: the
\* return after the increment ends its loop.
OneFindEach ==
  \A j, k \in DOMAIN stdout :
    stdout[j].who = stdout[k].who =>
      stdout[j].key = stdout[k].key /\ (stdout[j].kind = stdout[k].kind => j = k)

\* The lines show the key their worker still has, and the worker has passed the
\* places where they are printed.
OnceInv ==
  /\ \A k \in DOMAIN stdout :
       /\ stdout[k].key = key[stdout[k].who]
       /\ Stage(wpc[stdout[k].who]) > Stage(stdout[k].kind)
  /\ OneFindEach

\* A step keeps OnceInv.
LEMMA OnceStep ==
  ASSUME IInv, OnceInv, [Next]_vars
  PROVE  OnceInv'
<1> USE DEF IInv
<1>0. \A k \in DOMAIN stdout : stdout[k].who \in Worker /\ stdout[k].kind \in {"privkey", "address"}
  <2>1. stdout \in Seq(Line)
    BY DEF TypeOK
  <2>2. \A k \in DOMAIN stdout : stdout[k] \in Line
    BY <2>1, SMTT(20)
  <2> QED
    BY <2>2 DEF Line
<1>a. \A p : Stage(p) \in Nat
  BY DEF Stage
<1>1. CASE ShowHelp \/ Start \/ Congratulate \/ Ended \/ UNCHANGED vars
  BY <1>1 DEF ShowHelp, Start, Congratulate, Ended, vars, OnceInv, OneFindEach
<1>2. CASE SpawnWorker
  <2>1. /\ UNCHANGED <<stdout, key>>
        /\ \A w \in Worker : wpc'[w] = wpc[w] \/ (wpc[w] = "unborn" /\ wpc'[w] = "poll")
    <3>1. \A w \in Worker : wpc'[w] = IF w = forked THEN "poll" ELSE wpc[w]
      BY <1>2 DEF SpawnWorker, TypeOK
    <3>2. \A w \in Worker : w = forked => wpc[w] = "unborn"
      BY CpusNat DEF ForkInv, TypeOK, Worker
    <3> QED
      BY <1>2, <3>1, <3>2 DEF SpawnWorker
  <2>2. \A w \in Worker : Stage(wpc'[w]) >= Stage(wpc[w])
    <3>1. Stage("poll") >= Stage("unborn")
      BY DEF Stage
    <3> QED
      BY <1>a, <2>1, <3>1
  <2> QED
    BY <1>0, <1>a, <2>1, <2>2 DEF OnceInv, OneFindEach
<1>3. ASSUME NEW w \in Worker, GetAddress(w), ~Announce(w)
      PROVE  OnceInv'
  <2>1. /\ stdout' = stdout /\ \A v \in Worker : v # w => wpc'[v] = wpc[v] /\ key'[v] = key[v]
    BY <1>3, GetShape DEF MainUnchanged, GetAddress, Poll, Draw, LoadResult, StoreResult, Return
  <2>2. CASE \E k \in DOMAIN stdout : stdout[k].who = w
    <3>1. Stage(wpc[w]) > 3
      BY <1>0, <1>a, <2>2 DEF OnceInv, Stage
    <3>2. ~Poll(w) /\ \A k \in Key : ~Draw(w, k)
      BY <3>1 DEF Poll, Draw, Goto, Stage
    <3>3. key' = key
      BY <1>3, <3>2 DEF GetAddress, Made, LoadResult, StoreResult, Return
    <3>4. \/ wpc[w] = "load" /\ wpc'[w] = "store"
          \/ wpc[w] = "store" /\ wpc'[w] = "return"
          \/ wpc[w] = "return" /\ wpc'[w] = "done"
      BY <1>3, <3>2 DEF TypeOK, Goto, GetAddress, Made, LoadResult, StoreResult, Return
    <3>5. Stage(wpc'[w]) > Stage(wpc[w])
      BY <3>4 DEF Stage
    <3>6. \A v \in Worker : Stage(wpc'[v]) >= Stage(wpc[v])
      BY <1>a, <2>1, <3>5
    <3> QED
      BY <1>0, <1>a, <2>1, <3>3, <3>6 DEF OnceInv, OneFindEach
  <2>3. CASE \A k \in DOMAIN stdout : stdout[k].who # w
    BY <1>0, <2>1, <2>3 DEF OnceInv, OneFindEach
  <2> QED
    BY <2>2, <2>3
<1>4. ASSUME NEW w \in Worker, Announce(w)
      PROVE  OnceInv'
  <2>1. \A v \in Worker : v # w => wpc'[v] = wpc[v]
    BY <1>4, GetShape DEF GetAddress
  <2>2. /\ key' = key
        /\ \/ wpc[w] = "privkey" /\ wpc'[w] = "address"
           \/ wpc[w] = "address" /\ wpc'[w] = "load"
    BY <1>4 DEF Announce, Goto, TypeOK
  <2>3. Stage(wpc'[w]) > Stage(wpc[w])
    BY <2>2 DEF Stage
  <2> DEFINE line == [who |-> w, kind |-> wpc[w], key |-> key[w]]
             n == Len(stdout)
  <2>4. line \in Line /\ line.who = w /\ line.kind = wpc[w] /\ line.key = key[w]
    BY <2>2 DEF TypeOK, Line
  <2>5. stdout \in Seq(Line) /\ stdout' = Append(stdout, line)
    BY <1>4 DEF Announce, TypeOK
  <2> HIDE DEF line
  <2>6. /\ n \in Nat /\ DOMAIN stdout = 1 .. n /\ DOMAIN stdout' = 1 .. n + 1
        /\ \A k \in 1 .. n : stdout'[k] = stdout[k]
        /\ stdout'[n + 1] = line
    BY <2>4, <2>5, SMTT(20)
  <2> HIDE DEF n
  <2>7. \A k \in 1 .. n + 1 : k \in 1 .. n \/ k = n + 1
    BY <2>6
  <2>8. \A v \in Worker : Stage(wpc'[v]) >= Stage(wpc[v])
    BY <1>a, <2>1, <2>3
  <2>9. ASSUME NEW k \in DOMAIN stdout'
        PROVE  /\ stdout'[k].key = key[stdout'[k].who]
               /\ Stage(wpc'[stdout'[k].who]) > Stage(stdout'[k].kind)
    <3>1. CASE k = n + 1
      BY <2>3, <2>4, <2>6, <3>1
    <3>2. CASE k \in 1 .. n
      <4> DEFINE v == stdout[k].who
      <4>1. stdout'[k] = stdout[k] /\ v \in Worker /\ k \in DOMAIN stdout
        BY <1>0, <2>6, <3>2
      <4>2. stdout[k].key = key[v] /\ Stage(wpc[v]) > Stage(stdout[k].kind)
        BY <4>1 DEF OnceInv
      <4>3. Stage(wpc'[v]) > Stage(stdout[k].kind)
        BY <1>a, <2>8, <4>1, <4>2
      <4> QED
        BY <4>1, <4>2, <4>3
    <3> QED
      BY <2>6, <2>7, <3>1, <3>2
  <2>10. ASSUME NEW k \in 1 .. n, stdout[k].who = w
         PROVE  stdout[k].key = key[w] /\ stdout[k].kind # wpc[w]
    <3>1. stdout[k].key = key[w] /\ Stage(wpc[w]) > Stage(stdout[k].kind)
      BY <2>6, <2>10 DEF OnceInv
    <3> QED
      BY <1>a, <3>1
  <2>11. OneFindEach'
    <3> SUFFICES ASSUME NEW j \in DOMAIN stdout', NEW k \in DOMAIN stdout',
                        stdout'[j].who = stdout'[k].who
                 PROVE  /\ stdout'[j].key = stdout'[k].key
                        /\ stdout'[j].kind = stdout'[k].kind => j = k
      BY DEF OneFindEach
    <3>1. CASE j \in 1 .. n /\ k \in 1 .. n
      BY <2>6, <3>1 DEF OnceInv, OneFindEach
    <3>2. CASE j = n + 1 /\ k \in 1 .. n
      BY <2>4, <2>6, <2>10, <3>2
    <3>3. CASE k = n + 1 /\ j \in 1 .. n
      BY <2>4, <2>6, <2>10, <3>3
    <3> QED
      BY <2>6, <2>7, <3>1, <3>2, <3>3
  <2> QED
    BY <2>2, <2>9, <2>11 DEF OnceInv
<1> QED
  BY <1>1, <1>2, <1>3, <1>4 DEF Next, Main, Ended

\* For any number of threads each worker announces at most one key.
THEOREM AnnouncesOnce == Spec => []OneFindEach
<1>1. Init => OnceInv
  BY DEF Init, OnceInv, OneFindEach
<1>2. IInv /\ OnceInv /\ [Next]_vars => OnceInv'
  BY OnceStep
<1>3. OnceInv => OneFindEach
  BY DEF OnceInv
<1> QED
  BY Invariance, <1>1, <1>2, <1>3, PTL DEF Spec
=============================================================================
