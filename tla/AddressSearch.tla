---------------------------- MODULE AddressSearch ----------------------------
(***************************************************************************)
(* The "findaddress" command (common/keytool.cpp): FindAddress forks       *)
(* worker threads running _getaddress, which draw keys until one of them   *)
(* has an address that holds every target, and joins them.  The workers    *)
(* share the int counter iresult and stdout, neither of them protected:    *)
(* the increment is a load and a store, and the lines of two announcements *)
(* may interleave.                                                         *)
(*                                                                         *)
(* An announcement is two lines here, the private key and its address; the *)
(* "Task" line before them carries nothing else.                           *)
(***************************************************************************)
EXTENDS Integers, Sequences, FiniteSets

CONSTANTS
  NumCores,      \* GetNumCores(), which may be 0 when it cannot be told
  ThreadCap,     \* the cap on the number of threads, 100
  Key,           \* the keys MakeNewKey may draw
  Target,        \* the substrings a user may look for
  Exact,         \* <<key, target>>: the key's address holds the target
  Folded,        \* ... holds it when the case of letters is ignored
  Unverifiable,  \* the keys whose public key VerifyPubKey refuses
  Request        \* the command lines: the case argument and the targets

ASSUME AddressAssumption ==
  /\ NumCores \in Nat /\ ThreadCap \in Nat
  /\ Key # {} /\ Exact \subseteq Folded /\ Folded \subseteq Key \X Target
  /\ Unverifiable \subseteq Key
  /\ Request \subseteq [case : STRING, targets : Seq(Target)]

Cpus == IF NumCores < ThreadCap THEN NumCores ELSE ThreadCap
Worker == 0 .. Cpus - 1

VARIABLES
  mpc,      \* where FindAddress is
  args,     \* its arguments
  forked,   \* i of the loop that forks the workers
  result,   \* iresult, shared
  stdout,   \* the announcements, line by line
  congratulated, \* has the closing line been printed?
  wpc,      \* where each worker is in _getaddress
  key,      \* the key each worker drew last
  reg,      \* the value of *result a worker is incrementing
  quit      \* history: the workers that left because of VerifyPubKey

vars == <<mpc, args, forked, result, stdout, congratulated, wpc, key, reg, quit>>

\* atob: only the word true asks for the case of letters to count.
atob(str) == str = "true"

\* The address of k holds target t, as the request wants it compared.
Holds(k, t) == <<k, t>> \in (IF atob(args.case) THEN Exact ELSE Folded)

\* Faulty: one matching target is enough.
HoldsAll_Any(k) == \E i \in DOMAIN args.targets : Holds(k, args.targets[i])

\* imatch, counted over the leading targets that match, reaches their number.
HoldsAll(k) == \A i \in DOMAIN args.targets : Holds(k, args.targets[i])

Line == [who : Worker, kind : {"privkey", "address"}, key : Key]

Init ==
  /\ mpc = "begin" /\ args \in Request /\ forked = 0
  /\ result = 0 /\ stdout = <<>> /\ congratulated = FALSE
  /\ wpc = [w \in Worker |-> "unborn"]
  /\ key = [w \in Worker |-> CHOOSE k \in Key : TRUE]
  /\ reg = [w \in Worker |-> 0] /\ quit = {}
-----------------------------------------------------------------------------
(* FindAddress, on the main thread.                                        *)

\* argc < cmdindex + 3: no target.
ShowHelp ==
  /\ mpc = "begin" /\ args.targets = <<>>
  /\ mpc' = "end"
  /\ UNCHANGED <<args, forked, result, stdout, congratulated, wpc, key, reg, quit>>

Start ==
  /\ mpc = "begin" /\ args.targets # <<>>
  /\ mpc' = "fork"
  /\ UNCHANGED <<args, forked, result, stdout, congratulated, wpc, key, reg, quit>>

MoreToFork == forked < Cpus

SpawnWorker ==
  /\ mpc = "fork" /\ MoreToFork
  /\ wpc' = [wpc EXCEPT ![forked] = "poll"]
  /\ forked' = forked + 1
  /\ UNCHANGED <<mpc, args, result, stdout, congratulated, key, reg, quit>>

\* Faulty: only the thread forked last is joined.
Joined_Last == Cpus > 0 => wpc[Cpus - 1] = "done"

Joined == \A w \in Worker : wpc[w] = "done"

\* The joins, and the closing line, printed whatever the workers found.
Congratulate ==
  /\ mpc = "fork" /\ forked = Cpus /\ Joined
  /\ congratulated' = TRUE
  /\ mpc' = "end"
  /\ UNCHANGED <<args, forked, result, stdout, wpc, key, reg, quit>>

Main == ShowHelp \/ Start \/ SpawnWorker \/ Congratulate
-----------------------------------------------------------------------------
(* _getaddress, on each worker thread.                                     *)

Goto(w, from, to) == wpc[w] = from /\ wpc' = [wpc EXCEPT ![w] = to]
MainUnchanged == UNCHANGED <<mpc, args, forked, congratulated>>

\* Faulty: a find is waited out rather than ending the loop.
LoopEnd_Waits == "poll"

LoopEnd == "done"

\* while (0 == *result)
Poll(w) ==
  /\ Goto(w, "poll", IF result = 0 THEN "draw" ELSE LoopEnd)
  /\ MainUnchanged /\ UNCHANGED <<result, stdout, key, reg, quit>>

\* Faulty: a match is counted without being announced.
AfterMatch_Unannounced == "load"

\* A match is announced first.
AfterMatch == "privkey"

\* Faulty: every call makes the same key.
Made_Same(w) == {CHOOSE k \in Key : k \notin Unverifiable}

\* What MakeNewKey may make.
Made(w) == Key

\* MakeNewKey, VerifyPubKey and the comparison with the targets.
Draw(w, k) ==
  /\ key' = [key EXCEPT ![w] = k]
  /\ \/ /\ k \in Unverifiable
        /\ Goto(w, "draw", "done")
        /\ quit' = quit \cup {w}
     \/ /\ k \notin Unverifiable
        /\ Goto(w, "draw", IF HoldsAll(k) THEN AfterMatch ELSE "poll")
        /\ UNCHANGED quit
  /\ MainUnchanged /\ UNCHANGED <<result, stdout, reg>>

\* The announcement, in the statement before the increment of *result.
Announce(w) ==
  /\ \/ Goto(w, "privkey", "address")
     \/ Goto(w, "address", "load")
  /\ stdout' = Append(stdout, [who |-> w, kind |-> wpc[w], key |-> key[w]])
  /\ MainUnchanged /\ UNCHANGED <<result, key, reg, quit>>

LoadResult(w) ==
  /\ Goto(w, "load", "store")
  /\ reg' = [reg EXCEPT ![w] = result]
  /\ MainUnchanged /\ UNCHANGED <<result, stdout, key, quit>>

\* Faulty: the value before the increment is stored.
Incremented_Old(r) == r

Incremented(r) == r + 1

StoreResult(w) ==
  /\ Goto(w, "store", "return")
  /\ result' = Incremented(reg[w])
  /\ MainUnchanged /\ UNCHANGED <<stdout, key, reg, quit>>

Return(w) ==
  /\ Goto(w, "return", "done")
  /\ MainUnchanged /\ UNCHANGED <<result, stdout, key, reg, quit>>

GetAddress(w) ==
  \/ Poll(w) \/ (\E k \in Made(w) : Draw(w, k)) \/ Announce(w)
  \/ LoadResult(w) \/ StoreResult(w) \/ Return(w)

\* The command has returned and the process exits.
Ended == mpc = "end" /\ UNCHANGED vars

Next == Main \/ (\E w \in Worker : GetAddress(w)) \/ Ended
Spec == Init /\ [][Next]_vars

\* Every thread is scheduled, and a worker that goes on drawing keys draws,
\* with probability 1, one that matches if there is one.
Lucky(w) == \E k \in Made(w) \ Unverifiable : HoldsAll(k) /\ Draw(w, k)
FairSpec ==
  /\ Spec /\ WF_vars(Main)
  /\ \A w \in Worker : WF_vars(GetAddress(w)) /\ SF_vars(Lucky(w))
-----------------------------------------------------------------------------
(* Properties.                                                             *)

\* The types of the variables.
TypeOK ==
  /\ mpc \in {"begin", "fork", "end"} /\ args \in Request
  /\ forked \in 0 .. Cpus /\ result \in Nat /\ stdout \in Seq(Line)
  /\ congratulated \in BOOLEAN
  /\ wpc \in [Worker -> {"unborn", "poll", "draw", "privkey", "address",
                         "load", "store", "return", "done"}]
  /\ key \in [Worker -> Key] /\ reg \in [Worker -> Nat]
  /\ quit \in SUBSET Worker

\* The workers whose find is on stdout to its last line.
Announced ==
  {w \in Worker : \E k \in DOMAIN stdout :
                   stdout[k].kind = "address" /\ stdout[k].who = w}

\* No worker is told to stop before a find is on stdout, key and address: the
\* counter is positive only then, and never above the number of finds however
\* the increments race.
StopsAfterAnnouncement ==
  /\ result > 0 => Announced # {}
  /\ result <= Cardinality(Announced)

\* What is announced can be used: each address line comes from a verified
\* key whose address holds every target, and its own private key line is
\* somewhere above it.
AnnouncementsComplete ==
  \A k \in DOMAIN stdout : stdout[k].kind = "address" =>
    /\ \E j \in 1 .. k - 1 : stdout[j] = [stdout[k] EXCEPT !.kind = "privkey"]
    /\ stdout[k].key \notin Unverifiable
    /\ \A i \in DOMAIN args.targets :
         <<stdout[k].key, args.targets[i]>> \in IF args.case = "true" THEN Exact ELSE Folded

\* A worker that finds nothing leaves only because of another one's find or
\* of a public key that does not verify; so, with at least one thread, the
\* command congratulates nobody for nothing unless every worker quit.
CongratsUnlessAllQuit ==
  congratulated => Announced # {} \/ quit = Worker

\* "Congratulations! Find an expectant address"
CongratsTruthful == congratulated => Announced # {}

\* If some key matches the request, the command ends.
Termination ==
  (\E k \in Key \ Unverifiable : HoldsAll(k)) ~> (mpc = "end")

\* FindAddress is a fork-join search whose workers may give up.
Search == INSTANCE ParallelSearch WITH
  MayQuit <- TRUE,
  phase <- IF mpc = "fork" THEN "searching" ELSE "idle",
  started <- {w \in Worker : wpc[w] # "unborn"},
  stopped <- {w \in Worker : wpc[w] = "done"},
  quit <- quit,
  found <- result > 0
SearchSafety == Search!Spec

\* Once a find is visible to the workers, FindAddress returns.
FindReleasesCaller == Search!FindReleasesCaller
=============================================================================
