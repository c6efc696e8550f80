------------------------ MODULE ParallelSearchProofs ------------------------
(***************************************************************************)
(* What a caller of a fork-join search may rely on, for any set of workers *)
(* and whether or not they may quit: theorems of ParallelSearch!Spec.      *)
(***************************************************************************)
EXTENDS ParallelSearch, TLAPS

\* Only started workers leave, those that leave without a find have quit, and
\* between searches nobody is left running.
IInv ==
  /\ phase \in {"idle", "searching"} /\ found \in BOOLEAN
  /\ quit \subseteq stopped /\ stopped \subseteq started
  /\ ~found => stopped \subseteq quit
  /\ phase = "idle" => started \subseteq stopped

\* IInv is an inductive invariant of the search.
THEOREM Invariance == Spec => []IInv
<1>1. Init => IInv
  BY DEF Init, IInv
<1>2. IInv /\ [Next]_vars => IInv'
  <2> SUFFICES ASSUME IInv, [Next]_vars PROVE IInv'
    OBVIOUS
  <2> USE DEF IInv
  <2>1. CASE Begin
    BY <2>1 DEF Begin
  <2>2. ASSUME NEW w \in Worker, Fork(w) PROVE IInv'
    BY <2>2 DEF Fork
  <2>3. ASSUME NEW w \in Worker, Find(w) PROVE IInv'
    BY <2>3 DEF Find
  <2>4. ASSUME NEW w \in Worker, Leave(w) PROVE IInv'
    BY <2>4 DEF Leave
  <2>5. ASSUME NEW w \in Worker, Quit(w) PROVE IInv'
    BY <2>5 DEF Quit
  <2>6. CASE Join
    BY <2>6 DEF Join
  <2>7. CASE UNCHANGED vars
    BY <2>7 DEF vars
  <2> QED
    BY <2>1, <2>2, <2>3, <2>4, <2>5, <2>6, <2>7 DEF Next
<1> QED
  BY <1>1, <1>2, PTL DEF Spec

\* A caller that gets control back holds a find unless every worker quit:
\* what findGenesis and FindAddress owe their callers.
THEOREM ResumedWithFind == Spec => []JoinedWithFind
<1>1. IInv => JoinedWithFind
  BY DEF IInv, JoinedWithFind
<1> QED
  BY Invariance, <1>1, PTL
=============================================================================
