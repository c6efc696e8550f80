--------------------------- MODULE MCGenesisSearch ---------------------------
(***************************************************************************)
(* Instances of GenesisSearch for TLC: a nonce of two small halves, and    *)
(* targets some headers meet only at some times, one at every time so that *)
(* a scan of all nonces ends.                                              *)
(***************************************************************************)
EXTENDS GenesisSearch

\* Sixteen nonces.  One is good only at the requested second, one only at
\* the next, and one at any time.
TestSolution ==
  {<<1, 3, StartTime>>, <<1, 7, StartTime + 1>>}
    \cup {<<1, 9, t>> : t \in StartTime .. StartTime + MaxClock}

\* Four nonces, two searches with different targets: regtest is easier.
MainSolution ==
  {<<1, 3, t>> : t \in StartTime .. StartTime + MaxClock}
    \cup ({2} \X {1, 3} \X (StartTime .. StartTime + MaxClock))
=============================================================================
