--------------------------- MODULE ParallelSearch ---------------------------
(***************************************************************************)
(* What the two multi-threaded searches of the tool promise their caller:  *)
(* a search forks its workers, a worker leaves only once somebody has      *)
(* found something or, where the code lets it, by quitting, and the caller *)
(* gets control back only when every worker has left.  findGenesis         *)
(* (common/genesis.cpp) and FindAddress (common/keytool.cpp) refine it.    *)
(***************************************************************************)
CONSTANTS
  Worker,    \* the threads a search forks
  MayQuit    \* BOOLEAN: may a worker leave although nothing was found?

VARIABLES
  phase,     \* "idle" between searches, "searching" during one
  started,   \* the workers forked by the current (or last) search
  stopped,   \* those of them that have returned
  quit,      \* those of them that returned by quitting
  found      \* has this search found something?

vars == <<phase, started, stopped, quit, found>>

Init ==
  /\ phase = "idle"
  /\ started = {} /\ stopped = {} /\ quit = {}
  /\ found = FALSE

Begin ==
  /\ phase = "idle"
  /\ phase' = "searching"
  /\ started' = {} /\ stopped' = {} /\ quit' = {}
  /\ found' = FALSE

Fork(w) ==
  /\ phase = "searching"
  /\ w \notin started
  /\ started' = started \cup {w}
  /\ UNCHANGED <<phase, stopped, quit, found>>

Find(w) ==
  /\ w \in started \ stopped
  /\ found' = TRUE
  /\ UNCHANGED <<phase, started, stopped, quit>>

Leave(w) ==
  /\ w \in started \ stopped
  /\ found
  /\ stopped' = stopped \cup {w}
  /\ UNCHANGED <<phase, started, quit, found>>

Quit(w) ==
  /\ w \in started \ stopped
  /\ MayQuit
  /\ stopped' = stopped \cup {w}
  /\ quit' = quit \cup {w}
  /\ UNCHANGED <<phase, started, found>>

Join ==
  /\ phase = "searching"
  /\ started = Worker /\ stopped = Worker
  /\ phase' = "idle"
  /\ UNCHANGED <<started, stopped, quit, found>>

Next ==
  \/ Begin
  \/ \E w \in Worker : Fork(w) \/ Find(w) \/ Leave(w) \/ Quit(w)
  \/ Join

Spec == Init /\ [][Next]_vars
-----------------------------------------------------------------------------
\* A caller that gets control back holds a find, unless every worker of the
\* search quit (in particular, unless there was none).
JoinedWithFind == phase = "idle" => found \/ quit = started

\* A find releases the caller.
FindReleasesCaller == (phase = "searching" /\ found) ~> (phase = "idle")
=============================================================================
