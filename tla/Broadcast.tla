----------------------------- MODULE Broadcast -----------------------------
(***************************************************************************)
(* What "sendalert" promises the network: the audience of an alert is      *)
(* closed before the alert is signed, nobody is told before the signature  *)
(* was checked against the alert key of the one network the tool selected, *)
(* nobody is told twice, and once the telling is over every connection is  *)
(* closed.  The process (CoinTool, AlertSender) refines it.                *)
(***************************************************************************)
CONSTANTS
  Network,    \* the networks there are
  AlertKey,   \* the key that may sign alerts of a network
  Value,      \* the keys the user may name
  NoValue     \* no network or no key yet

VARIABLES
  phase,      \* "gather", "signed", "send", "close" or "over"
  net,        \* the selected network
  key,        \* the key the alert is signed with
  audience,   \* those who have been connected
  told,       \* those of them who were told
  open        \* those of them who are still connected

vars == <<phase, net, key, audience, told, open>>

Init ==
  /\ phase = "gather"
  /\ net = NoValue /\ key = NoValue
  /\ audience = {} /\ told = {} /\ open = {}

\* The network is selected, once, while nobody is connected.
Select ==
  /\ phase = "gather" /\ net = NoValue /\ audience = {}
  /\ net' \in Network
  /\ UNCHANGED <<phase, key, audience, told, open>>

\* Somebody new is connected.
Join ==
  /\ phase = "gather"
  /\ \E n \in audience' : /\ n \notin audience
                          /\ audience' = audience \cup {n}
                          /\ open' = open \cup {n}
  /\ UNCHANGED <<phase, net, key, told>>

Sign ==
  /\ phase = "gather" /\ net # NoValue
  /\ phase' = "signed" /\ key' \in Value
  /\ UNCHANGED <<net, audience, told, open>>

Clear ==
  /\ phase = "signed" /\ key = AlertKey[net]
  /\ phase' = "send"
  /\ UNCHANGED <<net, key, audience, told, open>>

\* Without a key, a node or a valid signature nobody is told anything.
GiveUp ==
  /\ phase \in {"gather", "signed"}
  /\ phase' = "over"
  /\ UNCHANGED <<net, key, audience, told, open>>

Tell ==
  /\ phase = "send"
  /\ \E n \in audience \ told : told' = told \cup {n}
  /\ UNCHANGED <<phase, net, key, audience, open>>

Finish ==
  /\ phase = "send"
  /\ phase' = "close"
  /\ UNCHANGED <<net, key, audience, told, open>>

Close ==
  /\ phase = "close"
  /\ \E n \in open : open' = open \ {n}
  /\ UNCHANGED <<phase, net, key, audience, told>>

Done ==
  /\ phase = "close" /\ open = {}
  /\ phase' = "over"
  /\ UNCHANGED <<net, key, audience, told, open>>

Next == Select \/ Join \/ Sign \/ Clear \/ GiveUp \/ Tell \/ Finish \/ Close \/ Done

Spec == Init /\ [][Next]_vars
=============================================================================
