---------------------------- MODULE AlertSender ----------------------------
(***************************************************************************)
(* SendAlert (common/alerttool.cpp) with AddOneNode and FreeNode           *)
(* (common/utils.cpp): an alert is made of the settings, the nodes of the  *)
(* settings are connected, the alert is signed, checked against the        *)
(* network's alert key and relayed to every node that was connected.       *)
(*                                                                         *)
(* Connecting, signing and relaying are library calls that may fail; a     *)
(* node is a CNode on the heap, named by the number of its socket.         *)
(***************************************************************************)
EXTENDS Settings, FiniteSets, SequencesExt

CONSTANTS
  Network,    \* what SelectParams may select
  Secret,     \* <<network, value>>: value is a private key of that network
  AlertKey    \* AlertKey[n]: the private key of the alert key of network n

ASSUME AlertAssumption ==
  /\ {"privkey", "addnode", "id", "setcancel"} \subseteq Key
  /\ Secret \subseteq Network \X Value /\ AlertKey \in [Network -> Value]

VARIABLES
  spc,      \* where SendAlert is
  params,   \* the selected chain parameters
  alert,    \* the CAlert: its numbers, here the ID, and its cancel set
  signer,   \* the private key vchSig was made with
  pos,      \* position of the loop SendAlert is in
  vNodes,   \* the connected nodes: address and socket
  opened,   \* the sockets that are open
  sockets,  \* how many sockets have been created
  freed,    \* the nodes that have been deleted
  iSuccess, \* how many relays succeeded
  relayed,  \* history: the sockets of the nodes that were told, in order
  report    \* the closing line: nodes and successes

sender == <<spc, alert, signer, pos, vNodes, opened, sockets, freed,
            iSuccess, relayed, report>>
network == <<vNodes, opened, sockets, freed>>

NoAlert == [id |-> 0, cancels |-> {}]
NoReport == [total |-> -1, successes |-> -1]

InitSender ==
  /\ spc = "idle" /\ alert = NoAlert /\ signer = NoValue /\ pos = 1
  /\ vNodes = <<>> /\ opened = {} /\ sockets = 0 /\ freed = {}
  /\ iSuccess = 0 /\ relayed = <<>> /\ report = NoReport

\* Faulty: of the IDs to cancel only the first is taken.
SetCancel_First == IF Has("setcancel") THEN {Number[mapArgs["setcancel"]]} ELSE {}

\* The IDs to cancel: what atoi makes of each text, 0 of one that is no number.
SetCancel ==
  IF Has("setcancel") THEN {Number[v] : v \in ToSet(mapMultiArgs["setcancel"])} ELSE {}

\* The ID: what atoi makes of the text, and 1 where none is given.
AlertID == IF Has("id") THEN Number[mapArgs["id"]] ELSE 1

\* SendAlert is called.  Without a privkey it returns at once; with one it
\* makes the alert of the settings there are now (CreateAlert).
CreateAlert ==
  /\ spc = "called"
  /\ IF Has("privkey")
     THEN /\ spc' = "connect"
          /\ alert' = [id |-> AlertID, cancels |-> SetCancel]
     ELSE spc' = "failed" /\ UNCHANGED alert
  /\ UNCHANGED <<settings, params, signer, pos, network, iSuccess, relayed, report>>

\* "add one node by write as :  node=...": no node to send to.
NoNode ==
  /\ spc = "connect" /\ ~Has("addnode")
  /\ spc' = "nonode"
  /\ UNCHANGED <<settings, params, alert, signer, pos, network, iSuccess, relayed, report>>

\* Faulty: every round connects the first address.
NodeAddress_First == mapArgs["addnode"]

\* The address the loop is at.
NodeAddress == mapMultiArgs["addnode"][pos]

\* Faulty: a socket select() cannot handle is closed and becomes a node.
Connected_Closed(sock) == opened

\* The open sockets with the one of a new node.
Connected(sock) == opened \cup {sock}

\* AddOneNode: the connection fails, or gives a socket select() cannot handle,
\* which is closed again, or a node is put at the end of vNodes.
AddOneNode ==
  /\ spc = "connect" /\ Has("addnode") /\ pos <= Len(mapMultiArgs["addnode"])
  /\ \/ UNCHANGED network
     \/ sockets' = sockets + 1 /\ UNCHANGED <<vNodes, opened, freed>>
     \/ /\ sockets' = sockets + 1
        /\ opened' = Connected(sockets + 1)
        /\ vNodes' = Append(vNodes, [addr |-> NodeAddress, sock |-> sockets + 1])
        /\ UNCHANGED freed
  /\ pos' = pos + 1
  /\ UNCHANGED <<settings, params, spc, alert, signer, iSuccess, relayed, report>>

\* All nodes tried: the message is serialized, GetKeysFromSecret and Sign.
Sign ==
  /\ spc = "connect" /\ Has("addnode") /\ pos > Len(mapMultiArgs["addnode"])
  /\ \/ /\ <<params, mapArgs["privkey"]>> \in Secret
        /\ signer' = mapArgs["privkey"] /\ spc' = "check"
     \/ spc' = "failed" /\ UNCHANGED signer
  /\ UNCHANGED <<settings, params, alert, pos, network, iSuccess, relayed, report>>

\* Faulty: the signature is checked with the key of its own maker.
Authorized_Self == signer = mapArgs["privkey"]

\* CAlert::CheckSignature with the alert key of the selected network.
Authorized == signer = AlertKey[params]

CheckSignature ==
  /\ spc = "check"
  /\ spc' = IF Authorized THEN "relay" ELSE "failed"
  /\ pos' = 1
  /\ UNCHANGED <<settings, params, alert, signer, network, iSuccess, relayed, report>>

\* Faulty: a failure counts as a success.
AfterFailure_Counted == iSuccess + 1

\* iSuccess after a relay that failed.
AfterFailure == iSuccess

\* RelayTo on the next node of vNodes.
Relay ==
  /\ spc = "relay" /\ pos <= Len(vNodes)
  /\ \/ relayed' = Append(relayed, vNodes[pos].sock) /\ iSuccess' = iSuccess + 1
     \/ relayed' = relayed /\ iSuccess' = AfterFailure
  /\ pos' = pos + 1
  /\ UNCHANGED <<settings, params, spc, alert, signer, network, report>>

Report ==
  /\ spc = "relay" /\ pos > Len(vNodes)
  /\ report' = [total |-> Len(vNodes), successes |-> iSuccess]
  /\ spc' = "free" /\ pos' = 1
  /\ UNCHANGED <<settings, params, alert, signer, network, iSuccess, relayed>>

\* Faulty: the node is deleted, its socket left open.
CloseSocket_Not(sock) == opened

CloseSocket(sock) == opened \ {sock}

\* FreeNode: close and delete the next node; clear vNodes after the last.
FreeNode ==
  /\ spc = "free"
  /\ IF pos <= Len(vNodes)
     THEN /\ opened' = CloseSocket(vNodes[pos].sock)
          /\ freed' = freed \cup {vNodes[pos].sock}
          /\ pos' = pos + 1
          /\ UNCHANGED <<spc, vNodes>>
     ELSE /\ vNodes' = <<>> /\ spc' = "sent"
          /\ UNCHANGED <<opened, freed, pos>>
  /\ UNCHANGED <<settings, params, alert, signer, sockets, iSuccess, relayed, report>>

SendAlert ==
  \/ CreateAlert \/ NoNode \/ AddOneNode \/ Sign \/ CheckSignature
  \/ Relay \/ Report \/ FreeNode

Returned == {"nonode", "failed", "sent"}
-----------------------------------------------------------------------------
\* The types of the sender's variables.
SenderTypeOK ==
  /\ spc \in {"idle", "called", "connect", "check", "relay", "free"} \cup Returned
  /\ params \in Network \cup {NoValue}
  /\ alert \in [id : Int, cancels : SUBSET Int]
  /\ signer \in Value \cup {NoValue} /\ pos \in Nat \ {0}
  /\ vNodes \in Seq([addr : Value, sock : Nat])
  /\ opened \in SUBSET Nat /\ sockets \in Nat /\ freed \in SUBSET Nat
  /\ iSuccess \in Nat /\ relayed \in Seq(Nat) /\ report \in [total : Int, successes : Int]

\* Whatever the files say, no node hears of an alert that is not signed with
\* the alert key of the network the tool runs on, and the key is the one the
\* settings hold first.
OnlyAuthorizedRelay ==
  relayed # <<>> => /\ signer = AlertKey[params]
                    /\ signer = Head(mapMultiArgs["privkey"])

\* While vNodes is in use its nodes are alive and their sockets open, and
\* every node is told at most once (two addnode lines with the same address
\* make two nodes, on two sockets).
NodesUsable ==
  spc \in {"connect", "check", "relay"} =>
    /\ \A i, j \in DOMAIN vNodes : i # j => vNodes[i].sock # vNodes[j].sock
    /\ \A i \in DOMAIN vNodes : vNodes[i].sock \in opened \ freed
    /\ \A i, j \in DOMAIN relayed : i # j => relayed[i] # relayed[j]

\* The closing line tells the truth: it counts the nodes that were connected
\* and those of them that were told.
ReportExact ==
  report # NoReport =>
    /\ report.total = Cardinality(opened \cup freed)
    /\ report.successes = Cardinality(ToSet(relayed))
    /\ ToSet(relayed) \subseteq opened \cup freed

\* A deleted node's socket is closed, and after a report no socket is left
\* open; a return before it leaves exactly the nodes of vNodes to the exit of
\* the process.
NothingLeaks ==
  /\ opened \cap freed = {}
  /\ spc = "sent" => opened = {} /\ vNodes = <<>>
  /\ spc # "free" => opened = {vNodes[i].sock : i \in DOMAIN vNodes}
=============================================================================
