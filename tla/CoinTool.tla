------------------------------ MODULE CoinTool ------------------------------
(***************************************************************************)
(* The process (tool/main.cpp): it reads tool.conf, selects the network,   *)
(* looks the command up and runs it.  The command that goes on with the    *)
(* settings, "sendalert", reads a file of its own and is modelled to its   *)
(* end; the others are a step here.                                        *)
(***************************************************************************)
EXTENDS AlertSender

CONSTANTS
  ConfLine,   \* the lines tool.conf may hold
  FileLine,   \* the lines the alert file may hold
  MaxConf,    \* bound on the number of lines of tool.conf
  MaxFile     \* bound on the number of lines of the alert file

ASSUME CoinToolAssumption ==
  /\ ConfLine \subseteq Line /\ FileLine \subseteq Line
  /\ MaxConf \in Nat /\ MaxFile \in Nat
  /\ {"main", "test"} \subseteq Network /\ NoValue \notin Network

VARIABLES
  pc,       \* where main is
  cmd,      \* the command line: what follows the name of the program
  conf,     \* history: the lines read from tool.conf
  file      \* history: the lines read from the alert file

vars == <<pc, cmd, conf, file, settings, params, sender>>

\* No argument; an unknown word; another command; sendalert without a file
\* and with one.
CommandLine == {"none", "unknown", "other", "sendalert", "sendalert file"}

Init ==
  /\ InitSettings /\ InitSender
  /\ params = NoValue
  /\ pc = "start" /\ cmd \in CommandLine /\ conf = <<>> /\ file = <<>>

Start ==
  /\ pc = "start" /\ SetFilePath
  /\ pc' = "readconf"
  /\ UNCHANGED <<cmd, conf, file, params, sender>>

\* ReadConfigFile: a line, if the file exists and has another one.
ReadConf ==
  /\ pc = "readconf" /\ Len(conf) < MaxConf
  /\ \E line \in ConfLine : ReadLine(line) /\ conf' = Append(conf, line)
  /\ UNCHANGED <<pc, cmd, file, params, sender>>

SelectedNet == IF GetBoolArg("testnet") THEN "test" ELSE "main"

\* InitSys selects the network.
InitSys ==
  /\ pc = "readconf"
  /\ params' = SelectedNet
  /\ pc' = "dispatch"
  /\ UNCHANGED <<cmd, conf, file, settings, sender>>

\* The list of commands, an unknown method, another command or the help of
\* sendalert, and the end of the process.
RunOther ==
  /\ pc = "dispatch" /\ cmd # "sendalert file"
  /\ pc' = "end"
  /\ UNCHANGED <<cmd, conf, file, settings, params, sender>>

\* ReadCurrentFile: the file cannot be opened, and the command returns, or the
\* process dies at once of a name too long for showerror's array, ...
OpenFails ==
  /\ pc = "dispatch" /\ cmd = "sendalert file"
  /\ pc' = "end"
  /\ UNCHANGED <<cmd, conf, file, settings, params, sender>>

\* ... or is read line by line, ...
ReadFileLine ==
  /\ pc \in {"dispatch", "readfile"} /\ cmd = "sendalert file"
  /\ Len(file) < MaxFile
  /\ \E line \in FileLine : ReadLine(line) /\ file' = Append(file, line)
  /\ pc' = "readfile"
  /\ UNCHANGED <<cmd, conf, params, sender>>

\* ... to its end, and SendAlert is called.
CallSendAlert ==
  /\ pc \in {"dispatch", "readfile"} /\ cmd = "sendalert file"
  /\ pc' = "sendalert" /\ spc' = "called"
  /\ UNCHANGED <<cmd, conf, file, settings, params, alert, signer, pos, network,
                 iSuccess, relayed, report>>

\* A line that is no key=value makes the parser of either file throw, which
\* nobody catches.
Abort ==
  /\ pc \in {"readconf", "readfile"} \/ (pc = "dispatch" /\ cmd = "sendalert file")
  /\ pc' = "end"
  /\ UNCHANGED <<cmd, conf, file, settings, params, sender>>

RunSendAlert ==
  /\ pc = "sendalert" /\ SendAlert
  /\ UNCHANGED <<pc, cmd, conf, file>>

Exit ==
  /\ pc = "sendalert" /\ spc \in Returned
  /\ pc' = "end"
  /\ UNCHANGED <<cmd, conf, file, settings, params, sender>>

\* The process has exited.
Ended == pc = "end" /\ UNCHANGED vars

Next ==
  \/ Start \/ ReadConf \/ InitSys \/ RunOther \/ OpenFails \/ ReadFileLine
  \/ CallSendAlert \/ Abort \/ RunSendAlert \/ Exit \/ Ended

Spec == Init /\ [][Next]_vars
-----------------------------------------------------------------------------
\* The types of the variables.
TypeOK ==
  /\ SettingsTypeOK /\ SenderTypeOK
  /\ pc \in {"start", "readconf", "dispatch", "readfile", "sendalert", "end"}
  /\ cmd \in CommandLine /\ conf \in Seq(ConfLine) /\ file \in Seq(FileLine)

\* What a sequence of lines says of a setting, negations resolved: the lines
\* that give it a value, the value, and the first of them, if any.
Gives(lines, i, k) == InterpretNegative(lines[i]).key = k
Given(lines, i) == InterpretNegative(lines[i]).value
FirstGiven(lines, k, v) ==
  \E i \in DOMAIN lines :
    Gives(lines, i, k) /\ Given(lines, i) = v /\ \A j \in 1 .. i - 1 : ~Gives(lines, j, k)
NoneGiven(lines, k) == \A i \in DOMAIN lines : ~Gives(lines, i, k)

\* The network is what the first testnet or notestnet line of tool.conf says,
\* main without one, and stays that: a line of the alert file, read after the
\* network was selected, cannot move the tool to another network, and the
\* signature is checked against the alert key of this one.
NetworkFromConf ==
  params # NoValue =>
    params = IF \E v \in Value : FirstGiven(conf, "testnet", v) /\ InterpretBool(v)
             THEN "test" ELSE "main"

\* The alert carries what the files say, as numbers: its ID is the first that
\* tool.conf or, after it, the alert file gives, or 1, and it cancels every ID
\* either lists.  A text that is no number gives the ID 0 and cancels it.
AlertFromFiles ==
  spc \in {"nonode", "connect", "check", "relay", "free", "sent"} =>
    LET lines == conf \o file
    IN  /\ \/ alert.id = 1 /\ NoneGiven(lines, "id")
           \/ \E v \in Value : FirstGiven(lines, "id", v) /\ alert.id = Number[v]
        /\ alert.cancels =
             {Number[Given(lines, i)] : i \in {j \in DOMAIN lines : Gives(lines, j, "setcancel")}}

\* A node is connected only for an addnode line of one of the files, in their
\* order, and at most one for each.
NodesFromFiles ==
  LET lines == conf \o file
  IN  \E f \in [DOMAIN vNodes -> DOMAIN lines] :
        /\ \A i \in DOMAIN vNodes :
             Gives(lines, f[i], "addnode") /\ Given(lines, f[i]) = vNodes[i].addr
        /\ \A i, j \in DOMAIN vNodes : i < j => f[i] < f[j]

\* Reading the files, connecting, signing, relaying and freeing, in every
\* order the code takes and with every failure, implement Broadcast.
Alert == INSTANCE Broadcast WITH
  phase <- CASE spc \in {"idle", "called", "connect"} -> "gather"
             [] spc = "check" -> "signed"
             [] spc = "relay" -> "send"
             [] spc = "free" -> "close"
             [] OTHER -> "over",
  net <- params,
  key <- signer,
  audience <- opened \cup freed,
  told <- ToSet(relayed),
  open <- opened
AlertSafety == Alert!Spec

\* "add one node by write as :  node=10.175.0.100:9888   in config file":
\* nobody who has written such a line is asked for it.
NodeLineHelps ==
  spc = "nonode" => \A i \in DOMAIN file : file[i].key # "node"
=============================================================================
