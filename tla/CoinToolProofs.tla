--------------------------- MODULE CoinToolProofs ---------------------------
(***************************************************************************)
(* What holds of the settings, the network and the alert for files of any  *)
(* length and any content, proved.                                         *)
(***************************************************************************)
EXTENDS CoinTool, SequenceTheorems, FiniteSetTheorems, TLAPS

\* The lines of both files, in the order they are read.
Lines == conf \o file

\* A line, negated or not, sets a key to a value.
LEMMA LineType ==
  ASSUME NEW line \in Line
  PROVE  /\ InterpretNegative(line).key \in Key
         /\ InterpretNegative(line).value \in Value
<1>1. line.key \in Key /\ line.value \in Value
  BY DEF Line
<1>2. CASE line.key \in DOMAIN Negated
  <2>1. Negated[line.key] \in Key
    BY <1>2, SettingsAssumption
  <2>2. "0" \in Value /\ "1" \in Value
    BY SettingsAssumption
  <2> QED
    BY <1>2, <2>1, <2>2 DEF InterpretNegative
<1>3. CASE line.key \notin DOMAIN Negated
  BY <1>1, <1>3 DEF InterpretNegative
<1> QED
  BY <1>2, <1>3

\* The first value of a setting is kept, every value is recorded, and the
\* other settings are left alone.
LEMMA ReadLineEffect ==
  ASSUME SettingsTypeOK, NEW line \in Line, ReadLine(line)
  PROVE  LET s == InterpretNegative(line)
         IN  /\ SettingsTypeOK'
             /\ \A k \in Key \ {s.key} : /\ mapArgs'[k] = mapArgs[k]
                                         /\ mapMultiArgs'[k] = mapMultiArgs[k]
             /\ mapArgs'[s.key] = IF mapArgs[s.key] = NoValue THEN s.value ELSE mapArgs[s.key]
             /\ mapMultiArgs'[s.key] = Append(mapMultiArgs[s.key], s.value)
<1> DEFINE s == InterpretNegative(line)
<1>1. s.key \in Key /\ s.value \in Value
  BY LineType
<1>2. mapArgs \in [Key -> Value \cup {NoValue}] /\ mapMultiArgs \in [Key -> Seq(Value)]
  BY DEF SettingsTypeOK
<1>3. /\ mapArgs' = [mapArgs EXCEPT ![s.key] =
                       IF mapArgs[s.key] # NoValue THEN mapArgs[s.key] ELSE s.value]
      /\ mapMultiArgs' = [mapMultiArgs EXCEPT ![s.key] = Append(mapMultiArgs[s.key], s.value)]
  BY DEF ReadLine, Kept, Has
<1> HIDE DEF s
<1>4. Append(mapMultiArgs[s.key], s.value) \in Seq(Value)
  BY <1>1, <1>2, AppendProperties
<1>5. SettingsTypeOK'
  BY <1>1, <1>2, <1>3, <1>4 DEF SettingsTypeOK
<1> QED
  BY <1>1, <1>2, <1>3, <1>5 DEF s

\* Either file's lines are lines.
LEMMA FilesAreLines ==
  ASSUME TypeOK
  PROVE  conf \in Seq(Line) /\ file \in Seq(Line) /\ Lines \in Seq(Line)
<1>1. conf \in Seq(Line) /\ file \in Seq(Line)
  BY CoinToolAssumption, SeqMonotonic DEF TypeOK
<1> QED
  BY <1>1, ConcatProperties DEF Lines

-----------------------------------------------------------------------------
\* A step of SendAlert keeps the types of its variables.
LEMMA SenderTypes ==
  ASSUME SettingsTypeOK, SenderTypeOK, SendAlert
  PROVE  SettingsTypeOK' /\ SenderTypeOK'
<1> USE DEF Returned, network, settings
<1>0. SettingsTypeOK'
  BY DEF SendAlert, CreateAlert, NoNode, AddOneNode, Sign, CheckSignature, Relay, Report,
         FreeNode, SettingsTypeOK
<1> SUFFICES SenderTypeOK'
  BY <1>0
<1>1. CASE CreateAlert
  <2>1. alert' \in [id : Int, cancels : SUBSET Int]
    <3>1. mapArgs["id"] \in Value \cup {NoValue} /\ mapMultiArgs["setcancel"] \in Seq(Value)
      BY AlertAssumption DEF SettingsTypeOK
    <3>0. \A v \in Value : Number[v] \in Int
      BY SettingsAssumption
    <3>4. AlertID \in Int
      BY <3>0, <3>1 DEF AlertID, Has
    <3>2. ToSet(mapMultiArgs["setcancel"]) \in SUBSET Value
      <4> DEFINE m == mapMultiArgs["setcancel"]
      <4>1. \A j \in DOMAIN m : m[j] \in Value
        BY <3>1, LenProperties, ElementOfSeq
      <4> QED
        BY <4>1 DEF ToSet
    <3>3. SetCancel \in SUBSET Int
      BY <3>0, <3>2 DEF SetCancel
    <3>5. alert \in [id : Int, cancels : SUBSET Int]
      BY DEF SenderTypeOK
    <3>6. alert' = alert \/ alert' = [id |-> AlertID, cancels |-> SetCancel]
      BY <1>1 DEF CreateAlert
    <3>7. \A a \in Int, c \in SUBSET Int :
            [id |-> a, cancels |-> c] \in [id : Int, cancels : SUBSET Int]
      OBVIOUS
    <3>8. [id |-> AlertID, cancels |-> SetCancel] \in [id : Int, cancels : SUBSET Int]
      BY <3>3, <3>4, <3>7
    <3> QED
      BY <3>5, <3>6, <3>8
  <2> QED
    BY <1>1, <2>1 DEF CreateAlert, SenderTypeOK
<1>2. CASE NoNode
  BY <1>2 DEF NoNode, SenderTypeOK
<1>3. CASE AddOneNode
  <2>1. vNodes' \in Seq([addr : Value, sock : Nat])
    <3>1. mapMultiArgs["addnode"] \in Seq(Value)
      BY AlertAssumption DEF SettingsTypeOK
    <3>2. pos \in 1 .. Len(mapMultiArgs["addnode"])
      BY <1>3, <3>1, LenProperties DEF AddOneNode, SenderTypeOK
    <3>3. NodeAddress \in Value
      BY <3>1, <3>2, ElementOfSeq DEF NodeAddress
    <3>4. [addr |-> NodeAddress, sock |-> sockets + 1] \in [addr : Value, sock : Nat]
      BY <3>3 DEF SenderTypeOK
    <3>5. vNodes' = vNodes
            \/ vNodes' = Append(vNodes, [addr |-> NodeAddress, sock |-> sockets + 1])
      BY <1>3 DEF AddOneNode
    <3> QED
      <4> DEFINE Nodes == [addr : Value, sock : Nat]
                 node == [addr |-> NodeAddress, sock |-> sockets + 1]
      <4>1. vNodes \in Seq(Nodes) /\ node \in Nodes
        BY <3>4 DEF SenderTypeOK
      <4>2. vNodes' = vNodes \/ vNodes' = Append(vNodes, node)
        BY <3>5
      <4> HIDE DEF Nodes, node
      <4>3. vNodes' \in Seq(Nodes)
        BY <4>1, <4>2, AppendProperties
      <4> QED
        BY <4>3 DEF Nodes
  <2>2. sockets' \in Nat /\ freed' = freed /\ pos' = pos + 1
    BY <1>3 DEF AddOneNode, SenderTypeOK
  <2>3. opened' = opened \/ opened' = opened \cup {sockets + 1}
    BY <1>3 DEF AddOneNode, Connected
  <2>4. opened' \in SUBSET Nat /\ pos' \in Nat \ {0}
    <3>1. opened \subseteq Nat /\ sockets + 1 \in Nat /\ pos \in Nat \ {0}
      BY DEF SenderTypeOK
    <3>2. opened' \subseteq Nat
      BY <2>3, <3>1
    <3> QED
      BY <2>2, <3>1, <3>2
  <2>5. UNCHANGED <<params, spc, alert, signer, iSuccess, relayed, report>>
    BY <1>3 DEF AddOneNode
  <2> QED
    BY <2>1, <2>2, <2>4, <2>5 DEF SenderTypeOK
<1>4. CASE Sign
  <2>1. signer' \in Value \cup {NoValue}
    <3>1. mapArgs["privkey"] \in Value \cup {NoValue}
      BY AlertAssumption DEF SettingsTypeOK
    <3> QED
      BY <1>4, <3>1 DEF Sign, SenderTypeOK
  <2> QED
    BY <1>4, <2>1 DEF Sign, SenderTypeOK
<1>5. CASE CheckSignature
  BY <1>5 DEF CheckSignature, SenderTypeOK
<1>6. CASE Relay
  <2>1. relayed' \in Seq(Nat)
    <3>1. pos \in 1 .. Len(vNodes)
      BY <1>6, LenProperties DEF Relay, SenderTypeOK
    <3>2. vNodes[pos].sock \in Nat
      <4>1. vNodes[pos] \in [addr : Value, sock : Nat]
        BY <3>1, ElementOfSeq DEF SenderTypeOK
      <4> QED
        BY <4>1
    <3>3. relayed' = relayed \/ relayed' = Append(relayed, vNodes[pos].sock)
      BY <1>6 DEF Relay
    <3>4. relayed \in Seq(Nat)
      BY DEF SenderTypeOK
    <3> QED
      BY <3>2, <3>3, <3>4, AppendProperties
  <2>2. iSuccess' \in Nat /\ pos' \in Nat \ {0}
    BY <1>6 DEF Relay, AfterFailure, SenderTypeOK
  <2> QED
    BY <1>6, <2>1, <2>2 DEF Relay, SenderTypeOK
<1>7. CASE Report
  <2>1. Len(vNodes) \in Nat
    BY LenProperties DEF SenderTypeOK
  <2> QED
    BY <1>7, <2>1 DEF Report, SenderTypeOK
<1>8. CASE FreeNode
  <2>1. CASE pos <= Len(vNodes)
    <3>1. pos \in 1 .. Len(vNodes)
      BY <2>1, LenProperties DEF SenderTypeOK
    <3>2. vNodes[pos].sock \in Nat
      <4>1. vNodes[pos] \in [addr : Value, sock : Nat]
        BY <3>1, ElementOfSeq DEF SenderTypeOK
      <4> QED
        BY <4>1
    <3>3. /\ opened' = opened \ {vNodes[pos].sock} /\ freed' = freed \cup {vNodes[pos].sock}
          /\ pos' = pos + 1
          /\ UNCHANGED <<params, spc, alert, signer, vNodes, sockets, iSuccess, relayed, report>>
      BY <1>8, <2>1 DEF FreeNode, CloseSocket
    <3>4. opened' \in SUBSET Nat /\ freed' \in SUBSET Nat /\ pos' \in Nat \ {0}
      <4>1. opened \subseteq Nat /\ freed \subseteq Nat /\ pos \in Nat \ {0}
        BY DEF SenderTypeOK
      <4>2. opened' \subseteq Nat /\ freed' \subseteq Nat
        BY <3>2, <3>3, <4>1
      <4> QED
        BY <3>3, <4>1, <4>2
    <3> QED
      BY <3>3, <3>4 DEF SenderTypeOK
  <2>2. CASE ~(pos <= Len(vNodes))
    <3>1. vNodes' \in Seq([addr : Value, sock : Nat])
      BY <1>8, <2>2, EmptySeq DEF FreeNode
    <3> QED
      BY <1>8, <2>2, <3>1 DEF FreeNode, SenderTypeOK
  <2> QED
    BY <2>1, <2>2
<1> QED
  BY <1>1, <1>2, <1>3, <1>4, <1>5, <1>6, <1>7, <1>8 DEF SendAlert

\* The variables have their types at the start, ...
LEMMA TypesInit == Init => TypeOK
<1> SUFFICES ASSUME Init PROVE TypeOK
  OBVIOUS
<1>1. SettingsTypeOK
  BY EmptySeq DEF Init, InitSettings, SettingsTypeOK
<1>2. SenderTypeOK
  BY EmptySeq DEF Init, InitSender, SenderTypeOK, NoAlert, NoReport
<1>3. conf \in Seq(ConfLine) /\ file \in Seq(FileLine)
  BY EmptySeq DEF Init
<1> QED
  BY <1>1, <1>2, <1>3 DEF Init, TypeOK

\* ... every step keeps them, ...
LEMMA TypesNext == TypeOK /\ [Next]_vars => TypeOK'
<1> SUFFICES ASSUME TypeOK, [Next]_vars PROVE TypeOK'
  OBVIOUS
<1> USE DEF settings, sender, network
<1>0. SettingsTypeOK /\ SenderTypeOK
  BY DEF TypeOK
<1>1. CASE Start
  <2>1. SettingsTypeOK'
    BY <1>1, SettingsAssumption DEF Start, SetFilePath, SettingsTypeOK, TypeOK
  <2> QED
    BY <1>1, <2>1 DEF Start, SenderTypeOK, TypeOK
<1>2. CASE ReadConf
  <2>1. PICK line \in ConfLine : ReadLine(line) /\ conf' = Append(conf, line)
    BY <1>2 DEF ReadConf
  <2>2. SettingsTypeOK'
    BY <1>0, <2>1, ReadLineEffect, CoinToolAssumption
  <2>3. conf' \in Seq(ConfLine)
    BY <2>1, AppendProperties DEF TypeOK
  <2> QED
    BY <1>2, <2>2, <2>3 DEF ReadConf, SenderTypeOK, TypeOK
<1>3. CASE InitSys
  BY <1>3, CoinToolAssumption DEF InitSys, SelectedNet, SettingsTypeOK, SenderTypeOK, TypeOK
<1>4. CASE RunOther \/ OpenFails \/ Abort \/ Exit
  BY <1>4 DEF RunOther, OpenFails, Abort, Exit, SettingsTypeOK, SenderTypeOK, TypeOK
<1>5. CASE ReadFileLine
  <2>1. PICK line \in FileLine : ReadLine(line) /\ file' = Append(file, line)
    BY <1>5 DEF ReadFileLine
  <2>2. SettingsTypeOK'
    BY <1>0, <2>1, ReadLineEffect, CoinToolAssumption
  <2>3. file' \in Seq(FileLine)
    BY <2>1, AppendProperties DEF TypeOK
  <2> QED
    BY <1>5, <2>2, <2>3 DEF ReadFileLine, SenderTypeOK, TypeOK
<1>6. CASE CallSendAlert
  BY <1>6 DEF CallSendAlert, SettingsTypeOK, SenderTypeOK, TypeOK
<1>7. CASE RunSendAlert
  BY <1>0, <1>7, SenderTypes DEF RunSendAlert, TypeOK
<1>8. CASE UNCHANGED vars
  BY <1>8 DEF vars, SettingsTypeOK, SenderTypeOK, TypeOK
<1> QED
  BY <1>1, <1>2, <1>3, <1>4, <1>5, <1>6, <1>7, <1>8 DEF Next, Ended

\* ... and they always have them.
THEOREM TypeCorrect == Spec => []TypeOK
  BY TypesInit, TypesNext, PTL DEF Spec

-----------------------------------------------------------------------------
\* What one line more says of a setting: nothing, if it is about another one;
\* its own value, if no line before it was about this one; and the first value
\* stays the first.
LEMMA OneMoreLine ==
  ASSUME NEW lines \in Seq(Line), NEW line \in Line, NEW k \in Key
  PROVE  LET more == Append(lines, line)
             s == InterpretNegative(line)
         IN  /\ NoneGiven(lines, k) /\ s.key # k => NoneGiven(more, k)
             /\ NoneGiven(lines, k) /\ s.key = k => FirstGiven(more, k, s.value)
             /\ \A v : FirstGiven(lines, k, v) => FirstGiven(more, k, v)
<1> DEFINE more == Append(lines, line)
           s == InterpretNegative(line)
           n == Len(lines)
<1>1. /\ n \in Nat /\ DOMAIN lines = 1 .. n /\ DOMAIN more = 1 .. n + 1
      /\ \A i \in 1 .. n : more[i] = lines[i]
      /\ more[n + 1] = line
  BY AppendProperties, LenProperties
<1>2. /\ \A i \in 1 .. n : /\ Gives(more, i, k) <=> Gives(lines, i, k)
                           /\ Given(more, i) = Given(lines, i)
      /\ Gives(more, n + 1, k) <=> s.key = k
      /\ Given(more, n + 1) = s.value
  BY <1>1 DEF Gives, Given
<1> HIDE DEF more, s, n
<1>3. NoneGiven(lines, k) /\ s.key # k => NoneGiven(more, k)
  BY <1>1, <1>2 DEF NoneGiven
<1>4. NoneGiven(lines, k) /\ s.key = k => FirstGiven(more, k, s.value)
  <2> SUFFICES ASSUME NoneGiven(lines, k), s.key = k PROVE FirstGiven(more, k, s.value)
    OBVIOUS
  <2>1. n + 1 \in DOMAIN more
    BY <1>1
  <2>2. \A j \in 1 .. n : ~Gives(more, j, k)
    BY <1>1, <1>2 DEF NoneGiven
  <2>3. (n + 1) - 1 = n
    BY <1>1
  <2>4. \A j \in 1 .. (n + 1) - 1 : ~Gives(more, j, k)
    BY <2>2, <2>3
  <2>5. Gives(more, n + 1, k) /\ Given(more, n + 1) = s.value
    BY <1>2
  <2> DEFINE m == n + 1
  <2>6. m \in DOMAIN more /\ Gives(more, m, k) /\ Given(more, m) = s.value
        /\ \A j \in 1 .. m - 1 : ~Gives(more, j, k)
    BY <2>1, <2>4, <2>5
  <2> HIDE DEF m
  <2> QED
    BY <2>6 DEF FirstGiven
<1>5. ASSUME NEW v, FirstGiven(lines, k, v) PROVE FirstGiven(more, k, v)
  <2>1. PICK i \in DOMAIN lines : /\ Gives(lines, i, k) /\ Given(lines, i) = v
                                  /\ \A j \in 1 .. i - 1 : ~Gives(lines, j, k)
    BY <1>5 DEF FirstGiven
  <2>2. i \in 1 .. n /\ i \in DOMAIN more
    BY <1>1, <2>1
  <2>3. \A j \in 1 .. i - 1 : ~Gives(more, j, k)
    BY <1>1, <1>2, <2>1, <2>2
  <2> QED
    BY <1>2, <2>1, <2>2, <2>3 DEF FirstGiven
<1> QED
  BY <1>3, <1>4, <1>5 DEF more, s

\* A sequence of lines has one first value of a setting.
LEMMA OneFirst ==
  ASSUME NEW lines \in Seq(Line), NEW k, NEW v, NEW w,
         FirstGiven(lines, k, v), FirstGiven(lines, k, w)
  PROVE  v = w
<1>1. PICK i \in DOMAIN lines : /\ Gives(lines, i, k) /\ Given(lines, i) = v
                                /\ \A j \in 1 .. i - 1 : ~Gives(lines, j, k)
  BY DEF FirstGiven
<1>2. PICK h \in DOMAIN lines : /\ Gives(lines, h, k) /\ Given(lines, h) = w
                                /\ \A j \in 1 .. h - 1 : ~Gives(lines, j, k)
  BY DEF FirstGiven
<1>3. i \in Nat \ {0} /\ h \in Nat \ {0}
  BY LenProperties
<1>4. i = h
  <2>1. ~(i < h) /\ ~(h < i)
    BY <1>1, <1>2, <1>3
  <2> QED
    BY <1>3, <2>1
<1> QED
  BY <1>1, <1>2, <1>4

\* A line read from either file is one more at the end of both: the alert file
\* is read after tool.conf.
LEMMA LinesGrow ==
  ASSUME TypeOK, NEW line \in Line,
         \/ conf' = Append(conf, line) /\ file = <<>> /\ file' = file
         \/ file' = Append(file, line) /\ conf' = conf
  PROVE  Lines' = Append(Lines, line)
<1>1. conf \in Seq(Line) /\ file \in Seq(Line) /\ <<line>> \in Seq(Line)
  BY FilesAreLines
<1>2. CASE conf' = Append(conf, line) /\ file = <<>> /\ file' = file
  <2>1. Append(conf, line) \in Seq(Line)
    BY <1>1, AppendProperties
  <2> QED
    BY <1>1, <1>2, <2>1, ConcatEmptySeq DEF Lines
<1>3. CASE file' = Append(file, line) /\ conf' = conf
  <2>1. Append(file, line) = file \o <<line>> /\ Append(Lines, line) = Lines \o <<line>>
    BY <1>1, FilesAreLines, AppendIsConcat
  <2>2. (conf \o file) \o <<line>> = conf \o (file \o <<line>>)
    BY <1>1, ConcatAssociative
  <2> QED
    BY <1>3, <2>1, <2>2 DEF Lines
<1> QED
  BY <1>2, <1>3

-----------------------------------------------------------------------------
\* The settings the files decide; SetFilePath sets the other two.
Free == Key \ {"datadir", "conf"}

\* What the settings hold is what the lines read so far say.
Recorded ==
  \A k \in Free : IF mapArgs[k] = NoValue THEN NoneGiven(Lines, k)
                  ELSE FirstGiven(Lines, k, mapArgs[k])

\* The order of the program: nothing is selected and no line of the alert file
\* read before tool.conf has been, and SendAlert comes after both.
Phases ==
  /\ pc \in {"start", "readconf"} => params = NoValue /\ file = <<>>
  /\ spc # "idle" => pc \in {"sendalert", "end"}

\* What the alert, its signature and the network were made of is still there.
Derived ==
  /\ spc \in {"nonode", "connect", "check", "relay", "free", "sent"} =>
       alert = [id |-> AlertID, cancels |-> SetCancel]
  /\ spc \in {"check", "relay", "free", "sent"} =>
       signer = mapArgs["privkey"] /\ signer \in Value
  /\ spc \in {"relay", "free", "sent"} => signer = AlertKey[params]
  /\ relayed # <<>> => spc \in {"relay", "free", "sent"}

\* The inductive invariant of everything that is about the settings.
IInv == /\ TypeOK /\ HeadAgrees /\ Recorded /\ Phases /\ Derived /\ NetworkFromConf

LEMMA IInvInit == Init => IInv
<1> SUFFICES ASSUME Init PROVE IInv
  OBVIOUS
<1>1. TypeOK
  BY TypesInit
<1>2. HeadAgrees
  BY DEF Init, InitSettings, HeadAgrees
<1>3. Recorded
  <2>1. Lines = <<>>
    BY EmptySeq, ConcatEmptySeq DEF Lines, Init
  <2>2. \A k \in Key : NoneGiven(Lines, k)
    BY <2>1 DEF NoneGiven
  <2>3. \A k \in Free : k \in Key /\ mapArgs[k] = NoValue
    BY DEF Init, InitSettings, Free
  <2> QED
    BY <2>2, <2>3 DEF Recorded
<1>4. Phases /\ Derived /\ NetworkFromConf
  BY DEF Init, InitSender, Phases, Derived, NetworkFromConf
<1> QED
  BY <1>1, <1>2, <1>3, <1>4 DEF IInv

\* A line keeps the two maps in agreement.
LEMMA LineKeepsAgreement ==
  ASSUME SettingsTypeOK, HeadAgrees, NEW line \in Line, ReadLine(line)
  PROVE  HeadAgrees'
<1> DEFINE s == InterpretNegative(line)
<1>1. s.key \in Key /\ s.value \in Value
  BY LineType
<1>2. /\ \A k \in Key \ {s.key} : /\ mapArgs'[k] = mapArgs[k]
                                  /\ mapMultiArgs'[k] = mapMultiArgs[k]
      /\ mapArgs'[s.key] = IF mapArgs[s.key] = NoValue THEN s.value ELSE mapArgs[s.key]
      /\ mapMultiArgs'[s.key] = Append(mapMultiArgs[s.key], s.value)
  BY ReadLineEffect
<1> HIDE DEF s
<1> SUFFICES ASSUME NEW k \in Key \ {"datadir", "conf"}
             PROVE  mapArgs'[k] = IF mapMultiArgs'[k] = <<>> THEN NoValue
                                  ELSE Head(mapMultiArgs'[k])
  BY DEF HeadAgrees
<1>3. mapArgs[k] = IF mapMultiArgs[k] = <<>> THEN NoValue ELSE Head(mapMultiArgs[k])
  BY DEF HeadAgrees
<1>4. CASE k # s.key
  BY <1>2, <1>3, <1>4
<1>5. CASE k = s.key
  <2> DEFINE m == mapMultiArgs[k]
             v == s.value
  <2>1. m \in Seq(Value) /\ v \in Value /\ NoValue \notin Value
    BY <1>1, SettingsAssumption DEF SettingsTypeOK
  <2>2. mapMultiArgs'[k] = Append(m, v)
    BY <1>2, <1>5
  <2>3. mapArgs'[k] = IF mapArgs[k] = NoValue THEN v ELSE mapArgs[k]
    BY <1>2, <1>5
  <2>4. mapArgs[k] = IF m = <<>> THEN NoValue ELSE Head(m)
    BY <1>3
  <2> HIDE DEF m, v
  <2>5. Append(m, v) # <<>> /\ Append(m, v) \in Seq(Value)
    BY <2>1, AppendProperties, EmptySeq
  <2>6. CASE m = <<>>
    <3>1. Head(Append(m, v)) = v
      BY <2>1, <2>6
    <3> QED
      BY <2>2, <2>3, <2>4, <2>5, <2>6, <3>1
  <2>7. CASE m # <<>>
    <3>1. Head(Append(m, v)) = Head(m) /\ Head(m) \in Value
      BY <2>1, <2>7, HeadTailProperties, HeadTailAppend
    <3> QED
      BY <2>1, <2>2, <2>3, <2>4, <2>5, <2>7, <3>1
  <2> QED
    BY <2>6, <2>7
<1> QED
  BY <1>4, <1>5

\* A line read keeps the settings what the lines say.
LEMMA LineIsRecorded ==
  ASSUME TypeOK, Recorded, NEW line \in Line, ReadLine(line),
         Lines' = Append(Lines, line)
  PROVE  Recorded'
<1> DEFINE s == InterpretNegative(line)
<1>1. s.key \in Key /\ s.value \in Value /\ NoValue \notin Value
  BY LineType, SettingsAssumption
<1>2. /\ \A k \in Key \ {s.key} : mapArgs'[k] = mapArgs[k]
      /\ mapArgs'[s.key] = IF mapArgs[s.key] = NoValue THEN s.value ELSE mapArgs[s.key]
  BY ReadLineEffect DEF TypeOK
<1>3. \A k \in Key :
        /\ NoneGiven(Lines, k) /\ s.key # k => NoneGiven(Lines', k)
        /\ NoneGiven(Lines, k) /\ s.key = k => FirstGiven(Lines', k, s.value)
        /\ \A v : FirstGiven(Lines, k, v) => FirstGiven(Lines', k, v)
  BY OneMoreLine, FilesAreLines
<1> HIDE DEF s
<1> SUFFICES ASSUME NEW k \in Free
             PROVE  IF mapArgs'[k] = NoValue THEN NoneGiven(Lines', k)
                    ELSE FirstGiven(Lines', k, mapArgs'[k])
  BY DEF Recorded, NoneGiven, FirstGiven
<1>4. k \in Key
  BY DEF Free
<1>5. IF mapArgs[k] = NoValue THEN NoneGiven(Lines, k) ELSE FirstGiven(Lines, k, mapArgs[k])
  BY DEF Recorded
<1>6. CASE s.key = k
  BY <1>1, <1>2, <1>3, <1>4, <1>5, <1>6
<1>7. CASE s.key # k
  BY <1>2, <1>3, <1>4, <1>5, <1>7
<1> QED
  BY <1>6, <1>7

\* A step of main sets the program's own values, reads one line more, or
\* leaves the settings and what was read alone.
LEMMA SettingsStep ==
  ASSUME TypeOK, Phases, [Next]_vars
  PROVE  \/ Start
         \/ \E line \in Line : ReadLine(line) /\ Lines' = Append(Lines, line)
         \/ UNCHANGED <<settings, conf, file>>
<1>1. CASE ReadConf
  <2>1. PICK line \in ConfLine : ReadLine(line) /\ conf' = Append(conf, line)
    BY <1>1 DEF ReadConf
  <2>2. line \in Line /\ file = <<>> /\ file' = file
    BY <1>1, CoinToolAssumption DEF ReadConf, Phases
  <2> QED
    BY <2>1, <2>2, LinesGrow
<1>2. CASE ReadFileLine
  <2>1. PICK line \in FileLine : ReadLine(line) /\ file' = Append(file, line)
    BY <1>2 DEF ReadFileLine
  <2>2. line \in Line /\ conf' = conf
    BY <1>2, CoinToolAssumption DEF ReadFileLine
  <2> QED
    BY <2>1, <2>2, LinesGrow
<1>3. CASE RunSendAlert
  BY <1>3 DEF RunSendAlert, SendAlert, CreateAlert, NoNode, AddOneNode, Sign, CheckSignature,
              Relay, Report, FreeNode
<1> QED
  BY <1>1, <1>2, <1>3 DEF Next, InitSys, RunOther, OpenFails, CallSendAlert, Abort, Exit, Ended, vars

LEMMA AgreementKept ==
  ASSUME IInv, [Next]_vars
  PROVE  HeadAgrees'
<1>1. SettingsTypeOK /\ HeadAgrees /\ TypeOK /\ Phases
  BY DEF IInv, TypeOK
<1>2. CASE Start
  BY <1>1, <1>2 DEF Start, SetFilePath, HeadAgrees, SettingsTypeOK
<1>3. CASE \E line \in Line : ReadLine(line)
  BY <1>1, <1>3, LineKeepsAgreement
<1>4. CASE UNCHANGED <<settings, conf, file>>
  BY <1>1, <1>4 DEF settings, HeadAgrees
<1> QED
  BY <1>1, <1>2, <1>3, <1>4, SettingsStep

LEMMA RecordKept ==
  ASSUME IInv, [Next]_vars
  PROVE  Recorded'
<1>1. SettingsTypeOK /\ Recorded /\ TypeOK /\ Phases
  BY DEF IInv, TypeOK
<1>2. CASE Start
  <2>1. \A k \in Free : mapArgs'[k] = mapArgs[k]
    BY <1>1, <1>2 DEF Start, SetFilePath, SettingsTypeOK, Free
  <2>2. Lines' = Lines
    BY <1>2 DEF Start, Lines
  <2> QED
    BY <1>1, <2>1, <2>2 DEF Recorded, NoneGiven, FirstGiven
<1>3. CASE \E line \in Line : ReadLine(line) /\ Lines' = Append(Lines, line)
  BY <1>1, <1>3, LineIsRecorded
<1>4. CASE UNCHANGED <<settings, conf, file>>
  BY <1>1, <1>4 DEF settings, Recorded, Lines, NoneGiven, FirstGiven
<1> QED
  BY <1>1, <1>2, <1>3, <1>4, SettingsStep

LEMMA PhasesKept ==
  ASSUME IInv, [Next]_vars
  PROVE  Phases'
<1>1. Phases
  BY DEF IInv
<1>2. CASE RunSendAlert
  <2>1. pc = "sendalert" /\ pc' = pc
    BY <1>2 DEF RunSendAlert
  <2> QED
    BY <2>1 DEF Phases
<1>3. CASE UNCHANGED vars
  BY <1>1, <1>3 DEF vars, sender, Phases
<1>4. CASE Start \/ ReadConf \/ ReadFileLine
  BY <1>1, <1>4 DEF Start, ReadConf, ReadFileLine, sender, Phases
<1>5. CASE InitSys \/ RunOther \/ OpenFails \/ CallSendAlert \/ Abort \/ Exit
  BY <1>1, <1>5 DEF InitSys, RunOther, OpenFails, CallSendAlert, Abort, Exit, sender, Phases
<1> QED
  BY <1>2, <1>3, <1>4, <1>5 DEF Next, Ended

\* A setting that is a private key of a network is a value.
LEMMA SecretIsValue ==
  ASSUME NEW v, <<params, v>> \in Secret
  PROVE  v \in Value
  BY AlertAssumption

LEMMA DerivedKept ==
  ASSUME IInv, [Next]_vars
  PROVE  Derived'
<1>1. Derived /\ Phases
  BY DEF IInv
<1>2. CASE UNCHANGED <<settings, params, sender>>
  BY <1>1, <1>2 DEF Derived, AlertID, SetCancel, Has, settings, sender
<1>3. CASE spc = "idle" /\ UNCHANGED sender
  BY <1>1, <1>3 DEF Derived, sender
<1>4. CASE CallSendAlert
  <2>1. spc = "idle" /\ relayed' = relayed /\ spc' = "called"
    BY <1>1, <1>4 DEF CallSendAlert, Phases
  <2> QED
    BY <1>1, <2>1 DEF Derived
<1>5. CASE RunSendAlert
  <2>1. UNCHANGED settings /\ params' = params /\ SendAlert
    BY <1>5 DEF RunSendAlert, SendAlert, CreateAlert, NoNode, AddOneNode, Sign, CheckSignature,
                Relay, Report, FreeNode
  <2>2. SetCancel' = SetCancel /\ AlertID' = AlertID /\ mapArgs' = mapArgs
    BY <2>1 DEF SetCancel, AlertID, Has, settings
  <2>3. CASE CreateAlert
    BY <1>1, <2>2, <2>3 DEF CreateAlert, Derived
  <2>4. CASE NoNode
    BY <1>1, <2>2, <2>4 DEF NoNode, Derived
  <2>5. CASE AddOneNode
    BY <1>1, <2>1, <2>2, <2>5 DEF AddOneNode, Derived
  <2>6. CASE Sign
    BY <1>1, <2>1, <2>2, <2>6, SecretIsValue DEF Sign, Derived
  <2>7. CASE CheckSignature
    BY <1>1, <2>1, <2>2, <2>7 DEF CheckSignature, Authorized, Derived
  <2>8. CASE Relay
    BY <1>1, <2>1, <2>2, <2>8 DEF Relay, Derived
  <2>9. CASE Report
    BY <1>1, <2>1, <2>2, <2>9 DEF Report, Derived
  <2>10. CASE FreeNode
    BY <1>1, <2>1, <2>2, <2>10 DEF FreeNode, Derived
  <2> QED
    BY <2>1, <2>3, <2>4, <2>5, <2>6, <2>7, <2>8, <2>9, <2>10 DEF SendAlert
<1>6. CASE Start \/ ReadConf \/ InitSys \/ ReadFileLine
  <2>1. spc = "idle" /\ UNCHANGED sender
    BY <1>1, <1>6 DEF Start, ReadConf, InitSys, ReadFileLine, Phases
  <2> QED
    BY <1>3, <2>1
<1>7. CASE RunOther \/ OpenFails \/ Abort \/ Exit \/ Ended \/ UNCHANGED vars
  <2>1. UNCHANGED <<settings, params, sender>>
    BY <1>7 DEF RunOther, OpenFails, Abort, Exit, Ended, vars
  <2> QED
    BY <1>2, <2>1
<1> QED
  BY <1>4, <1>5, <1>6, <1>7 DEF Next

LEMMA NetworkKept ==
  ASSUME IInv, [Next]_vars
  PROVE  NetworkFromConf'
<1>1. TypeOK /\ Recorded /\ Phases /\ NetworkFromConf
  BY DEF IInv
<1>2. CASE conf' = conf /\ params' = params
  BY <1>1, <1>2 DEF NetworkFromConf, FirstGiven
<1>3. CASE ReadConf
  <2>1. params = NoValue /\ params' = params
    BY <1>1, <1>3 DEF ReadConf, Phases
  <2> QED
    BY <2>1 DEF NetworkFromConf
<1>4. CASE InitSys
  <2>1. Lines = conf /\ conf \in Seq(Line)
    BY <1>1, <1>4, FilesAreLines, ConcatEmptySeq DEF InitSys, Phases, Lines
  <2>2. "testnet" \in Free
    BY SettingsAssumption DEF Free
  <2> DEFINE yes == \E v \in Value : FirstGiven(conf, "testnet", v) /\ InterpretBool(v)
  <2>3. CASE mapArgs["testnet"] = NoValue
    <3>1. NoneGiven(conf, "testnet")
      BY <1>1, <2>1, <2>2, <2>3 DEF Recorded
    <3>2. ~yes
      BY <3>1 DEF NoneGiven, FirstGiven
    <3>3. SelectedNet = "main"
      BY <2>3 DEF SelectedNet, GetBoolArg, Has
    <3> QED
      BY <1>4, <3>2, <3>3 DEF InitSys, NetworkFromConf, FirstGiven
  <2>4. CASE mapArgs["testnet"] # NoValue
    <3> DEFINE w == mapArgs["testnet"]
    <3>1. FirstGiven(conf, "testnet", w)
      BY <1>1, <2>1, <2>2, <2>4 DEF Recorded
    <3>2. w \in Value
      BY <1>1, <2>2, <2>4 DEF TypeOK, SettingsTypeOK, Free
    <3>3. yes <=> InterpretBool(w)
      <4> HIDE DEF w
      <4> QED
        BY <2>1, <3>1, <3>2, OneFirst
    <3>4. SelectedNet = IF InterpretBool(w) THEN "test" ELSE "main"
      BY <2>4 DEF SelectedNet, GetBoolArg, Has
    <3>5. conf' = conf /\ params' = SelectedNet
      BY <1>4 DEF InitSys
    <3> HIDE DEF w
    <3> QED
      BY <3>3, <3>4, <3>5 DEF NetworkFromConf, FirstGiven
  <2> QED
    BY <2>3, <2>4
<1>5. CASE Start \/ RunOther \/ OpenFails \/ ReadFileLine \/ CallSendAlert \/ Abort \/ Exit \/ Ended
        \/ UNCHANGED vars
  <2>1. conf' = conf /\ params' = params
    BY <1>5 DEF Start, RunOther, OpenFails, ReadFileLine, CallSendAlert, Abort, Exit, Ended, vars
  <2> QED
    BY <1>2, <2>1
<1>6. CASE RunSendAlert
  <2>1. conf' = conf /\ params' = params
    BY <1>6 DEF RunSendAlert, SendAlert, CreateAlert, NoNode, AddOneNode, Sign, CheckSignature,
                Relay, Report, FreeNode
  <2> QED
    BY <1>2, <2>1
<1> QED
  BY <1>3, <1>4, <1>5, <1>6 DEF Next

LEMMA IInvNext == IInv /\ [Next]_vars => IInv'
<1> SUFFICES ASSUME IInv, [Next]_vars PROVE IInv'
  OBVIOUS
<1>1. TypeOK'
  BY TypesNext DEF IInv
<1> QED
  BY <1>1, AgreementKept, RecordKept, PhasesKept, DerivedKept, NetworkKept DEF IInv

LEMMA Invariance == Spec => []IInv
  BY IInvInit, IInvNext, PTL DEF Spec

-----------------------------------------------------------------------------
\* The two maps of the settings tell one story, however many lines either file
\* has: a setting has a value exactly when a file gave it one, and it is the
\* first.
THEOREM MapsAgree == Spec => []HeadAgrees
<1>1. IInv => HeadAgrees
  BY DEF IInv
<1> QED
  BY <1>1, Invariance, PTL

\* The network is what the first testnet or notestnet line of tool.conf says,
\* and no line of the alert file changes it.
THEOREM NetworkIsConfs == Spec => []NetworkFromConf
<1>1. IInv => NetworkFromConf
  BY DEF IInv
<1> QED
  BY <1>1, Invariance, PTL

\* No node hears of an alert that is not signed with the alert key of the
\* selected network, and the key is the first the files give.
THEOREM RelaysAreAuthorized == Spec => []OnlyAuthorizedRelay
<1>1. IInv => OnlyAuthorizedRelay
  <2> SUFFICES ASSUME IInv, relayed # <<>> PROVE OnlyAuthorizedRelay
    BY DEF OnlyAuthorizedRelay
  <2>1. /\ signer = AlertKey[params]
        /\ signer = mapArgs["privkey"] /\ signer \in Value
    BY DEF IInv, Derived
  <2>2. "privkey" \in Key \ {"datadir", "conf"} /\ NoValue \notin Value
    BY AlertAssumption, SettingsAssumption
  <2>3. mapArgs["privkey"] = IF mapMultiArgs["privkey"] = <<>> THEN NoValue
                             ELSE Head(mapMultiArgs["privkey"])
    BY <2>2 DEF IInv, HeadAgrees
  <2> QED
    BY <2>1, <2>2, <2>3 DEF OnlyAuthorizedRelay
<1> QED
  BY <1>1, Invariance, PTL

-----------------------------------------------------------------------------
\* The sockets of the nodes of vNodes from position a to position b.
Socks(a, b) == {vNodes[i].sock : i \in a .. b}

\* The sockets are numbered as they are created, and the nodes of vNodes, in
\* their order, hold some of them: all that are open until FreeNode starts,
\* then those it has not come to; the deleted ones are behind it.
Nodes ==
  /\ \A i \in DOMAIN vNodes : vNodes[i].sock \in 1 .. sockets
  /\ \A i, j \in DOMAIN vNodes : i < j => vNodes[i].sock < vNodes[j].sock
  /\ spc \in {"idle", "called"} => vNodes = <<>>
  /\ spc \in {"relay", "free"} => pos <= Len(vNodes) + 1
  /\ spc \notin {"free", "sent"} => freed = {} /\ opened = Socks(1, Len(vNodes))
  /\ spc = "free" => freed = Socks(1, pos - 1) /\ opened = Socks(pos, Len(vNodes))
  /\ spc = "sent" => vNodes = <<>> /\ opened = {}

\* The relays that succeeded: nodes the loop has passed, in their order, and
\* each is one success.
Relays ==
  /\ \A i, j \in DOMAIN relayed : i < j => relayed[i] < relayed[j]
  /\ spc \notin {"relay", "free", "sent"} => relayed = <<>>
  /\ spc = "relay" => ToSet(relayed) \subseteq Socks(1, pos - 1)
  /\ spc \in {"free", "sent"} => ToSet(relayed) \subseteq opened \cup freed
  /\ spc \notin {"free", "sent"} => report = NoReport
  /\ iSuccess = Len(relayed)

\* The inductive invariant of the nodes and the relays.
Fleet == TypeOK /\ Nodes /\ Relays /\ ReportExact

\* A node of vNodes.
LEMMA NodeType ==
  ASSUME TypeOK
  PROVE  /\ vNodes \in Seq([addr : Value, sock : Nat]) /\ Len(vNodes) \in Nat
         /\ DOMAIN vNodes = 1 .. Len(vNodes)
         /\ \A i \in 1 .. Len(vNodes) : vNodes[i].addr \in Value /\ vNodes[i].sock \in Nat
         /\ pos \in Nat \ {0} /\ sockets \in Nat
<1>1. vNodes \in Seq([addr : Value, sock : Nat])
  BY DEF TypeOK, SenderTypeOK
<1>2. \A i \in 1 .. Len(vNodes) : vNodes[i] \in [addr : Value, sock : Nat]
  BY <1>1, ElementOfSeq
<1> QED
  BY <1>1, <1>2, LenProperties DEF TypeOK, SenderTypeOK

\* A relay that succeeded was to a socket.
LEMMA RelayedType ==
  ASSUME TypeOK
  PROVE  /\ relayed \in Seq(Nat) /\ Len(relayed) \in Nat
         /\ DOMAIN relayed = 1 .. Len(relayed)
         /\ \A i \in 1 .. Len(relayed) : relayed[i] \in Nat
<1>1. relayed \in Seq(Nat)
  BY DEF TypeOK, SenderTypeOK
<1> QED
  BY <1>1, LenProperties, ElementOfSeq

\* As many different values as there are places.
LEMMA Counted ==
  ASSUME NEW n \in Nat, NEW f, f \in [1 .. n -> Nat],
         \A i, j \in 1 .. n : i < j => f[i] < f[j]
  PROVE  Cardinality({f[i] : i \in 1 .. n}) = n
<1> DEFINE S == {f[i] : i \in 1 .. n}
<1>1. \A i, j \in 1 .. n : i # j => f[i] # f[j]
  <2> SUFFICES ASSUME NEW i \in 1 .. n, NEW j \in 1 .. n, i # j PROVE f[i] # f[j]
    OBVIOUS
  <2>1. i < j \/ j < i
    OBVIOUS
  <2>2. f[i] \in Nat /\ f[j] \in Nat
    OBVIOUS
  <2> QED
    BY <2>1, <2>2
<1>2. f \in Bijection(1 .. n, S)
  BY <1>1 DEF Bijection, Injection, IsInjective, Surjection
<1>3. ExistsBijection(1 .. n, S)
  BY <1>2 DEF ExistsBijection
<1> QED
  BY <1>3, FS_CountingElements

LEMMA FleetInit == Init => Fleet
<1> SUFFICES ASSUME Init PROVE Fleet
  OBVIOUS
<1>1. TypeOK
  BY TypesInit
<1>2. Nodes
  <2>1. vNodes = <<>> /\ Len(vNodes) = 0 /\ opened = {} /\ freed = {} /\ spc = "idle"
    BY EmptySeq DEF Init, InitSender
  <2>2. Socks(1, Len(vNodes)) = {} /\ DOMAIN vNodes = {}
    BY <2>1 DEF Socks
  <2> QED
    BY <2>1, <2>2 DEF Nodes
<1>3. Relays /\ ReportExact
  BY EmptySeq DEF Init, InitSender, Relays, ReportExact
<1> QED
  BY <1>1, <1>2, <1>3 DEF Fleet

\* The steps that only say where SendAlert is, before its nodes are used.
LEMMA QuietSteps ==
  ASSUME Fleet, spc' # "idle", TypeOK',
         \/ spc = "idle" /\ spc' = "called"
         \/ spc = "called" /\ spc' \in {"connect", "failed"}
         \/ spc = "connect" /\ spc' \in {"nonode", "check", "failed"}
         \/ spc = "check" /\ spc' = "failed"
         \/ spc = "check" /\ spc' = "relay" /\ pos' = 1,
         UNCHANGED <<network, iSuccess, relayed, report>>
  PROVE  Nodes' /\ Relays' /\ ReportExact'
<1> USE DEF network
<1>1. Nodes /\ Relays /\ ReportExact
  BY DEF Fleet
<1>2. spc \notin {"relay", "free", "sent"} /\ spc' \notin {"idle", "free", "sent"}
  OBVIOUS
<1>3. relayed = <<>> /\ report = NoReport
  BY <1>1, <1>2 DEF Relays
<1>4. Nodes'
  <2>1. Len(vNodes) \in Nat
    BY NodeType DEF Fleet
  <2>2. spc' = "relay" => pos' <= Len(vNodes) + 1
    BY <2>1
  <2>3. spc' = "called" => vNodes = <<>>
    BY <1>1 DEF Nodes
  <2> QED
    BY <1>1, <1>2, <2>2, <2>3 DEF Nodes, Socks
<1>5. ToSet(relayed) = {}
  BY <1>3 DEF ToSet
<1> QED
  BY <1>1, <1>2, <1>3, <1>4, <1>5 DEF Relays, ReportExact, ToSet

\* A new node has the highest socket.
LEMMA AddKeepsFleet ==
  ASSUME Fleet, AddOneNode, TypeOK'
  PROVE  Nodes' /\ Relays' /\ ReportExact'
<1> DEFINE n == Len(vNodes)
<1>1. Nodes /\ Relays /\ ReportExact
  BY DEF Fleet
<1>2. /\ n \in Nat /\ DOMAIN vNodes = 1 .. n /\ sockets \in Nat
      /\ vNodes \in Seq([addr : Value, sock : Nat])
      /\ \A i \in 1 .. n : vNodes[i].sock \in Nat
  BY NodeType DEF Fleet
<1>3. /\ spc = "connect" /\ spc' = spc
      /\ UNCHANGED <<relayed, iSuccess, report, freed>>
  BY DEF AddOneNode, network
<1>4. Relays' /\ ReportExact'
  <2>1. relayed = <<>> /\ report = NoReport
    BY <1>1, <1>3 DEF Relays
  <2> QED
    BY <1>1, <1>3, <2>1 DEF Relays, ReportExact
<1>5. CASE vNodes' = vNodes /\ opened' = opened /\ sockets' \in {sockets, sockets + 1}
  <2>1. \A i \in DOMAIN vNodes : vNodes[i].sock \in 1 .. sockets'
    BY <1>1, <1>2, <1>5 DEF Nodes
  <2>2. opened' = {vNodes'[i].sock : i \in 1 .. Len(vNodes')} /\ freed' = {}
    BY <1>1, <1>3, <1>5 DEF Nodes, Socks
  <2>3. \A i, j \in DOMAIN vNodes' : i < j => vNodes'[i].sock < vNodes'[j].sock
    BY <1>1, <1>5 DEF Nodes
  <2> QED
    BY <1>3, <1>4, <1>5, <2>1, <2>2, <2>3 DEF Nodes, Socks
<1>6. CASE /\ sockets' = sockets + 1 /\ opened' = opened \cup {sockets + 1}
           /\ vNodes' = Append(vNodes, [addr |-> NodeAddress, sock |-> sockets + 1])
  <2> DEFINE new == [addr |-> NodeAddress, sock |-> sockets + 1]
  <2>1. vNodes' \in Seq([addr : Value, sock : Nat])
    BY DEF TypeOK, SenderTypeOK
  <2>2. Len(vNodes') = n + 1 /\ DOMAIN vNodes' = 1 .. n + 1
    BY <1>2, <1>6, <2>1, LenProperties
  <2>3. vNodes'[n + 1] = new /\ \A i \in 1 .. n : vNodes'[i] = vNodes[i]
    BY <1>2, <1>6
  <2>4. vNodes'[n + 1].sock = sockets' /\ \A i \in 1 .. n : vNodes'[i].sock = vNodes[i].sock
    BY <1>6, <2>3
  <2> HIDE DEF n, new
  <2>5. \A i \in 1 .. n + 1 : i \in 1 .. n \/ i = n + 1
    BY <1>2
  <2>6. \A i \in 1 .. n : vNodes[i].sock \in 1 .. sockets
    BY <1>1, <1>2 DEF Nodes
  <2>7. \A i \in DOMAIN vNodes' : vNodes'[i].sock \in 1 .. sockets'
    BY <1>2, <1>6, <2>2, <2>4, <2>5, <2>6
  <2>8. ASSUME NEW i \in DOMAIN vNodes', NEW j \in DOMAIN vNodes', i < j
        PROVE  vNodes'[i].sock < vNodes'[j].sock
    <3>1. i \in 1 .. n
      BY <1>2, <2>2, <2>5, <2>8
    <3>2. CASE j = n + 1
      BY <1>2, <1>6, <2>4, <2>6, <3>1, <3>2
    <3>3. CASE j \in 1 .. n
      BY <1>1, <1>2, <2>4, <2>8, <3>1, <3>3 DEF Nodes
    <3> QED
      BY <2>2, <2>5, <3>2, <3>3
  <2>9. opened' = {vNodes'[i].sock : i \in 1 .. Len(vNodes')}
    <3>1. opened = {vNodes[i].sock : i \in 1 .. n}
      BY <1>1, <1>3 DEF Nodes, Socks, n
    <3>2. \A x \in opened' : \E i \in 1 .. n + 1 : x = vNodes'[i].sock
      BY <1>2, <1>6, <2>4, <3>1
    <3>3. \A i \in 1 .. n + 1 : vNodes'[i].sock \in opened'
      BY <1>6, <2>4, <2>5, <3>1
    <3> QED
      BY <2>2, <3>2, <3>3
  <2>10. freed' = {}
    BY <1>1, <1>3 DEF Nodes
  <2>11. \A i, j \in DOMAIN vNodes' : i < j => vNodes'[i].sock < vNodes'[j].sock
    BY <2>8
  <2> QED
    BY <1>3, <1>4, <2>7, <2>9, <2>10, <2>11 DEF Nodes, Socks
<1>7. \/ vNodes' = vNodes /\ opened' = opened /\ sockets' \in {sockets, sockets + 1}
      \/ /\ sockets' = sockets + 1 /\ opened' = opened \cup {sockets + 1}
         /\ vNodes' = Append(vNodes, [addr |-> NodeAddress, sock |-> sockets + 1])
  BY DEF AddOneNode, Connected, network
<1> QED
  BY <1>5, <1>6, <1>7

\* The node the loop is at has not been told: its socket is higher than those
\* of the nodes that were.
LEMMA RelayKeepsFleet ==
  ASSUME Fleet, Relay, TypeOK'
  PROVE  Nodes' /\ Relays' /\ ReportExact'
<1> DEFINE m == Len(relayed)
           told == vNodes[pos].sock
<1>1. Nodes /\ Relays /\ TypeOK
  BY DEF Fleet
<1>2. /\ spc = "relay" /\ spc' = spc /\ pos' = pos + 1 /\ pos <= Len(vNodes)
      /\ UNCHANGED <<vNodes, opened, sockets, freed, report>>
      /\ \/ relayed' = Append(relayed, told) /\ iSuccess' = iSuccess + 1
         \/ relayed' = relayed /\ iSuccess' = iSuccess
  BY DEF Relay, AfterFailure, network
<1>3. /\ Len(vNodes) \in Nat /\ pos \in Nat \ {0} /\ DOMAIN vNodes = 1 .. Len(vNodes)
      /\ \A i \in 1 .. Len(vNodes) : vNodes[i].sock \in Nat
  BY <1>1, NodeType
<1>4. Nodes'
  <2>1. pos' <= Len(vNodes) + 1
    BY <1>2, <1>3
  <2> QED
    BY <1>1, <1>2, <2>1 DEF Nodes, Socks
<1>5. report' = NoReport
  BY <1>1, <1>2 DEF Relays
<1>6. /\ relayed \in Seq(Nat) /\ m \in Nat /\ DOMAIN relayed = 1 .. m
      /\ \A i \in 1 .. m : relayed[i] \in Nat
  BY <1>1, RelayedType
<1>7. \A i \in 1 .. m : \E h \in 1 .. pos - 1 : relayed[i] = vNodes[h].sock
  BY <1>1, <1>2, <1>6 DEF Relays, ToSet, Socks
<1>8. CASE relayed' = relayed /\ iSuccess' = iSuccess
  <2>1. ToSet(relayed) \subseteq {vNodes[i].sock : i \in 1 .. (pos + 1) - 1}
    <3>1. (pos + 1) - 1 = pos /\ \A h \in 1 .. pos - 1 : h \in 1 .. pos
      BY <1>3
    <3> QED
      BY <1>6, <1>7, <3>1 DEF ToSet
  <2> QED
    BY <1>1, <1>2, <1>4, <1>5, <1>8, <2>1 DEF Relays, ReportExact, Socks
<1>9. CASE relayed' = Append(relayed, told) /\ iSuccess' = iSuccess + 1
  <2>1. told \in Nat /\ pos \in 1 .. Len(vNodes)
    BY <1>2, <1>3
  <2>2. \A i \in 1 .. m : relayed[i] < told
    <3> SUFFICES ASSUME NEW i \in 1 .. m PROVE relayed[i] < told
      OBVIOUS
    <3>1. PICK h \in 1 .. pos - 1 : relayed[i] = vNodes[h].sock
      BY <1>7
    <3>2. h \in DOMAIN vNodes /\ pos \in DOMAIN vNodes /\ h < pos
      BY <1>3, <2>1
    <3> QED
      BY <1>1, <3>1, <3>2 DEF Nodes
  <2>3. /\ DOMAIN relayed' = 1 .. m + 1 /\ Len(relayed') = m + 1
        /\ relayed'[m + 1] = told /\ \A i \in 1 .. m : relayed'[i] = relayed[i]
    BY <1>6, <1>9, <2>1, AppendProperties
  <2> HIDE DEF m, told
  <2>4. \A i \in 1 .. m + 1 : i \in 1 .. m \/ i = m + 1
    BY <1>6
  <2>5. ASSUME NEW i \in DOMAIN relayed', NEW j \in DOMAIN relayed', i < j
        PROVE  relayed'[i] < relayed'[j]
    <3>1. i \in 1 .. m
      BY <1>6, <2>3, <2>4, <2>5
    <3>2. CASE j = m + 1
      BY <2>2, <2>3, <3>1, <3>2
    <3>3. CASE j \in 1 .. m
      BY <1>1, <1>6, <2>3, <2>5, <3>1, <3>3 DEF Relays
    <3> QED
      BY <2>3, <2>4, <3>2, <3>3
  <2>6. \A i \in 1 .. m + 1 : relayed'[i] \in {vNodes[h].sock : h \in 1 .. pos}
    <3>1. told \in {vNodes[h].sock : h \in 1 .. pos}
      BY <2>1 DEF told
    <3>2. \A i \in 1 .. m : relayed[i] \in {vNodes[h].sock : h \in 1 .. pos}
      BY <1>3, <1>7
    <3> QED
      BY <2>3, <2>4, <3>1, <3>2
  <2>7. ToSet(relayed') \subseteq {vNodes'[h].sock : h \in 1 .. pos' - 1}
    <3>1. pos' - 1 = pos
      BY <1>2, <1>3
    <3>2. ToSet(relayed') = {relayed'[i] : i \in 1 .. m + 1}
      BY <2>3 DEF ToSet
    <3>3. {vNodes'[h].sock : h \in 1 .. pos' - 1} = {vNodes[h].sock : h \in 1 .. pos}
      BY <1>2, <3>1
    <3> QED
      BY <2>6, <3>2, <3>3
  <2>8. iSuccess' = Len(relayed')
    BY <1>1, <1>9, <2>3 DEF Relays, m
  <2>9. Relays'
    BY <1>2, <1>5, <2>5, <2>7, <2>8 DEF Relays, Socks
  <2> QED
    BY <1>4, <1>5, <2>9 DEF ReportExact
<1> QED
  BY <1>2, <1>8, <1>9

\* The report is exact when it is made.
LEMMA ReportKeepsFleet ==
  ASSUME Fleet, Report, TypeOK'
  PROVE  Nodes' /\ Relays' /\ ReportExact'
<1> DEFINE n == Len(vNodes)
<1>1. Nodes /\ Relays /\ TypeOK
  BY DEF Fleet
<1>2. /\ spc = "relay" /\ spc' = "free" /\ pos' = 1 /\ pos > n
      /\ UNCHANGED <<vNodes, opened, sockets, freed, iSuccess, relayed>>
      /\ report' = [total |-> n, successes |-> iSuccess]
  BY DEF Report, network
<1>3. /\ n \in Nat /\ pos \in Nat \ {0} /\ DOMAIN vNodes = 1 .. n
      /\ \A i \in 1 .. n : vNodes[i].sock \in Nat
  BY <1>1, NodeType
<1>4. pos - 1 = n
  BY <1>1, <1>2, <1>3 DEF Nodes
<1>5. freed = {} /\ opened = {vNodes[i].sock : i \in 1 .. n}
  BY <1>1, <1>2 DEF Nodes, Socks
<1>6. Nodes'
  <2>1. 1 <= n + 1 /\ {vNodes[i].sock : i \in 1 .. 1 - 1} = {}
    BY <1>3
  <2> QED
    BY <1>1, <1>2, <1>5, <2>1 DEF Nodes, Socks
<1>7. ToSet(relayed) \subseteq opened \cup freed
  BY <1>1, <1>2, <1>4, <1>5 DEF Relays, Socks
<1>8. Relays'
  BY <1>1, <1>2, <1>7 DEF Relays
<1>9. Cardinality(opened \cup freed) = n
  <2> DEFINE f == [i \in 1 .. n |-> vNodes[i].sock]
  <2>1. f \in [1 .. n -> Nat] /\ \A i, j \in 1 .. n : i < j => f[i] < f[j]
    BY <1>1, <1>3 DEF Nodes
  <2>2. Cardinality({f[i] : i \in 1 .. n}) = n
    <3> HIDE DEF f, n
    <3> QED
      BY <1>3, <2>1, Counted
  <2>3. {f[i] : i \in 1 .. n} = opened \cup freed
    BY <1>5
  <2> QED
    BY <2>2, <2>3
<1>10. Cardinality(ToSet(relayed)) = iSuccess
  <2>1. /\ Len(relayed) \in Nat /\ DOMAIN relayed = 1 .. Len(relayed)
        /\ \A i \in 1 .. Len(relayed) : relayed[i] \in Nat
        /\ relayed \in [1 .. Len(relayed) -> Nat]
    BY <1>1, RelayedType, LenProperties
  <2>2. \A i, j \in 1 .. Len(relayed) : i < j => relayed[i] < relayed[j]
    BY <1>1, <2>1 DEF Relays
  <2>3. Cardinality({relayed[i] : i \in 1 .. Len(relayed)}) = Len(relayed)
    BY <2>1, <2>2, Counted
  <2>4. iSuccess = Len(relayed)
    BY <1>1 DEF Relays
  <2> QED
    BY <2>1, <2>3, <2>4 DEF ToSet
<1> QED
  BY <1>2, <1>6, <1>7, <1>8, <1>9, <1>10 DEF ReportExact

\* FreeNode moves the next socket from the open to the deleted ones.
LEMMA FreeKeepsFleet ==
  ASSUME Fleet, FreeNode, TypeOK'
  PROVE  Nodes' /\ Relays' /\ ReportExact'
<1> DEFINE n == Len(vNodes)
           gone == vNodes[pos].sock
<1>1. Nodes /\ Relays /\ TypeOK /\ ReportExact
  BY DEF Fleet
<1>2. spc = "free" /\ UNCHANGED <<sockets, iSuccess, relayed, report>>
  BY DEF FreeNode
<1>3. /\ n \in Nat /\ pos \in Nat \ {0} /\ DOMAIN vNodes = 1 .. n
      /\ \A i \in 1 .. n : vNodes[i].sock \in Nat
  BY <1>1, NodeType
<1>4. /\ freed = {vNodes[i].sock : i \in 1 .. pos - 1}
      /\ opened = {vNodes[i].sock : i \in pos .. n}
      /\ pos <= n + 1
  BY <1>1, <1>2 DEF Nodes, Socks
<1>5. CASE pos <= n
  <2>1. /\ opened' = opened \ {gone} /\ freed' = freed \cup {gone}
        /\ pos' = pos + 1 /\ spc' = spc /\ vNodes' = vNodes
    BY <1>5 DEF FreeNode, CloseSocket
  <2>2. pos \in 1 .. n
    BY <1>3, <1>5
  <2>3. gone \in opened
    BY <1>3, <1>4, <1>5, <2>2
  <2>4. opened' \cup freed' = opened \cup freed
    BY <2>1, <2>3
  <2>5. \A i \in 1 .. n : i # pos => vNodes[i].sock # gone
    <3> SUFFICES ASSUME NEW i \in 1 .. n, i # pos PROVE vNodes[i].sock # gone
      OBVIOUS
    <3>1. i < pos \/ pos < i
      BY <2>2
    <3>2. i \in DOMAIN vNodes /\ pos \in DOMAIN vNodes /\ vNodes[i].sock \in Nat /\ gone \in Nat
      BY <1>3, <2>2
    <3>3. vNodes[i].sock < gone \/ gone < vNodes[i].sock
      BY <1>1, <3>1, <3>2 DEF Nodes
    <3> QED
      BY <3>2, <3>3
  <2>6. opened' = {vNodes[i].sock : i \in pos + 1 .. n}
    <3>1. \A i \in pos .. n : i = pos \/ i \in pos + 1 .. n
      BY <2>2
    <3>2. \A i \in pos + 1 .. n : i \in pos .. n /\ i \in 1 .. n /\ i # pos
      BY <1>3
    <3> HIDE DEF gone
    <3>3. \A x \in opened' : \E i \in pos + 1 .. n : x = vNodes[i].sock
      BY <1>4, <2>1, <3>1 DEF gone
    <3>4. \A i \in pos + 1 .. n : vNodes[i].sock \in opened'
      BY <1>4, <2>1, <2>5, <3>2
    <3> QED
      BY <3>3, <3>4
  <2>7. freed' = {vNodes[i].sock : i \in 1 .. (pos + 1) - 1}
    <3>1. (pos + 1) - 1 = pos
      BY <1>3
    <3>2. \A i \in 1 .. pos : i = pos \/ i \in 1 .. pos - 1
      BY <1>3
    <3>3. \A i \in 1 .. pos - 1 : i \in 1 .. pos
      BY <1>3
    <3>4. pos \in 1 .. pos
      BY <1>3
    <3> QED
      BY <1>4, <2>1, <3>1, <3>2, <3>3, <3>4
  <2>8. pos' <= n + 1
    BY <1>3, <1>5, <2>1
  <2>9. Nodes'
    BY <1>1, <1>2, <2>1, <2>6, <2>7, <2>8 DEF Nodes, Socks
  <2>10. Relays'
    BY <1>1, <1>2, <2>1, <2>4 DEF Relays
  <2>11. ReportExact'
    BY <1>1, <1>2, <2>4 DEF ReportExact
  <2> QED
    BY <2>9, <2>10, <2>11
<1>6. CASE ~(pos <= n)
  <2>1. vNodes' = <<>> /\ spc' = "sent" /\ UNCHANGED <<opened, freed, pos>>
    BY <1>6 DEF FreeNode
  <2>2. opened = {}
    BY <1>3, <1>4, <1>6
  <2>3. Nodes'
    BY <2>1, <2>2 DEF Nodes
  <2>4. Relays' /\ ReportExact'
    BY <1>1, <1>2, <2>1 DEF Relays, ReportExact
  <2> QED
    BY <2>3, <2>4
<1> QED
  BY <1>5, <1>6

LEMMA FleetNext ==
  ASSUME Fleet, Phases, [Next]_vars
  PROVE  Fleet'
<1>1. TypeOK'
  BY TypesNext DEF Fleet
<1> SUFFICES Nodes' /\ Relays' /\ ReportExact'
  BY <1>1 DEF Fleet
<1>2. CASE RunSendAlert
  <2>1. SendAlert
    BY <1>2 DEF RunSendAlert
  <2>2. CASE CreateAlert \/ NoNode \/ Sign
    <3>1. /\ \/ spc = "called" /\ spc' \in {"connect", "failed"}
             \/ spc = "connect" /\ spc' \in {"nonode", "check", "failed"}
          /\ UNCHANGED <<network, iSuccess, relayed, report>>
      BY <2>2 DEF CreateAlert, NoNode, Sign
    <3> QED
      BY <1>1, <3>1, QuietSteps
  <2>3. CASE CheckSignature
    <3>1. /\ spc = "check" /\ spc' \in {"relay", "failed"} /\ pos' = 1
          /\ UNCHANGED <<network, iSuccess, relayed, report>>
      BY <2>3 DEF CheckSignature
    <3> QED
      BY <1>1, <3>1, QuietSteps
  <2> QED
    BY <1>1, <2>1, <2>2, <2>3, AddKeepsFleet, RelayKeepsFleet, ReportKeepsFleet, FreeKeepsFleet
       DEF SendAlert
<1>3. CASE CallSendAlert
  <2>1. spc = "idle" /\ spc' = "called" /\ UNCHANGED <<network, iSuccess, relayed, report>>
    BY <1>3 DEF CallSendAlert, Phases
  <2> QED
    BY <1>1, <2>1, QuietSteps
<1>4. CASE UNCHANGED sender
  BY <1>4 DEF sender, Fleet, Nodes, Relays, ReportExact, Socks
<1>5. CASE Start \/ ReadConf \/ InitSys \/ RunOther \/ OpenFails \/ ReadFileLine \/ Abort \/ Exit
        \/ Ended \/ UNCHANGED vars
  <2>1. UNCHANGED sender
    BY <1>5 DEF Start, ReadConf, InitSys, RunOther, OpenFails, ReadFileLine, Abort, Exit, Ended, vars
  <2> QED
    BY <1>4, <2>1
<1> QED
  BY <1>2, <1>3, <1>5 DEF Next

LEMMA FleetInvariance == Spec => [](IInv /\ Fleet)
<1>1. Init => IInv /\ Fleet
  BY IInvInit, FleetInit
<1>2. IInv /\ Fleet /\ [Next]_vars => (IInv /\ Fleet)'
  BY IInvNext, FleetNext DEF IInv
<1> QED
  BY <1>1, <1>2, PTL DEF Spec

-----------------------------------------------------------------------------
\* However many nodes the files name: while vNodes is in use its nodes are
\* alive and their sockets open, and none is told twice.
THEOREM NodesStayUsable == Spec => []NodesUsable
<1>1. Fleet => NodesUsable
  <2> SUFFICES ASSUME Fleet, spc \in {"connect", "check", "relay"}
               PROVE  /\ \A i, j \in DOMAIN vNodes : i # j => vNodes[i].sock # vNodes[j].sock
                      /\ \A i \in DOMAIN vNodes : vNodes[i].sock \in opened \ freed
                      /\ \A i, j \in DOMAIN relayed : i # j => relayed[i] # relayed[j]
    BY DEF NodesUsable
  <2>1. /\ DOMAIN vNodes = 1 .. Len(vNodes)
        /\ \A i \in DOMAIN vNodes : i \in Nat /\ vNodes[i].sock \in Nat
    BY NodeType DEF Fleet
  <2>2. \A i \in DOMAIN relayed : i \in Nat /\ relayed[i] \in Nat
    BY RelayedType DEF Fleet
  <2>3. /\ \A i, j \in DOMAIN vNodes : i < j => vNodes[i].sock < vNodes[j].sock
        /\ \A i, j \in DOMAIN relayed : i < j => relayed[i] < relayed[j]
    BY DEF Fleet, Nodes, Relays
  <2>4. \A i, j \in DOMAIN vNodes : i # j => vNodes[i].sock # vNodes[j].sock
    <3> SUFFICES ASSUME NEW i \in DOMAIN vNodes, NEW j \in DOMAIN vNodes, i # j
                 PROVE  vNodes[i].sock # vNodes[j].sock
      OBVIOUS
    <3>1. i < j \/ j < i
      BY <2>1
    <3>2. vNodes[i].sock < vNodes[j].sock \/ vNodes[j].sock < vNodes[i].sock
      BY <2>3, <3>1
    <3>3. vNodes[i].sock \in Nat /\ vNodes[j].sock \in Nat
      BY <2>1
    <3> QED
      BY <3>2, <3>3
  <2>5. \A i, j \in DOMAIN relayed : i # j => relayed[i] # relayed[j]
    <3> SUFFICES ASSUME NEW i \in DOMAIN relayed, NEW j \in DOMAIN relayed, i # j
                 PROVE  relayed[i] # relayed[j]
      OBVIOUS
    <3>1. i < j \/ j < i
      BY <2>2
    <3> QED
      BY <2>2, <2>3, <3>1
  <2>6. \A i \in DOMAIN vNodes : vNodes[i].sock \in opened \ freed
    BY <2>1 DEF Fleet, Nodes, Socks
  <2> QED
    BY <2>4, <2>5, <2>6
<1> QED
  BY <1>1, FleetInvariance, PTL

\* The closing line counts the nodes that were connected and those of them that
\* were told, however many they are.
THEOREM ReportsAreExact == Spec => []ReportExact
<1>1. Fleet => ReportExact
  BY DEF Fleet
<1> QED
  BY <1>1, FleetInvariance, PTL

\* No socket is left open after a report, and no deleted node has an open one.
THEOREM NoSocketLeaks == Spec => []NothingLeaks
<1>1. Fleet => NothingLeaks
  <2> SUFFICES ASSUME Fleet PROVE NothingLeaks
    OBVIOUS
  <2>1. Nodes /\ DOMAIN vNodes = 1 .. Len(vNodes) /\ pos \in Nat \ {0} /\ Len(vNodes) \in Nat
    BY NodeType DEF Fleet
  <2>2. opened \cap freed = {}
    <3>1. CASE spc = "free"
      <4> SUFFICES ASSUME NEW x \in opened \cap freed PROVE FALSE
        OBVIOUS
      <4>1. PICK i \in pos .. Len(vNodes) : x = vNodes[i].sock
        BY <2>1, <3>1 DEF Nodes, Socks
      <4>2. PICK j \in 1 .. pos - 1 : x = vNodes[j].sock
        BY <2>1, <3>1 DEF Nodes, Socks
      <4>3. i \in DOMAIN vNodes /\ j \in DOMAIN vNodes /\ j < i
        BY <2>1
      <4>4. x < x /\ x \in Nat
        BY <2>1, <4>1, <4>2, <4>3, NodeType DEF Nodes, Fleet
      <4> QED
        BY <4>4
    <3>2. CASE spc # "free"
      BY <2>1, <3>2 DEF Nodes
    <3> QED
      BY <3>1, <3>2
  <2>3. spc = "sent" => opened = {} /\ vNodes = <<>>
    BY <2>1 DEF Nodes
  <2>4. spc # "free" => opened = {vNodes[i].sock : i \in DOMAIN vNodes}
    <3>1. CASE spc = "sent"
      BY <2>3, <3>1
    <3>2. CASE spc \notin {"free", "sent"}
      BY <2>1, <3>2 DEF Nodes, Socks
    <3> QED
      BY <3>1, <3>2
  <2> QED
    BY <2>2, <2>3, <2>4 DEF NothingLeaks
<1> QED
  BY <1>1, FleetInvariance, PTL

-----------------------------------------------------------------------------
\* g leads from the values in m to the lines that gave them to k, in order:
\* each value has its line, and each line about k its value.
Places(lines, k, m, g) ==
  /\ g \in [DOMAIN m -> DOMAIN lines]
  /\ \A i \in DOMAIN m : Gives(lines, g[i], k) /\ Given(lines, g[i]) = m[i]
  /\ \A i, j \in DOMAIN m : i < j => g[i] < g[j]
  /\ \A h \in DOMAIN lines : Gives(lines, h, k) => \E i \in DOMAIN m : g[i] = h

\* What a setting was given is what the lines read so far give it, in order.
Listed == \A k \in Key : \E g : Places(Lines, k, mapMultiArgs[k], g)

\* The nodes were made of values of addnode, in order, and the loop that makes
\* them is behind the last.
Picked ==
  \E h \in [DOMAIN vNodes -> DOMAIN mapMultiArgs["addnode"]] :
    /\ \A i \in DOMAIN vNodes : vNodes[i].addr = mapMultiArgs["addnode"][h[i]]
    /\ \A i, j \in DOMAIN vNodes : i < j => h[i] < h[j]
    /\ spc = "connect" => \A i \in DOMAIN vNodes : h[i] < pos

\* A line about another setting moves nothing.
LEMMA PlacesKept ==
  ASSUME NEW lines \in Seq(Line), NEW line \in Line, NEW k, NEW m \in Seq(Value), NEW g,
         Places(lines, k, m, g), InterpretNegative(line).key # k
  PROVE  Places(Append(lines, line), k, m, g)
<1> DEFINE more == Append(lines, line)
           n == Len(lines)
<1>1. /\ n \in Nat /\ DOMAIN lines = 1 .. n /\ DOMAIN more = 1 .. n + 1
      /\ \A i \in 1 .. n : more[i] = lines[i]
      /\ more[n + 1] = line
  BY AppendProperties, LenProperties
<1>2. /\ \A i \in 1 .. n : /\ Gives(more, i, k) <=> Gives(lines, i, k)
                           /\ Given(more, i) = Given(lines, i)
      /\ ~Gives(more, n + 1, k)
  BY <1>1 DEF Gives, Given
<1>3. /\ g \in [DOMAIN m -> 1 .. n]
      /\ \A i \in DOMAIN m : Gives(lines, g[i], k) /\ Given(lines, g[i]) = m[i]
      /\ \A i, j \in DOMAIN m : i < j => g[i] < g[j]
      /\ \A h \in 1 .. n : Gives(lines, h, k) => \E i \in DOMAIN m : g[i] = h
  BY <1>1 DEF Places
<1> HIDE DEF more, n
<1>4. g \in [DOMAIN m -> 1 .. n + 1] /\ \A i \in DOMAIN m : g[i] \in 1 .. n
  <2>1. 1 .. n \subseteq 1 .. n + 1
    BY <1>1
  <2> QED
    BY <1>3, <2>1
<1>5. \A h \in 1 .. n + 1 : h \in 1 .. n \/ h = n + 1
  BY <1>1
<1>6. \A h \in DOMAIN more : Gives(more, h, k) => \E i \in DOMAIN m : g[i] = h
  BY <1>1, <1>2, <1>3, <1>5
<1>7. Places(more, k, m, g)
  BY <1>1, <1>2, <1>3, <1>4, <1>6 DEF Places
<1> QED
  BY <1>7 DEF more

\* A line about this one adds a value at the end.
LEMMA PlacesGrow ==
  ASSUME NEW lines \in Seq(Line), NEW line \in Line, NEW k, NEW m \in Seq(Value), NEW g,
         Places(lines, k, m, g), InterpretNegative(line).key = k
  PROVE  \E f : Places(Append(lines, line), k, Append(m, InterpretNegative(line).value), f)
<1> DEFINE more == Append(lines, line)
           n == Len(lines)
           v == InterpretNegative(line).value
           values == Append(m, v)
           q == Len(m)
           f == [i \in 1 .. q + 1 |-> IF i = q + 1 THEN n + 1 ELSE g[i]]
<1>1. /\ n \in Nat /\ DOMAIN lines = 1 .. n /\ DOMAIN more = 1 .. n + 1
      /\ \A i \in 1 .. n : more[i] = lines[i]
      /\ more[n + 1] = line
  BY AppendProperties, LenProperties
<1>2. /\ \A i \in 1 .. n : /\ Gives(more, i, k) <=> Gives(lines, i, k)
                           /\ Given(more, i) = Given(lines, i)
      /\ Gives(more, n + 1, k) /\ Given(more, n + 1) = v
  BY <1>1 DEF Gives, Given
<1>3. /\ q \in Nat /\ DOMAIN m = 1 .. q /\ DOMAIN values = 1 .. q + 1
      /\ \A i \in 1 .. q : values[i] = m[i]
      /\ values[q + 1] = v
  <2>1. v \in Value
    BY LineType
  <2> HIDE DEF v
  <2> QED
    BY <2>1, AppendProperties, LenProperties
<1>4. /\ g \in [1 .. q -> 1 .. n]
      /\ \A i \in 1 .. q : Gives(lines, g[i], k) /\ Given(lines, g[i]) = m[i]
      /\ \A i, j \in 1 .. q : i < j => g[i] < g[j]
      /\ \A h \in 1 .. n : Gives(lines, h, k) => \E i \in 1 .. q : g[i] = h
  BY <1>1, <1>3 DEF Places
<1> HIDE DEF more, n, values, q, v
<1>5. \A i \in 1 .. q + 1 : i \in 1 .. q \/ i = q + 1
  BY <1>3
<1>6. /\ f[q + 1] = n + 1
      /\ \A i \in 1 .. q : f[i] = g[i] /\ g[i] \in 1 .. n
  <2>1. q + 1 \in 1 .. q + 1 /\ \A i \in 1 .. q : i \in 1 .. q + 1 /\ i # q + 1
    BY <1>3
  <2> QED
    BY <1>4, <2>1
<1>7. f \in [1 .. q + 1 -> 1 .. n + 1]
  <2>1. \A i \in 1 .. q + 1 : (IF i = q + 1 THEN n + 1 ELSE g[i]) \in 1 .. n + 1
    BY <1>1, <1>4, <1>5
  <2> QED
    BY <2>1
<1>8. \A i \in 1 .. q + 1 : Gives(more, f[i], k) /\ Given(more, f[i]) = values[i]
  <2> HIDE DEF f
  <2> SUFFICES ASSUME NEW i \in 1 .. q + 1
               PROVE  Gives(more, f[i], k) /\ Given(more, f[i]) = values[i]
    OBVIOUS
  <2>1. CASE i = q + 1
    BY <1>2, <1>3, <1>6, <2>1
  <2>2. CASE i \in 1 .. q
    BY <1>2, <1>3, <1>4, <1>6, <2>2
  <2> QED
    BY <1>5, <2>1, <2>2
<1>9. \A i, j \in 1 .. q + 1 : i < j => f[i] < f[j]
  <2> HIDE DEF f
  <2> SUFFICES ASSUME NEW i \in 1 .. q + 1, NEW j \in 1 .. q + 1, i < j PROVE f[i] < f[j]
    OBVIOUS
  <2>1. i \in 1 .. q
    BY <1>3
  <2>2. CASE j = q + 1
    BY <1>1, <1>6, <2>1, <2>2
  <2>3. CASE j \in 1 .. q
    BY <1>4, <1>6, <2>1, <2>3
  <2> QED
    BY <1>5, <2>2, <2>3
<1>10. \A h \in 1 .. n + 1 : Gives(more, h, k) => \E i \in 1 .. q + 1 : f[i] = h
  <2> HIDE DEF f
  <2> SUFFICES ASSUME NEW h \in 1 .. n + 1, Gives(more, h, k)
               PROVE  \E i \in 1 .. q + 1 : f[i] = h
    OBVIOUS
  <2>1. CASE h = n + 1
    <3>1. q + 1 \in 1 .. q + 1
      BY <1>3
    <3> QED
      BY <1>6, <2>1, <3>1
  <2>2. CASE h \in 1 .. n
    <3>1. PICK i \in 1 .. q : g[i] = h
      BY <1>2, <1>4, <2>2
    <3>2. i \in 1 .. q + 1
      BY <1>3
    <3> QED
      BY <1>6, <3>1, <3>2
  <2> QED
    BY <1>1, <2>1, <2>2
<1> HIDE DEF f
<1>11. Places(more, k, values, f)
  BY <1>1, <1>3, <1>7, <1>8, <1>9, <1>10 DEF Places
<1> QED
  BY <1>11 DEF more, values, v

LEMMA ListedInit == Init => Listed
<1> SUFFICES ASSUME Init, NEW k \in Key PROVE \E g : Places(Lines, k, mapMultiArgs[k], g)
  BY DEF Listed
<1>1. Lines = <<>> /\ mapMultiArgs[k] = <<>>
  BY EmptySeq, ConcatEmptySeq DEF Lines, Init, InitSettings
<1>2. Places(<<>>, k, <<>>, <<>>)
  BY DEF Places
<1> QED
  BY <1>1, <1>2

LEMMA ListedKept ==
  ASSUME IInv, Listed, [Next]_vars
  PROVE  Listed'
<1>1. TypeOK /\ Phases /\ SettingsTypeOK
  BY DEF IInv, TypeOK
<1>2. CASE UNCHANGED <<mapMultiArgs, conf, file>>
  BY <1>2 DEF Listed, Places, Lines, Gives, Given
<1>3. CASE Start
  BY <1>2, <1>3 DEF Start, SetFilePath
<1>4. CASE \E line \in Line : ReadLine(line) /\ Lines' = Append(Lines, line)
  <2>1. PICK line \in Line : ReadLine(line) /\ Lines' = Append(Lines, line)
    BY <1>4
  <2> DEFINE s == InterpretNegative(line)
  <2> SUFFICES ASSUME NEW k \in Key PROVE \E g : Places(Lines', k, mapMultiArgs'[k], g)
    BY DEF Listed, Places, Gives, Given
  <2>2. Lines \in Seq(Line) /\ mapMultiArgs[k] \in Seq(Value)
    BY <1>1, FilesAreLines DEF SettingsTypeOK
  <2>3. PICK g : Places(Lines, k, mapMultiArgs[k], g)
    BY DEF Listed
  <2>4. CASE s.key # k
    <3>1. mapMultiArgs'[k] = mapMultiArgs[k]
      BY <1>1, <2>1, <2>4, ReadLineEffect
    <3> QED
      BY <2>1, <2>2, <2>3, <2>4, <3>1, PlacesKept
  <2>5. CASE s.key = k
    <3>1. mapMultiArgs'[k] = Append(mapMultiArgs[k], s.value)
      BY <1>1, <2>1, <2>5, ReadLineEffect
    <3> QED
      BY <2>1, <2>2, <2>3, <2>5, <3>1, PlacesGrow
  <2> QED
    BY <2>4, <2>5
<1>5. CASE UNCHANGED <<settings, conf, file>>
  BY <1>2, <1>5 DEF settings
<1> QED
  BY <1>1, <1>3, <1>4, <1>5, SettingsStep

\* Nothing was picked for no node.
LEMMA NonePicked == vNodes = <<>> => Picked
<1> SUFFICES ASSUME vNodes = <<>> PROVE Picked
  OBVIOUS
<1>1. DOMAIN vNodes = {}
  OBVIOUS
<1>2. <<>> \in [DOMAIN vNodes -> DOMAIN mapMultiArgs["addnode"]]
  BY <1>1
<1> QED
  BY <1>1, <1>2 DEF Picked

\* A new node is picked at the position of the loop.
LEMMA PickedAdd ==
  ASSUME TypeOK, Picked, AddOneNode
  PROVE  Picked'
<1> DEFINE a == mapMultiArgs["addnode"]
           n == Len(vNodes)
<1>1. /\ n \in Nat /\ DOMAIN vNodes = 1 .. n /\ pos \in Nat \ {0}
      /\ vNodes \in Seq([addr : Value, sock : Nat])
  BY NodeType
<1>2. spc = "connect" /\ spc' = spc /\ pos' = pos + 1 /\ mapMultiArgs' = mapMultiArgs /\ pos <= Len(a)
  BY DEF AddOneNode, settings
<1>3. a \in Seq(Value)
  BY AlertAssumption DEF TypeOK, SettingsTypeOK
<1>4. DOMAIN a = 1 .. Len(a) /\ pos \in DOMAIN a /\ Len(a) \in Nat
  BY <1>1, <1>2, <1>3, LenProperties
<1>5. PICK h \in [1 .. n -> DOMAIN a] :
        /\ \A i \in 1 .. n : vNodes[i].addr = a[h[i]]
        /\ \A i, j \in 1 .. n : i < j => h[i] < h[j]
        /\ \A i \in 1 .. n : h[i] < pos
  BY <1>1, <1>2 DEF Picked
<1>6. \A i \in 1 .. n : h[i] \in Nat /\ h[i] < pos + 1
  BY <1>1, <1>4, <1>5
<1>7. CASE vNodes' = vNodes
  BY <1>1, <1>2, <1>5, <1>6, <1>7 DEF Picked
<1>8. CASE vNodes' = Append(vNodes, [addr |-> a[pos], sock |-> sockets + 1])
  <2> DEFINE f == [i \in 1 .. n + 1 |-> IF i = n + 1 THEN pos ELSE h[i]]
  <2>1. a[pos] \in Value
    BY <1>3, <1>4, ElementOfSeq
  <2>2. /\ DOMAIN vNodes' = 1 .. n + 1
        /\ \A i \in 1 .. n : vNodes'[i] = vNodes[i]
        /\ vNodes'[n + 1].addr = a[pos]
    <3>1. [addr |-> a[pos], sock |-> sockets + 1] \in [addr : Value, sock : Nat]
      BY <2>1, NodeType
    <3> HIDE DEF n, a
    <3>2. /\ DOMAIN vNodes' = 1 .. n + 1
          /\ \A i \in 1 .. n : vNodes'[i] = vNodes[i]
          /\ vNodes'[n + 1] = [addr |-> a[pos], sock |-> sockets + 1]
      <4> DEFINE node == [addr |-> a[pos], sock |-> sockets + 1]
                 S == [addr : Value, sock : Nat]
      <4>1. vNodes \in Seq(S) /\ node \in S /\ vNodes' = Append(vNodes, node)
        BY <1>1, <1>8, <3>1
      <4> HIDE DEF node, S
      <4>2. /\ DOMAIN vNodes' = 1 .. n + 1
            /\ \A i \in 1 .. n : vNodes'[i] = vNodes[i]
            /\ vNodes'[n + 1] = node
        BY <1>1, <4>1, AppendProperties, LenProperties DEF n
      <4> QED
        BY <4>2 DEF node
    <3> QED
      BY <3>2
  <2> HIDE DEF n, a
  <2>3. \A i \in 1 .. n + 1 : i \in 1 .. n \/ i = n + 1
    BY <1>1
  <2>4. f[n + 1] = pos /\ \A i \in 1 .. n : f[i] = h[i]
    <3>1. n + 1 \in 1 .. n + 1 /\ \A i \in 1 .. n : i \in 1 .. n + 1 /\ i # n + 1
      BY <1>1
    <3> QED
      BY <3>1
  <2>5. f \in [1 .. n + 1 -> DOMAIN a]
    BY <1>4, <1>5, <2>3
  <2> HIDE DEF f
  <2>6. \A i \in 1 .. n + 1 : vNodes'[i].addr = a[f[i]]
    BY <1>5, <2>2, <2>3, <2>4
  <2>7. \A i \in 1 .. n + 1 : f[i] < pos + 1
    BY <1>1, <1>6, <2>3, <2>4
  <2>8. \A i, j \in 1 .. n + 1 : i < j => f[i] < f[j]
    <3> SUFFICES ASSUME NEW i \in 1 .. n + 1, NEW j \in 1 .. n + 1, i < j PROVE f[i] < f[j]
      OBVIOUS
    <3>1. i \in 1 .. n
      BY <1>1
    <3>2. CASE j = n + 1
      BY <1>5, <2>4, <3>1, <3>2
    <3>3. CASE j \in 1 .. n
      BY <1>5, <2>4, <3>1, <3>3
    <3> QED
      BY <2>3, <3>2, <3>3
  <2> QED
    BY <1>2, <2>2, <2>5, <2>6, <2>7, <2>8 DEF Picked, a
<1>9. \/ vNodes' = vNodes
      \/ vNodes' = Append(vNodes, [addr |-> a[pos], sock |-> sockets + 1])
  BY DEF AddOneNode, NodeAddress, network
<1> QED
  BY <1>7, <1>8, <1>9

LEMMA PickedKept ==
  ASSUME IInv, Fleet, Picked, [Next]_vars
  PROVE  Picked'
<1>1. TypeOK /\ Phases /\ Nodes
  BY DEF IInv, Fleet
<1>2. CASE vNodes' = <<>>
  <2>1. DOMAIN vNodes' = {}
    BY <1>2
  <2>2. <<>> \in [DOMAIN vNodes' -> DOMAIN mapMultiArgs'["addnode"]]
    BY <2>1
  <2> QED
    BY <2>1, <2>2 DEF Picked
<1>3. CASE vNodes' = vNodes /\ mapMultiArgs' = mapMultiArgs /\ spc' # "connect"
  BY <1>3 DEF Picked
<1>4. CASE spc = "idle" /\ UNCHANGED vNodes
  BY <1>1, <1>2, <1>4 DEF Nodes
<1>5. CASE RunSendAlert
  <2>1. CASE CreateAlert
    BY <1>1, <1>2, <2>1 DEF CreateAlert, Nodes, network
  <2>2. CASE AddOneNode
    BY <1>1, <2>2, PickedAdd
  <2>3. CASE FreeNode
    <3>1. vNodes' = <<>> \/ vNodes' = vNodes
      BY <2>3 DEF FreeNode
    <3>2. mapMultiArgs' = mapMultiArgs /\ spc' # "connect"
      BY <2>3 DEF FreeNode, settings
    <3> QED
      BY <1>2, <1>3, <3>1, <3>2
  <2>4. CASE NoNode \/ Sign \/ CheckSignature \/ Relay \/ Report
    <3>1. vNodes' = vNodes /\ mapMultiArgs' = mapMultiArgs /\ spc' # "connect"
      BY <2>4 DEF NoNode, Sign, CheckSignature, Relay, Report, network, settings
    <3> QED
      BY <1>3, <3>1
  <2> QED
    BY <1>5, <2>1, <2>2, <2>3, <2>4 DEF RunSendAlert, SendAlert
<1>6. CASE Start \/ ReadConf \/ InitSys \/ ReadFileLine
  <2>1. spc = "idle" /\ UNCHANGED vNodes
    BY <1>1, <1>6 DEF Start, ReadConf, InitSys, ReadFileLine, Phases, sender
  <2> QED
    BY <1>4, <2>1
<1>7. CASE CallSendAlert
  <2>1. spc = "idle" /\ UNCHANGED vNodes
    BY <1>1, <1>7 DEF CallSendAlert, Phases, network
  <2> QED
    BY <1>4, <2>1
<1>8. CASE RunOther \/ OpenFails \/ Abort \/ Exit \/ Ended \/ UNCHANGED vars
  <2>1. UNCHANGED <<vNodes, mapMultiArgs, spc, pos>>
    BY <1>8 DEF RunOther, OpenFails, Abort, Exit, Ended, vars, sender, settings
  <2> QED
    BY <2>1 DEF Picked
<1> QED
  BY <1>5, <1>6, <1>7, <1>8 DEF Next

LEMMA AllInvariance == Spec => [](IInv /\ Fleet /\ Listed /\ Picked)
<1>1. Init => IInv /\ Fleet /\ Listed /\ Picked
  BY IInvInit, FleetInit, ListedInit, NonePicked DEF Init, InitSender
<1>2. IInv /\ Fleet /\ Listed /\ Picked /\ [Next]_vars => (IInv /\ Fleet /\ Listed /\ Picked)'
  BY IInvNext, FleetNext, ListedKept, PickedKept DEF IInv
<1> QED
  BY <1>1, <1>2, PTL DEF Spec

\* However long the files are: the ID of the alert is the number of the first
\* they give, or 1, and it cancels the number of every ID they list.
THEOREM AlertsAreFromFiles == Spec => []AlertFromFiles
<1>1. IInv /\ Listed => AlertFromFiles
  <2> SUFFICES ASSUME IInv, Listed, spc \in {"nonode", "connect", "check", "relay", "free", "sent"}
               PROVE  /\ \/ alert.id = 1 /\ NoneGiven(Lines, "id")
                         \/ \E v \in Value : FirstGiven(Lines, "id", v) /\ alert.id = Number[v]
                      /\ alert.cancels = {Number[Given(Lines, i)] :
                           i \in {j \in DOMAIN Lines : Gives(Lines, j, "setcancel")}}
    BY DEF AlertFromFiles, Lines
  <2>1. alert.id = AlertID /\ alert.cancels = SetCancel
    BY DEF IInv, Derived
  <2>2. "id" \in Free /\ "setcancel" \in Key \ {"datadir", "conf"} /\ "setcancel" \in Key
    BY AlertAssumption DEF Free
  <2>3. \/ alert.id = 1 /\ NoneGiven(Lines, "id")
        \/ \E v \in Value : FirstGiven(Lines, "id", v) /\ alert.id = Number[v]
    <3>1. IF mapArgs["id"] = NoValue THEN NoneGiven(Lines, "id")
          ELSE FirstGiven(Lines, "id", mapArgs["id"])
      BY <2>2 DEF IInv, Recorded
    <3>2. mapArgs["id"] \in Value \cup {NoValue}
      BY AlertAssumption DEF IInv, TypeOK, SettingsTypeOK
    <3> QED
      BY <2>1, <3>1, <3>2 DEF AlertID, Has
  <2> DEFINE m == mapMultiArgs["setcancel"]
  <2>4. PICK g : Places(Lines, "setcancel", m, g)
    BY <2>2 DEF Listed
  <2>5. ToSet(m) = {Given(Lines, i) : i \in {j \in DOMAIN Lines : Gives(Lines, j, "setcancel")}}
    BY <2>4 DEF Places, ToSet
  <2>6. SetCancel = {Number[v] : v \in ToSet(m)}
    <3>1. CASE Has("setcancel")
      BY <3>1 DEF SetCancel
    <3>2. CASE ~Has("setcancel")
      <4>1. m \in Seq(Value) /\ NoValue \notin Value
        BY <2>2, SettingsAssumption DEF IInv, TypeOK, SettingsTypeOK
      <4>2. mapArgs["setcancel"] = IF m = <<>> THEN NoValue ELSE Head(m)
        BY <2>2 DEF IInv, HeadAgrees
      <4>3. m = <<>>
        BY <3>2, <4>1, <4>2, HeadTailProperties DEF Has
      <4>4. ToSet(m) = {}
        BY <4>3 DEF ToSet
      <4> QED
        BY <3>2, <4>4 DEF SetCancel
    <3> QED
      BY <3>1, <3>2
  <2>7. {Number[v] : v \in ToSet(m)} =
          {Number[Given(Lines, i)] : i \in {j \in DOMAIN Lines : Gives(Lines, j, "setcancel")}}
    BY <2>5
  <2> QED
    BY <2>1, <2>3, <2>6, <2>7
<1> QED
  BY <1>1, AllInvariance, PTL

\* Every node stands for an addnode line of its own, in the order of the files.
THEOREM NodesAreFromFiles == Spec => []NodesFromFiles
<1>1. TypeOK /\ Listed /\ Picked => NodesFromFiles
  <2> SUFFICES ASSUME TypeOK, Listed, Picked
               PROVE  \E f \in [DOMAIN vNodes -> DOMAIN Lines] :
                        /\ \A i \in DOMAIN vNodes :
                             Gives(Lines, f[i], "addnode") /\ Given(Lines, f[i]) = vNodes[i].addr
                        /\ \A i, j \in DOMAIN vNodes : i < j => f[i] < f[j]
    BY DEF NodesFromFiles, Lines
  <2> DEFINE a == mapMultiArgs["addnode"]
  <2>1. PICK h \in [DOMAIN vNodes -> DOMAIN a] :
          /\ \A i \in DOMAIN vNodes : vNodes[i].addr = a[h[i]]
          /\ \A i, j \in DOMAIN vNodes : i < j => h[i] < h[j]
    BY DEF Picked
  <2>2. "addnode" \in Key
    BY AlertAssumption
  <2>3. PICK g : Places(Lines, "addnode", a, g)
    BY <2>2 DEF Listed
  <2>4. /\ g \in [DOMAIN a -> DOMAIN Lines]
        /\ \A i \in DOMAIN a : Gives(Lines, g[i], "addnode") /\ Given(Lines, g[i]) = a[i]
        /\ \A i, j \in DOMAIN a : i < j => g[i] < g[j]
    BY <2>3 DEF Places
  <2> HIDE DEF a
  <2> DEFINE f == [i \in DOMAIN vNodes |-> g[h[i]]]
  <2>5. \A i \in DOMAIN vNodes : h[i] \in DOMAIN a
    BY <2>1
  <2>6. f \in [DOMAIN vNodes -> DOMAIN Lines]
    BY <2>4, <2>5
  <2>7. \A i \in DOMAIN vNodes :
          Gives(Lines, f[i], "addnode") /\ Given(Lines, f[i]) = vNodes[i].addr
    BY <2>1, <2>4, <2>5
  <2>8. \A i, j \in DOMAIN vNodes : i < j => f[i] < f[j]
    BY <2>1, <2>4, <2>5
  <2> HIDE DEF f
  <2> QED
    BY <2>6, <2>7, <2>8
<1> QED
  BY <1>1, AllInvariance, PTL DEF IInv
-----------------------------------------------------------------------------
(* The process implements Broadcast.                                       *)

\* A socket that is told is one more of those told.
LEMMA ToldOneMore ==
  ASSUME NEW s \in Seq(Nat), NEW x \in Nat
  PROVE  ToSet(Append(s, x)) = ToSet(s) \cup {x}
<1> DEFINE m == Len(s)
           more == Append(s, x)
<1>1. /\ m \in Nat /\ DOMAIN s = 1 .. m /\ DOMAIN more = 1 .. m + 1
      /\ more[m + 1] = x /\ \A i \in 1 .. m : more[i] = s[i]
  BY AppendProperties, LenProperties
<1> HIDE DEF m, more
<1>2. \A i \in 1 .. m + 1 : i \in 1 .. m \/ i = m + 1
  BY <1>1
<1>3. m + 1 \in 1 .. m + 1 /\ \A i \in 1 .. m : i \in 1 .. m + 1
  BY <1>1
<1>4. ToSet(more) = ToSet(s) \cup {x}
  BY <1>1, <1>2, <1>3 DEF ToSet
<1> QED
  BY <1>4 DEF more

\* AddOneNode connects somebody new, or nobody.
LEMMA AddJoins ==
  ASSUME Fleet, AddOneNode
  PROVE  [Alert!Next]_(Alert!vars)
<1>1. /\ spc = "connect" /\ UNCHANGED <<spc, params, signer, relayed>>
      /\ \/ UNCHANGED network
         \/ UNCHANGED <<opened, freed>>
         \/ opened' = opened \cup {sockets + 1} /\ freed' = freed
  BY DEF AddOneNode, Connected
<1>2. CASE UNCHANGED <<opened, freed>>
  BY <1>1, <1>2 DEF Alert!vars
<1>3. CASE opened' = opened \cup {sockets + 1} /\ freed' = freed
  <2>1. sockets \in Nat /\ opened \subseteq 1 .. sockets /\ freed = {}
    BY <1>1, NodeType DEF Fleet, Nodes, Socks
  <2>2. sockets + 1 \notin opened \cup freed /\ sockets + 1 \in (opened \cup freed)'
    BY <1>3, <2>1
  <2>3. (opened \cup freed)' = (opened \cup freed) \cup {sockets + 1}
    BY <1>3
  <2>4. Alert!Join
    BY <1>1, <1>3, <2>2, <2>3 DEF Alert!Join
  <2> QED
    BY <2>4 DEF Alert!Next
<1> QED
  BY <1>1, <1>2, <1>3 DEF network

\* A relay that succeeds tells a node nobody told, and the audience is in use.
LEMMA RelayTells ==
  ASSUME Fleet, Relay
  PROVE  [Alert!Next]_(Alert!vars)
<1> DEFINE x == vNodes[pos].sock
<1>1. /\ spc = "relay" /\ pos <= Len(vNodes)
      /\ UNCHANGED <<spc, params, signer, opened, freed>>
      /\ relayed' = relayed \/ relayed' = Append(relayed, x)
  BY DEF Relay, network
<1>2. CASE relayed' = relayed
  BY <1>1, <1>2 DEF Alert!vars
<1>3. CASE relayed' = Append(relayed, x)
  <2>1. /\ TypeOK /\ Nodes /\ Relays
        /\ pos \in 1 .. Len(vNodes) /\ DOMAIN vNodes = 1 .. Len(vNodes)
        /\ \A i \in 1 .. Len(vNodes) : vNodes[i].sock \in Nat
    BY <1>1, NodeType DEF Fleet
  <2>2. ToSet(relayed') = ToSet(relayed) \cup {x}
    BY <1>3, <2>1, RelayedType, ToldOneMore
  <2>3. x \in opened
    BY <1>1, <2>1 DEF Nodes, Socks
  <2>4. x \notin ToSet(relayed)
    <3> SUFFICES ASSUME x \in ToSet(relayed) PROVE FALSE
      OBVIOUS
    <3>1. PICK h \in 1 .. pos - 1 : x = vNodes[h].sock
      BY <1>1, <2>1 DEF Relays, Socks
    <3>2. h \in DOMAIN vNodes /\ pos \in DOMAIN vNodes /\ h < pos
      BY <2>1
    <3>3. x < x /\ x \in Nat
      BY <2>1, <3>1, <3>2 DEF Nodes
    <3> QED
      BY <3>3
  <2>5. Alert!Tell
    BY <1>1, <2>2, <2>3, <2>4 DEF Alert!Tell
  <2> QED
    BY <2>5 DEF Alert!Next
<1> QED
  BY <1>1, <1>2, <1>3

\* FreeNode closes somebody's connection, or is done when nobody has one.
LEMMA FreeCloses ==
  ASSUME Fleet, FreeNode
  PROVE  [Alert!Next]_(Alert!vars)
<1> DEFINE x == vNodes[pos].sock
<1>1. /\ spc = "free" /\ UNCHANGED <<params, signer, relayed>>
  BY DEF FreeNode
<1>2. /\ Nodes /\ DOMAIN vNodes = 1 .. Len(vNodes) /\ Len(vNodes) \in Nat /\ pos \in Nat \ {0}
      /\ opened = Socks(pos, Len(vNodes))
  BY <1>1, NodeType DEF Fleet, Nodes
<1>3. CASE pos <= Len(vNodes)
  <2>1. opened' = opened \ {x} /\ freed' = freed \cup {x} /\ spc' = spc
    BY <1>3 DEF FreeNode, CloseSocket
  <2>2. x \in opened
    BY <1>2, <1>3 DEF Socks
  <2>3. (opened \cup freed)' = opened \cup freed
    BY <2>1, <2>2
  <2>4. Alert!Close
    BY <1>1, <2>1, <2>2, <2>3 DEF Alert!Close
  <2> QED
    BY <2>4 DEF Alert!Next
<1>4. CASE ~(pos <= Len(vNodes))
  <2>1. UNCHANGED <<opened, freed>> /\ spc' = "sent"
    BY <1>4 DEF FreeNode
  <2>2. opened = {}
    BY <1>2, <1>4 DEF Socks
  <2>3. Alert!Done
    BY <1>1, <2>1, <2>2 DEF Alert!Done
  <2> QED
    BY <2>3 DEF Alert!Next
<1> QED
  BY <1>3, <1>4

\* The audience of an alert is closed before it is signed, nobody is told before
\* the signature was checked for the network the tool selected, nobody is told
\* twice, and the connections are closed at the end: for files, keys, networks
\* and nodes of any number the process implements Broadcast.
THEOREM AlertRefinement == Spec => AlertSafety
<1>1. Init => Alert!Init
  <2> SUFFICES ASSUME Init PROVE Alert!Init
    OBVIOUS
  <2>1. ToSet(<<>>) = {}
    BY DEF ToSet
  <2> QED
    BY <2>1 DEF Init, InitSender, Alert!Init
<1>2. IInv /\ Fleet /\ [Next]_vars => [Alert!Next]_(Alert!vars)
  <2> SUFFICES ASSUME IInv, Fleet, [Next]_vars
               PROVE  [Alert!Next]_(Alert!vars)
    OBVIOUS
  <2>1. CASE Start \/ ReadConf \/ RunOther \/ OpenFails \/ ReadFileLine \/ Abort \/ Exit \/ Ended
             \/ UNCHANGED vars
    BY <2>1 DEF Start, ReadConf, RunOther, OpenFails, ReadFileLine, Abort, Exit, Ended, vars,
                sender, Alert!vars
  <2>2. CASE InitSys
    <3>1. /\ params = NoValue /\ params' \in Network /\ spc = "idle"
          /\ UNCHANGED <<spc, signer, opened, freed, relayed>>
      BY <2>2, CoinToolAssumption DEF InitSys, SelectedNet, IInv, Phases, sender
    <3>2. opened \cup freed = {}
      <4>1. vNodes = <<>> /\ Len(vNodes) = 0
        BY <3>1 DEF Fleet, Nodes
      <4> QED
        BY <3>1, <4>1 DEF Fleet, Nodes, Socks
    <3>3. Alert!Select
      BY <3>1, <3>2 DEF Alert!Select
    <3> QED
      BY <3>3 DEF Alert!Next
  <2>3. CASE CallSendAlert
    <3>1. spc = "idle" /\ spc' = "called"
      BY <2>3 DEF CallSendAlert, IInv, Phases
    <3> QED
      BY <2>3, <3>1 DEF CallSendAlert, network, Alert!vars
  <2>4. CASE CreateAlert
    <3>1. CASE spc' = "connect"
      BY <2>4, <3>1 DEF CreateAlert, network, Alert!vars
    <3>2. CASE spc' = "failed"
      BY <2>4, <3>2 DEF CreateAlert, network, Alert!GiveUp, Alert!Next
    <3> QED
      BY <2>4, <3>1, <3>2 DEF CreateAlert
  <2>5. CASE NoNode
    BY <2>5 DEF NoNode, network, Alert!GiveUp, Alert!Next
  <2>6. CASE AddOneNode
    BY <2>6, AddJoins
  <2>7. CASE Sign
    <3>1. CASE spc' = "check"
      <4>1. params \in Network /\ signer' \in Value /\ params # NoValue
        BY <2>7, <3>1, AlertAssumption, CoinToolAssumption DEF Sign
      <4>2. Alert!Sign
        BY <2>7, <3>1, <4>1 DEF Sign, network, Alert!Sign
      <4> QED
        BY <4>2 DEF Alert!Next
    <3>2. CASE spc' = "failed"
      BY <2>7, <3>2 DEF Sign, network, Alert!GiveUp, Alert!Next
    <3> QED
      BY <2>7, <3>1, <3>2 DEF Sign
  <2>8. CASE CheckSignature
    <3>1. CASE Authorized
      <4>1. Alert!Clear
        BY <2>8, <3>1 DEF CheckSignature, Authorized, network, Alert!Clear
      <4> QED
        BY <4>1 DEF Alert!Next
    <3>2. CASE ~Authorized
      BY <2>8, <3>2 DEF CheckSignature, network, Alert!GiveUp, Alert!Next
    <3> QED
      BY <3>1, <3>2
  <2>9. CASE Relay
    BY <2>9, RelayTells
  <2>10. CASE Report
    BY <2>10 DEF Report, network, Alert!Finish, Alert!Next
  <2>11. CASE FreeNode
    BY <2>11, FreeCloses
  <2> QED
    BY <2>1, <2>2, <2>3, <2>4, <2>5, <2>6, <2>7, <2>8, <2>9, <2>10, <2>11
    DEF Next, RunSendAlert, SendAlert
<1> QED
  BY FleetInvariance, <1>1, <1>2, PTL DEF Spec, AlertSafety, Alert!Spec
-----------------------------------------------------------------------------
(* The tool gets done: no loop over a file or over nodes runs on.          *)

\* How far the process is: the stages of main, and of SendAlert within.
Stage(main, send) ==
  CASE main = "start" -> 10 [] main = "readconf" -> 9 [] main = "dispatch" -> 8
    [] main = "readfile" -> 7
    [] main = "sendalert" /\ send = "called" -> 6
    [] main = "sendalert" /\ send = "connect" -> 5
    [] main = "sendalert" /\ send = "check" -> 4
    [] main = "sendalert" /\ send = "relay" -> 3
    [] main = "sendalert" /\ send = "free" -> 2
    [] main = "sendalert" /\ send \in Returned -> 1
    [] OTHER -> 0
Place == Stage(pc, spc)

LEMMA Stages ==
  ASSUME NEW send
  PROVE  /\ Stage("start", send) = 10 /\ Stage("readconf", send) = 9
         /\ Stage("dispatch", send) = 8 /\ Stage("readfile", send) = 7
         /\ Stage("end", send) = 0
         /\ Stage("sendalert", "called") = 6 /\ Stage("sendalert", "connect") = 5
         /\ Stage("sendalert", "check") = 4 /\ Stage("sendalert", "relay") = 3
         /\ Stage("sendalert", "free") = 2
         /\ send \in Returned => Stage("sendalert", send) = 1
<1>1. /\ Stage("start", send) = 10 /\ Stage("readconf", send) = 9
      /\ Stage("dispatch", send) = 8 /\ Stage("readfile", send) = 7
  BY DEF Stage
<1>2. Stage("end", send) = 0
  BY DEF Stage
<1>3. /\ Stage("sendalert", "called") = 6 /\ Stage("sendalert", "connect") = 5
      /\ Stage("sendalert", "check") = 4 /\ Stage("sendalert", "relay") = 3
      /\ Stage("sendalert", "free") = 2
  BY DEF Stage, Returned
<1>4. ASSUME send \in Returned PROVE Stage("sendalert", send) = 1
  BY <1>4 DEF Stage, Returned
<1> QED
  BY <1>1, <1>2, <1>3, <1>4

\* How many rounds of the loop it is in may be left.
Rounds ==
  CASE pc = "readconf" -> MaxConf - Len(conf)
    [] pc = "readfile" -> MaxFile - Len(file)
    [] pc = "sendalert" /\ spc = "connect" -> Len(mapMultiArgs["addnode"]) + 1 - pos
    [] pc = "sendalert" /\ spc \in {"relay", "free"} -> Len(vNodes) + 1 - pos
    [] OTHER -> 0

\* Every step takes the process to a later stage or, in the loop it is in, one
\* round further of the finitely many left: however many lines and nodes there
\* are and whatever fails, the tool takes finitely many steps.
GetsDone ==
  [][\/ Place' < Place
     \/ Place' = Place /\ Rounds' < Rounds /\ Rounds \in Nat /\ Rounds' \in Nat]_vars

\* The loops stay within what they go through.
InLoop ==
  /\ Len(conf) <= MaxConf /\ Len(file) <= MaxFile
  /\ spc \in {"idle", "called"} => pos = 1
  /\ spc = "connect" => pos <= Len(mapMultiArgs["addnode"]) + 1

\* The lengths are numbers.
LEMMA LengthsAreNat ==
  ASSUME TypeOK
  PROVE  /\ Len(conf) \in Nat /\ Len(file) \in Nat /\ Len(vNodes) \in Nat
         /\ Len(mapMultiArgs["addnode"]) \in Nat
         /\ pos \in Nat \ {0} /\ MaxConf \in Nat /\ MaxFile \in Nat
<1>1. mapMultiArgs["addnode"] \in Seq(Value)
  BY AlertAssumption DEF TypeOK, SettingsTypeOK
<1>2. conf \in Seq(ConfLine) /\ file \in Seq(FileLine)
  BY DEF TypeOK
<1> QED
  BY <1>1, <1>2, NodeType, LenProperties, CoinToolAssumption

\* A line that is read makes its file one longer, if there was another one.
LEMMA LinesCount ==
  ASSUME TypeOK
  PROVE  /\ ReadConf => Len(conf) < MaxConf /\ Len(conf') = Len(conf) + 1
         /\ ReadFileLine => Len(file) < MaxFile /\ Len(file') = Len(file) + 1
<1>1. conf \in Seq(ConfLine) /\ file \in Seq(FileLine)
  BY DEF TypeOK
<1>2. ASSUME ReadConf PROVE Len(conf) < MaxConf /\ Len(conf') = Len(conf) + 1
  BY <1>1, <1>2, AppendProperties DEF ReadConf
<1>3. ASSUME ReadFileLine PROVE Len(file) < MaxFile /\ Len(file') = Len(file) + 1
  BY <1>1, <1>3, AppendProperties DEF ReadFileLine
<1> QED
  BY <1>2, <1>3

LEMMA InLoopNext ==
  ASSUME IInv, InLoop, [Next]_vars
  PROVE  InLoop'
<1> USE DEF InLoop, settings, sender, network
<1>0. /\ Len(conf) \in Nat /\ Len(file) \in Nat /\ MaxConf \in Nat /\ MaxFile \in Nat
      /\ Len(mapMultiArgs["addnode"]) \in Nat /\ pos \in Nat \ {0}
      /\ spc # "idle" => pc \in {"sendalert", "end"}
  BY LengthsAreNat DEF IInv, Phases
<1>1. CASE Start \/ InitSys \/ RunOther \/ OpenFails \/ Abort \/ Exit \/ Ended \/ UNCHANGED vars
  BY <1>0, <1>1 DEF Start, SetFilePath, InitSys, RunOther, OpenFails, Abort, Exit, Ended, vars
<1>2. CASE ReadConf
  <2>1. Len(conf') <= MaxConf
    BY <1>0, <1>2, LinesCount DEF IInv
  <2>2. spc = "idle" /\ UNCHANGED <<file, sender>>
    BY <1>0, <1>2 DEF ReadConf
  <2> QED
    BY <2>1, <2>2
<1>3. CASE ReadFileLine
  <2>1. Len(file') <= MaxFile
    BY <1>0, <1>3, LinesCount DEF IInv
  <2>2. spc = "idle" /\ UNCHANGED <<conf, sender>>
    BY <1>0, <1>3 DEF ReadFileLine
  <2> QED
    BY <2>1, <2>2
<1>4. CASE CallSendAlert
  BY <1>0, <1>4 DEF CallSendAlert
<1>5. CASE RunSendAlert
  <2>1. conf' = conf /\ file' = file
    BY <1>5 DEF RunSendAlert
  <2>2. CASE CreateAlert
    BY <1>0, <2>1, <2>2 DEF CreateAlert
  <2>3. CASE AddOneNode
    BY <1>0, <2>1, <2>3 DEF AddOneNode
  <2>4. CASE NoNode \/ Sign \/ CheckSignature \/ Relay \/ Report \/ FreeNode
    BY <2>1, <2>4 DEF NoNode, Sign, CheckSignature, Relay, Report, FreeNode
  <2> QED
    BY <1>5, <2>2, <2>3, <2>4 DEF RunSendAlert, SendAlert
<1> QED
  BY <1>1, <1>2, <1>3, <1>4, <1>5 DEF Next

\* The step relation behind GetsDone, for a step that is no stutter.
LEMMA FurtherStep ==
  ASSUME IInv, Fleet, InLoop, IInv', Next, vars' # vars
  PROVE  \/ Place' < Place
         \/ Place' = Place /\ Rounds' < Rounds /\ Rounds \in Nat /\ Rounds' \in Nat
<1> USE DEF Place, settings, network, sender
<1> USE Stages
<1>0. /\ Len(conf) \in Nat /\ Len(file) \in Nat /\ MaxConf \in Nat /\ MaxFile \in Nat
      /\ Len(mapMultiArgs["addnode"]) \in Nat /\ Len(vNodes) \in Nat /\ pos \in Nat \ {0}
  BY LengthsAreNat DEF IInv
<1>1. CASE Start \/ InitSys \/ RunOther \/ OpenFails \/ Abort \/ Exit
  <2>1. \/ pc = "start" /\ pc' = "readconf"
        \/ pc = "readconf" /\ pc' = "dispatch"
        \/ pc \in {"readconf", "dispatch", "readfile"} /\ pc' = "end"
        \/ pc = "sendalert" /\ spc \in Returned /\ pc' = "end"
    BY <1>1 DEF Start, InitSys, RunOther, OpenFails, Abort, Exit
  <2> QED
    BY <2>1
<1>2. CASE ReadConf
  <2>1. Place' = Place
    BY <1>2 DEF ReadConf
  <2>2. Rounds = MaxConf - Len(conf) /\ Rounds' = MaxConf - Len(conf')
    BY <1>2 DEF ReadConf, Rounds
  <2>3. Len(conf) < MaxConf /\ Len(conf') = Len(conf) + 1
    BY <1>2, LinesCount DEF IInv
  <2> HIDE DEF Place
  <2> QED
    BY <1>0, <2>1, <2>2, <2>3
<1>3. CASE ReadFileLine
  <2>1. pc = "dispatch" \/ pc = "readfile"
    BY <1>3 DEF ReadFileLine
  <2>2. CASE pc = "dispatch"
    <3>1. pc' = "readfile"
      BY <1>3 DEF ReadFileLine
    <3> QED
      BY <2>2, <3>1
  <2>3. CASE pc = "readfile"
    <3>1. Place' = Place
      BY <1>3, <2>3 DEF ReadFileLine
    <3>2. Rounds = MaxFile - Len(file) /\ Rounds' = MaxFile - Len(file')
      BY <1>3, <2>3 DEF ReadFileLine, Rounds
    <3>3. Len(file) < MaxFile /\ Len(file') = Len(file) + 1
      BY <1>3, LinesCount DEF IInv
    <3> HIDE DEF Place
    <3> QED
      BY <1>0, <3>1, <3>2, <3>3
  <2> QED
    BY <2>1, <2>2, <2>3
<1>4. CASE CallSendAlert
  <2>1. pc \in {"dispatch", "readfile"} /\ pc' = "sendalert" /\ spc' = "called"
    BY <1>4 DEF CallSendAlert
  <2> QED
    BY <2>1
<1>5. CASE RunSendAlert
  <2>0. pc = "sendalert" /\ pc' = "sendalert"
    BY <1>5 DEF RunSendAlert
  <2>1. CASE CreateAlert \/ NoNode \/ Sign \/ CheckSignature \/ Report
    <3>1. \/ spc = "called" /\ spc' \in {"connect"} \cup Returned
          \/ spc = "connect" /\ spc' \in {"check"} \cup Returned
          \/ spc = "check" /\ spc' \in {"relay"} \cup Returned
          \/ spc = "relay" /\ spc' = "free"
      BY <2>1 DEF CreateAlert, NoNode, Sign, CheckSignature, Report, Returned
    <3>2. Place' \in Nat /\ spc' \in Returned => Place' = 1
      BY <2>0, <3>1
    <3> QED
      BY <2>0, <3>1, <3>2
  <2>2. CASE AddOneNode
    <3>1. /\ Place' = Place /\ pos' = pos + 1
          /\ pos <= Len(mapMultiArgs["addnode"])
      BY <2>0, <2>2 DEF AddOneNode
    <3>2. /\ Rounds = Len(mapMultiArgs["addnode"]) + 1 - pos
          /\ Rounds' = Len(mapMultiArgs["addnode"]) + 1 - pos'
      BY <2>0, <2>2 DEF AddOneNode, Rounds
    <3> DEFINE n == Len(mapMultiArgs["addnode"])
    <3>3. n \in Nat /\ pos <= n /\ Rounds = n + 1 - pos /\ Rounds' = n + 1 - pos'
      BY <1>0, <3>1, <3>2
    <3> HIDE DEF Place, n
    <3> QED
      BY <1>0, <3>1, <3>3
  <2>3. CASE Relay
    <3>1. Place' = Place /\ pos' = pos + 1 /\ pos <= Len(vNodes)
      BY <2>0, <2>3 DEF Relay
    <3>2. Rounds = Len(vNodes) + 1 - pos /\ Rounds' = Len(vNodes) + 1 - pos'
      BY <2>0, <2>3 DEF Relay, Rounds
    <3> HIDE DEF Place
    <3> QED
      BY <1>0, <3>1, <3>2
  <2>4. CASE FreeNode /\ pos <= Len(vNodes)
    <3>1. Place' = Place /\ pos' = pos + 1
      BY <2>0, <2>4 DEF FreeNode
    <3>2. Rounds = Len(vNodes) + 1 - pos /\ Rounds' = Len(vNodes) + 1 - pos'
      BY <2>0, <2>4 DEF FreeNode, Rounds
    <3> HIDE DEF Place
    <3> QED
      BY <1>0, <2>4, <3>1, <3>2
  <2>5. CASE FreeNode /\ ~(pos <= Len(vNodes))
    <3>1. spc = "free" /\ spc' = "sent" /\ spc' \in Returned
      BY <2>5 DEF FreeNode, Returned
    <3> QED
      BY <2>0, <3>1
  <2> QED
    BY <1>5, <2>1, <2>2, <2>3, <2>4, <2>5 DEF RunSendAlert, SendAlert
<1> QED
  BY <1>1, <1>2, <1>3, <1>4, <1>5 DEF Next, Ended

THEOREM GetsDoneHolds == Spec => GetsDone
<1> DEFINE A == \/ Place' < Place
                \/ Place' = Place /\ Rounds' < Rounds /\ Rounds \in Nat /\ Rounds' \in Nat
<1>1. Init => InLoop
  BY EmptySeq, CoinToolAssumption DEF Init, InitSender, InLoop
<1>2. IInv /\ InLoop /\ [Next]_vars => InLoop'
  BY InLoopNext
<1>3. IInv /\ Fleet /\ InLoop /\ IInv' /\ [Next]_vars => [A]_vars
  <2> SUFFICES ASSUME IInv, Fleet, InLoop, IInv', Next, vars' # vars PROVE A
    OBVIOUS
  <2> QED
    BY FurtherStep
<1>4. GetsDone <=> [][A]_vars
  BY DEF GetsDone
<1> HIDE DEF A
<1> QED
  BY FleetInvariance, <1>1, <1>2, <1>3, <1>4, PTL DEF Spec
-----------------------------------------------------------------------------
(* What is decided stays decided.                                          *)

\* The selected network is never changed; from the call of SendAlert on the
\* settings it walks through, and from CreateAlert on the alert, stay what they
\* are; a deleted node stays deleted and its socket is never open again.
NothingRevised ==
  [][/\ params # NoValue => params' = params
     /\ spc # "idle" => settings' = settings
     /\ spc \notin {"idle", "called"} => alert' = alert
     /\ freed \subseteq freed' /\ opened' \cap freed = {}]_vars

THEOREM DecisionsStand == Spec => NothingRevised
<1> DEFINE A == /\ params # NoValue => params' = params
                /\ spc # "idle" => settings' = settings
                /\ spc \notin {"idle", "called"} => alert' = alert
                /\ freed \subseteq freed' /\ opened' \cap freed = {}
<1>1. IInv /\ Fleet /\ NothingLeaks /\ [Next]_vars => [A]_vars
  <2> SUFFICES ASSUME IInv, Fleet, NothingLeaks, Next, vars' # vars PROVE A
    OBVIOUS
  <2> USE DEF settings, sender, network
  <2>0. /\ opened \cap freed = {}
        /\ pc \in {"start", "readconf"} => params = NoValue
        /\ spc # "idle" => pc \in {"sendalert", "end"}
    BY DEF NothingLeaks, IInv, Phases
  <2>1. CASE Start \/ ReadConf \/ InitSys \/ RunOther \/ OpenFails \/ ReadFileLine \/ Abort \/ Exit
    BY <2>0, <2>1 DEF Start, ReadConf, InitSys, RunOther, OpenFails, ReadFileLine, Abort, Exit
  <2>2. CASE CallSendAlert
    BY <2>0, <2>2 DEF CallSendAlert
  <2>3. CASE RunSendAlert
    <3>1. CASE CreateAlert \/ NoNode \/ Sign \/ CheckSignature \/ Relay \/ Report
      BY <2>0, <3>1 DEF CreateAlert, NoNode, Sign, CheckSignature, Relay, Report
    <3>2. CASE AddOneNode
      <4>1. freed = {}
        BY <3>2 DEF AddOneNode, Fleet, Nodes
      <4> QED
        BY <3>2, <4>1 DEF AddOneNode
    <3>3. CASE FreeNode
      <4>1. /\ freed' = freed \/ freed' = freed \cup {vNodes[pos].sock}
            /\ opened' \subseteq opened
        BY <3>3 DEF FreeNode, CloseSocket
      <4> QED
        BY <2>0, <3>3, <4>1 DEF FreeNode
    <3> QED
      BY <2>3, <3>1, <3>2, <3>3 DEF RunSendAlert, SendAlert
  <2> QED
    BY <2>1, <2>2, <2>3 DEF Next, Ended
<1>2. NothingRevised <=> [][A]_vars
  BY DEF NothingRevised
<1> HIDE DEF A
<1> QED
  BY FleetInvariance, NoSocketLeaks, <1>1, <1>2, PTL DEF Spec
=============================================================================
