------------------------------ MODULE Settings ------------------------------
(***************************************************************************)
(* The settings of the tool (common/utils.cpp): mapArgs holds the value of *)
(* a setting, mapMultiArgs every value it was given, in order.  They are   *)
(* the chain library's globals; SetFilePath, ReadConfigFile (the library's *)
(* twin of ReadCurrentFile) and ReadCurrentFile write them.                *)
(***************************************************************************)
EXTENDS Integers, Sequences

CONSTANTS
  Key,      \* what may stand before the "=" of a line of a file
  Value,    \* what may stand behind it, and what the program itself sets
  Number,   \* Number[v]: what atoi makes of v
  Negated,  \* Negated[k] for the keys k = "no" \o Negated[k] of Key
  NoValue   \* the value of a setting that is not in mapArgs

ASSUME SettingsAssumption ==
  /\ {"testnet", "datadir", "conf"} \subseteq Key
  /\ {"", "0", "1", "dir", "tool.conf"} \subseteq Value /\ NoValue \notin Value
  /\ Number \in [Value -> Int]
  /\ Negated \in [DOMAIN Negated -> Key] /\ DOMAIN Negated \subseteq Key

\* A line of a file, with the key as it stands there.
Line == [key : Key, value : Value]

VARIABLES
  mapArgs,       \* the value of each setting, NoValue when it has none
  mapMultiArgs   \* every value each setting was given by a file

settings == <<mapArgs, mapMultiArgs>>

Has(k) == mapArgs[k] # NoValue

\* ToolsInterpretBool, and the library's InterpretBool: an empty value is true.
InterpretBool(v) == v = "" \/ Number[v] # 0

\* ToolsInterpretNegativeSetting turns -noX into -X=0 (and -noX=0 into -X=1),
\* whatever X is.
InterpretNegative(line) ==
  IF line.key \in DOMAIN Negated
  THEN [key |-> Negated[line.key],
        value |-> IF InterpretBool(line.value) THEN "0" ELSE "1"]
  ELSE line

\* The library's GetBoolArg with a default of false.
GetBoolArg(k) == Has(k) /\ InterpretBool(mapArgs[k])

InitSettings ==
  /\ mapArgs = [k \in Key |-> NoValue]
  /\ mapMultiArgs = [k \in Key |-> <<>>]

\* SetFilePath: the program's own values, which are in mapArgs only.
SetFilePath ==
  /\ mapArgs' = [mapArgs EXCEPT !["datadir"] = "dir", !["conf"] = "tool.conf"]
  /\ UNCHANGED mapMultiArgs

\* Faulty: the last value a setting gets wins.
Kept_Last(s) == s.value

\* The first value a setting gets is the one it keeps.
Kept(s) == IF Has(s.key) THEN mapArgs[s.key] ELSE s.value

\* One round of the loop of ReadCurrentFile; every value is recorded.
ReadLine(line) ==
  LET s == InterpretNegative(line) IN
    /\ mapArgs' = [mapArgs EXCEPT ![s.key] = Kept(s)]
    /\ mapMultiArgs' = [mapMultiArgs EXCEPT ![s.key] = Append(@, s.value)]
-----------------------------------------------------------------------------
\* The type of the settings.
SettingsTypeOK ==
  /\ mapArgs \in [Key -> Value \cup {NoValue}]
  /\ mapMultiArgs \in [Key -> Seq(Value)]

\* The two maps tell one story: a setting has a value exactly when some file
\* gave it one, and it is the first of all that were given, whichever file
\* they came from.  Only what the program sets itself is exempt.
HeadAgrees ==
  \A k \in Key \ {"datadir", "conf"} :
    mapArgs[k] = IF mapMultiArgs[k] = <<>> THEN NoValue ELSE Head(mapMultiArgs[k])
=============================================================================
