----------------------------- MODULE MCCoinTool -----------------------------
(***************************************************************************)
(* Instances of CoinTool for TLC: files of a few lines, with the alert key *)
(* of each network and a stray key of the main one, two nodes,             *)
(* and settings that are negated, repeated or given by both files.         *)
(***************************************************************************)
EXTENDS CoinTool, TLC

MCKey == {"testnet", "notestnet", "privkey", "addnode", "node", "de", "id", "setcancel",
          "datadir", "conf"}
MCValue == {"", "0", "1", "01", "7", "abc", "dir", "tool.conf", "mainkey", "testkey", "stray", "n1", "n2"}
MCNumber ==
  [v \in MCValue |-> CASE v \in {"1", "01"} -> 1 [] v = "7" -> 7 [] OTHER -> 0]
MCNegated == ("notestnet" :> "testnet") @@ ("node" :> "de")
MCNetwork == {"main", "test"}
MCAlertKey == ("main" :> "mainkey") @@ ("test" :> "testkey")
MCSecret == {<<"main", "mainkey">>, <<"main", "stray">>, <<"test", "testkey">>}

MCLine(k, v) == [key |-> k, value |-> v]

\* The network in every way of saying it, a key, a node, an ID that is no number
\* and one to cancel that tool.conf imposes, and a path it cannot.
ConfLines ==
  {MCLine("testnet", "0"), MCLine("testnet", ""), MCLine("notestnet", "1"),
   MCLine("notestnet", "0"), MCLine("privkey", "mainkey"), MCLine("addnode", "n1"),
   MCLine("id", "abc"), MCLine("setcancel", "1"), MCLine("datadir", "1")}

\* The keys, another node, another ID, the same number in other digits, none,
\* and an attempt to change the network.
FileLines ==
  {MCLine("testnet", "1"), MCLine("privkey", "testkey"), MCLine("privkey", "mainkey"),
   MCLine("privkey", "stray"), MCLine("addnode", "n1"), MCLine("addnode", "n2"),
   MCLine("id", "7"), MCLine("setcancel", "01"), MCLine("setcancel", "")}

\* Somebody follows the advice of the help text.
AdviceLines == {MCLine("privkey", "mainkey"), MCLine("node", "n1"), MCLine("id", "1")}
=============================================================================
