--------------------------- MODULE MCAddressSearch ---------------------------
(***************************************************************************)
(* Instances of AddressSearch for TLC: one key per way of matching.        *)
(***************************************************************************)
EXTENDS AddressSearch

MCKey == {"exact", "folded", "broken"}
MCTarget == {"abc", "x", "y", "z"}

\* "exact" holds two of the targets as written, "folded" holds one of them as
\* written and another when case is ignored.
MCExact == {<<"exact", "abc">>, <<"exact", "x">>, <<"folded", "x">>}
MCFolded == MCExact \cup {<<"folded", "y">>, <<"broken", "x">>}

\* No target at all, two of them with and without regard to case (only the
\* lower-case word true makes case count), and one no key holds.
MCRequest ==
  {[case |-> "true", targets |-> <<>>],
   [case |-> "true", targets |-> <<"x", "abc">>],
   [case |-> "True", targets |-> <<"x", "y">>],
   [case |-> "false", targets |-> <<"z">>]}
=============================================================================
