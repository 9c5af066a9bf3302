--------------------------- MODULE MCSMTPFailover ---------------------------
(* Instances of SMTPFailover for TLC. *)
EXTENDS SMTPFailover, TLC

\* Accounts stored long ago, or none at all.
ThreeOrNone == {<<"a", "b", "c">>, <<>>}
TwoAccounts == {<<"a", "b">>}

FailoverSymmetry == Permutations(Workers) \union Permutations(Operators)
=============================================================================
