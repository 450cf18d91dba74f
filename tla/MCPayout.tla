------------------------------- MODULE MCPayout -------------------------------
(* Statement s1 was confirmed with total 1, after a confirmation that nobody can *)
(* read; finance may ask for other amounts.                                      *)
EXTENDS Payout, TLC

CONSTANTS p1, s1

Confirmed(s, total) == [statement |-> s, total |-> total]
MCEvents == [statement : {s1}, total : {1, 2}]
MCSymmetry == Permutations(Workers) \cup Permutations(Calls)
MCUnreadable == {Confirmed(s1, 2)}
MCLog == p1 :> <<Confirmed(s1, 2), Confirmed(s1, 1)>>
=============================================================================
