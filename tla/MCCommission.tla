----------------------------- MODULE MCCommission -----------------------------
(* Sales t1 (two lines), t2 and t3 (one) of one dealer in one month, keyed   *)
(* to partition p1; the return of t1 on another partition; agreements a1 and *)
(* a2 of that dealer, under which different lines earn something.            *)
EXTENDS Commission, TLC

CONSTANTS p1, p2, t1, t2, t3, a1, a2, d1, s1

Sale(t) == [type |-> "sale", sale |-> t]
Return(t) == [type |-> "return", sale |-> t]
MCEvents == [type : {"sale", "return"}, sale : {t1, t2, t3}]

MCFullLog == p1 :> <<Sale(t1), Sale(t2)>> @@ p2 :> <<Return(t1)>>
MCOneSaleLog == p1 :> <<Sale(t1)>>
MCSettledLog == p1 :> <<Sale(t1), Sale(t2), Sale(t3)>>
MCUnreadable == {Sale(t3)}

MCLineCount == t1 :> 2 @@ t2 :> 1 @@ t3 :> 1
MCDealerOf == t1 :> d1 @@ t2 :> d1 @@ t3 :> d1
MCPartyOf == a1 :> d1 @@ a2 :> d1
MCStatementOf == t1 :> s1 @@ t2 :> s1 @@ t3 :> s1

\* Under a1 both lines of t1 earn, under a2 only the second one.
MCAmount == <<a1, t1, 1>> :> 1 @@ <<a1, t1, 2>> :> 2 @@ <<a1, t2, 1>> :> 4 @@
            <<a2, t1, 1>> :> NoCommission @@ <<a2, t1, 2>> :> 8 @@ <<a2, t2, 1>> :> 16 @@
            <<a1, t3, 1>> :> 32 @@ <<a2, t3, 1>> :> 32

MCSymmetry == Permutations(Workers)
=============================================================================
