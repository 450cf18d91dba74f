------------------------------- MODULE MCParties -------------------------------
EXTENDS Parties, TLC

CONSTANTS a, b, c

\* A dealer, a party below it, and one below that or below another tenant's party.
MCRequests ==
  {[party |-> a, role |-> "DEALER", parent |-> NoParty],
   [party |-> b, role |-> "CUSTOMER", parent |-> a]}
  \cup [party : {c}, role : {"CUSTOMER"}, parent : {b, Foreign}]
=============================================================================
