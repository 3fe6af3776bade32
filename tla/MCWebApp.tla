------------------------------ MODULE MCWebApp ------------------------------
(* A small instance of WebApp for TLC: two bidders; two contracts with     *)
(* different functions, two accounts, a name of one and one of nobody.     *)
EXTENDS WebApp

CONSTANT bob

MCRoutes == {None, -2, 1, LastAuction, LastAuction + 1}

MCAbiOf == [a \in Addresses |-> IF a = "A" THEN {"f"} ELSE {"g"}]

MCResolveName ==
  [t \in Accounts \cup Names |->
     IF t \in Accounts THEN t ELSE IF t = "a.eth" THEN "A" ELSE ""]
=============================================================================
