----------------------------- MODULE MCAccounts -----------------------------
(* A small instance of SingleSignOn and Accounts. *)
EXTENDS SingleSignOn

\* The provider knows its users by names that are also local ones.
TwoIdentities == [l \in 1..MaxBegun |-> IF l = 1 THEN "ann" ELSE "root"]
=============================================================================
