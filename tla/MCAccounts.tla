----------------------------- MODULE MCAccounts -----------------------------
(* Small instances of Accounts: a login, two demotions and what they need   *)
(* take five requests; the database fails once during the first two.        *)
EXTENDS Accounts

MCBounds == {[requests |-> 5, faults |-> 0], [requests |-> 2, faults |-> 1]}
=============================================================================
