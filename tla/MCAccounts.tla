------------------------------ MODULE MCAccounts ------------------------------
(* A small instance of Accounts for TLC: behaviours full of billing events, *)
(* and behaviours full of private writes and deletions.                     *)
EXTENDS Accounts

CONSTANTS c1, c2

Budgets ==
  {[writes |-> 0, events |-> 2, hours |-> 2, faults |-> 1],
   [writes |-> 2, events |-> 1, hours |-> 0, faults |-> 1],
   [writes |-> 3, events |-> 0, hours |-> 0, faults |-> 1]}
=============================================================================
