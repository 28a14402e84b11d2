---------------------------- MODULE MCBillingState ----------------------------
(* A small instance of BillingState for TLC.                                *)
EXTENDS BillingState, TLC

CONSTANTS s1, s2, c1, c2

Symmetry == Permutations(Subscription) \cup Permutations(Customer)
=============================================================================
