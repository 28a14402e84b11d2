---------------------------- MODULE MCClaimProofs ---------------------------
(* Budgets: requests about a case alone; two proofs next to requests that   *)
(* advance the case; entries that overlap the end of the window and a proof.*)
EXTENDS ClaimProofs, TLC

CONSTANTS c1, c2, ana, bob, k1, terms, e1, p1, a1, o1, o2, x1, x2

Symmetry == Permutations({ana, bob}) \cup Permutations({c1, c2})
              \cup Permutations({o1, o2}) \cup Permutations({x1, x2})

Budgets ==
  {[requests |-> Unlimited, days |-> 0, entries |-> 0, proofs |-> 0],
   [requests |-> 3, days |-> 0, entries |-> 0, proofs |-> 1],
   [requests |-> 2, days |-> 0, entries |-> 0, proofs |-> 2],
   [requests |-> 1, days |-> 1, entries |-> 3, proofs |-> 1],
   [requests |-> 1, days |-> 2, entries |-> 5, proofs |-> 0]}
=============================================================================
