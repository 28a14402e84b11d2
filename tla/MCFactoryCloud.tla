---------------------------- MODULE MCFactoryCloud ----------------------------
(* Small instances of FactoryCloud for TLC: one application, two tasks.     *)
EXTENDS FactoryCloud, TLC

CONSTANTS a1, t1, t2, h1, h2, w1, w2

OnePlan == {[a \in App |-> [active |-> t1, next |-> <<t2>>]]}

RankOf == [a \in App |-> 1]

OneAppOf == [w \in Worker |-> a1]

Symmetry == Permutations(Host) \cup Permutations(Worker)
=============================================================================
