---------------------------- MODULE MCControlPlane ----------------------------
(* Small instances of ControlPlane for TLC.                                 *)
EXTENDS ControlPlane, TLC

CONSTANTS a1, a2, t1, t2, h1, h2

(* The two shapes of a registry baton: next after active, or with it.       *)
After(s) == [active |-> Head(s), next |-> Tail(s)]
Within(s) == [active |-> Head(s), next |-> s]

TwoTaskPlans ==
  {[a \in App |-> After(<<t1, t2>>)], [a \in App |-> Within(<<t1, t2>>)]}

(* The first application has two tasks, the other one.                      *)
TwoAppPlans ==
  {[a \in App |-> IF a = a1 THEN After(<<t1, t2>>) ELSE Within(<<t1>>)]}

RankOf == [a \in App |-> IF a = a1 THEN 1 ELSE 2]

Symmetry == Permutations(Host)
=============================================================================
