---------------------------- MODULE MCConnectors ----------------------------
EXTENDS Connectors

CONSTANTS l1, l2

(* Only in an event feed can one lot's notices hide another's.              *)
OneOrTwoLots ==
  [c \in Connector |-> IF c = "uruguay" THEN Lot ELSE {l1}]

(* Canada refuses a tender without one; of the others the three largest      *)
(* instances leave it out.                                                  *)
SomeDeadlines ==
  [c \in Connector |->
     CASE c = "uruguay" -> {9}
       [] c \in {"canada", "korea", "netherlands", "switzerland"} -> {2, 9}
       [] OTHER -> {None, 2, 9}]
=============================================================================
