---------------------------- MODULE MCRadarSync ----------------------------
(* Small instances of RadarSync: one tender of TED, the others of a        *)
(* national source.                                                         *)
EXTENDS RadarSync, TLC

CONSTANTS loop, post

SomeSources == {"ted", "national"}

OwnSource == [t \in Tender |-> IF t = 1 THEN "ted" ELSE "national"]

FitsAll == [a \in Account |-> Tender]

(* The two callers run the same code.                                       *)
Callers == Permutations(Sync)
=============================================================================
