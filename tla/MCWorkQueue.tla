----------------------------- MODULE MCWorkQueue -----------------------------
(* Small instances of WorkQueue for TLC.                                    *)
EXTENDS WorkQueue

CONSTANTS a1, t1, t2, w1, w2, h1, h2

OneAppOf == [w \in Worker |-> a1]
=============================================================================
