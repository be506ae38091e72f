--------------------------- MODULE MCResultImport ---------------------------
(* Loops of two tasks that share a tag; the loops a and c are runs of one   *)
(* task.                                                                    *)
EXTENDS ResultImport

CONSTANTS a, b, c, k1, k2, own, shared, u1, u2, bad

MCTaskOf == [l \in Imports |-> IF l = b THEN k2 ELSE k1]
MCTagsOf == (k1 :> {own, shared}) @@ (k2 :> {shared})
=============================================================================
