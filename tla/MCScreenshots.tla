--------------------------- MODULE MCScreenshots ----------------------------
(* Six bounds, each around one interleaving: a run over two results that    *)
(* is performed twice, with one thread and with two; a job that is answered *)
(* late twice; a job that raises as often as Sidekiq performs it; a run     *)
(* whose two jobs are both captured; and a run and a request for the same   *)
(* result.                                                                  *)
EXTENDS Screenshots

CONSTANTS x, y

Both == <<x, y>>

Bound(t, n, r, q, c, s) ==
  [threads |-> t, results |-> n, runs |-> r,
   requests |-> q, captures |-> c, mishaps |-> s]

MCBounds == {Bound(1, 2, 2, 0, 0, 1), Bound(2, 2, 2, 0, 0, 1),
             Bound(2, 1, 1, 0, 3, 1), Bound(2, 1, 1, 0, 0, 2),
             Bound(2, 2, 1, 0, 2, 0),
             Bound(2, 1, 1, 1, 2, 0)}
=============================================================================
