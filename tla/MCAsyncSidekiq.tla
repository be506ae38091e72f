--------------------------- MODULE MCAsyncSidekiq ---------------------------
(***************************************************************************)
(* Two results in two slices of one, so that pushing the second slice can  *)
(* fail when the worker of the first is under way.                         *)
(***************************************************************************)
EXTENDS AsyncSidekiq

CONSTANTS r1, r2

Two == {r1, r2}
=============================================================================
