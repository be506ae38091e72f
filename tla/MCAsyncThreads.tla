--------------------------- MODULE MCAsyncThreads ---------------------------
(* Three threads on two connections work off three results.                 *)
EXTENDS AsyncThreads

CONSTANTS x, y, z, t1, t2, t3
=============================================================================
