---------------------------- MODULE MCTaskRunner ----------------------------
(***************************************************************************)
(* Two tasks in two groups, the one of the first group on a custom queue   *)
(* that may have no process; nothing that goes wrong is bounded.           *)
(***************************************************************************)
EXTENDS TaskRunner

CONSTANTS t1, t2

Pair == {t1, t2}
PairGroups == [t \in Pair |-> IF t = t2 THEN 2 ELSE 1]
OnCustomQueue == {t1}
=============================================================================
