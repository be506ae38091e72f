---------------------------- MODULE MCSidekiqPool ----------------------------
(* Two runs of two and one tasks, with a part each, on four threads: the   *)
(* limits are 2 and 1 instead of 5 and 10, and the concurrency one more    *)
(* than their sum.                                                         *)
EXTENDS SidekiqPool, TLC

CONSTANTS r1, r2, a1, a2, b1, p1, p2, p3

MCRunOf  == (a1 :> r1) @@ (a2 :> r1) @@ (b1 :> r2)
MCTaskOf == (p1 :> a1) @@ (p2 :> a2) @@ (p3 :> b1)

Standard ==
  [j \in Runs \cup Tasks \cup Parts |->
     IF j \in Runs THEN "runner" ELSE IF j \in Tasks THEN "worker" ELSE "async_worker"]
=============================================================================
