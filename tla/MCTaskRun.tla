------------------------------ MODULE MCTaskRun ------------------------------
(* Two threads that run jobs of two tasks: one saves results itself, the    *)
(* other is an AsyncSidekiq task with a worker.  q2 lacks a setting.        *)
EXTENDS TaskRun, TLC

CONSTANTS t1, t2, k1, k2, u1, s1, q1, q2, a1, p1, shot

MCKind == (s1 :> "sync") @@ (q1 :> "provider") @@ (q2 :> "provider") @@ (a1 :> "async")
            @@ (p1 :> "part") @@ (shot :> "screenshot")
MCTask == (s1 :> k1) @@ (q1 :> k1) @@ (q2 :> k1) @@ (a1 :> k2) @@ (p1 :> k2)
MCKindOf == [j \in Jobs |-> MCKind[j]]
MCTaskOf == [j \in Jobs \ {shot} |-> MCTask[j]]
MCParentOf == [j \in Jobs \cap {p1} |-> a1]
=============================================================================
