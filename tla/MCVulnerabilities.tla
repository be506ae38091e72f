------------------------- MODULE MCVulnerabilities -------------------------
(* One actor that does everything on two issues and two tasks, which are    *)
(* interchangeable; and a job and a request that overlap, on one of each.   *)
EXTENDS Vulnerabilities, TLC

CONSTANTS i1, i2, t1, t2, none, job, web

Alone == (job :> Kinds) @@ (web :> {})
Overlapping == (job :> {"scan", "clean"}) @@ (web :> {"edit", "create"})
OneOrNone == {t \in AnyTraits : ~(t.ticket /\ t.minor)}
BothOrNone == {[ticket |-> b, minor |-> b] : b \in BOOLEAN}

MCSettings ==
  {[may |-> Alone, issues |-> Issues, tasks |-> Tasks, traits |-> OneOrNone, reports |-> 2]}
  \cup {[may |-> Overlapping, issues |-> {i}, tasks |-> {t}, traits |-> BothOrNone,
          reports |-> 1] : i \in Issues, t \in Tasks}

Symmetry == Permutations(Issues) \cup Permutations(Tasks)
=============================================================================
