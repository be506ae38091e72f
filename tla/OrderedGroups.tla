---------------------------- MODULE OrderedGroups ----------------------------
(***************************************************************************)
(* What a run of several tasks promises: tasks carry a group number, and   *)
(* the groups are worked through in order.  A task is released only when   *)
(* every selected task of a smaller group has been settled (its job is no  *)
(* longer waited for, or it was skipped).  The coordinator may stop at any *)
(* moment; nothing is released after that.                                 *)
(***************************************************************************)
EXTENDS Naturals

CONSTANTS Tasks,     \* the tasks
          GroupOf    \* the group number of each task

VARIABLES phase,     \* how far each task of the run is
          open       \* is the coordinator still running?

Phases == {"out", "waiting", "released", "settled"}

TypeOK ==
  /\ phase \in [Tasks -> Phases]
  /\ open \in BOOLEAN

Init ==
  /\ phase = [t \in Tasks |-> "out"]
  /\ open = TRUE

\* The run fixes once and for all which tasks belong to it.
Select(S) ==
  /\ open
  /\ \A t \in Tasks : phase[t] = "out"
  /\ phase' = [t \in Tasks |-> IF t \in S THEN "waiting" ELSE "out"]
  /\ UNCHANGED open

EarlierGroupsOver(t) ==
  \A u \in Tasks : GroupOf[u] < GroupOf[t] => phase[u] \in {"out", "settled"}

Release(t) ==
  /\ open
  /\ phase[t] = "waiting"
  /\ EarlierGroupsOver(t)
  /\ phase' = [phase EXCEPT ![t] = "released"]
  /\ UNCHANGED open

Skip(t) ==
  /\ open
  /\ phase[t] = "waiting"
  /\ EarlierGroupsOver(t)
  /\ phase' = [phase EXCEPT ![t] = "settled"]
  /\ UNCHANGED open

Settle(t) ==
  /\ open
  /\ phase[t] = "released"
  /\ phase' = [phase EXCEPT ![t] = "settled"]
  /\ UNCHANGED open

Stop ==
  /\ open
  /\ open' = FALSE
  /\ UNCHANGED phase

Next ==
  \/ \E S \in SUBSET Tasks : Select(S)
  \/ \E t \in Tasks : Release(t) \/ Skip(t) \/ Settle(t)
  \/ Stop

vars == <<phase, open>>
Spec == Init /\ [][Next]_vars
=============================================================================
