--------------------------- MODULE MCTaskSchedule ---------------------------
(***************************************************************************)
(* A request that may do everything, and a job or booting process that     *)
(* overlaps with it or does not.                                           *)
(***************************************************************************)
EXTENDS TaskSchedule, TLC

CONSTANTS t1, t2, web, job

Overlapping ==
  (web :> Kinds \ {"run"}) @@ (job :> {"run", "boot"})
=============================================================================
