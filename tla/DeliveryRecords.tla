-------------------------- MODULE DeliveryRecords ---------------------------
(***************************************************************************)
(* The records a run keeps of its own progress while they are still empty, *)
(* and those it writes when it ends (engine/orchestrator.py: __init__ and  *)
(* the four finalizers).                                                   *)
(***************************************************************************)
EXTENDS TruthGate

NoReport == [checks |-> None, diff |-> None, sealed |-> None,
             checkedOn |-> {}, guardedOn |-> {}]
NoReview == [verdict |-> None, simplicity |-> None, mode |-> None]
NoFiles  == [input |-> FALSE, truth |-> None, error |-> FALSE,
             outcome |-> None, run |-> "ACTIVE"]
Nothing  == {"nothing"}
Unclassified == [tier |-> None, reviewer |-> FALSE]

-----------------------------------------------------------------------------
(* The records each way of ending a run writes, in the order of the code.  *)
\* A mutant of Records: the outcome is announced before the truth report.
RecordsOutcomeFirst(v) ==
  CASE v = "NEEDS_INPUT"  -> <<"input", "outcome", "run">>
    [] v = "SYSTEM_ERROR" -> <<"error", "outcome", "run">>
    [] OTHER              -> <<"outcome", "truth", "run">>

Records(v) ==
  CASE v = "NEEDS_INPUT"  -> <<"input", "outcome", "run">>
    [] v = "SYSTEM_ERROR" -> <<"error", "outcome", "run">>
    [] OTHER              -> <<"truth", "run", "outcome">>
=============================================================================
