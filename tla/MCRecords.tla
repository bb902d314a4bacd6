------------------------------ MODULE MCRecords ------------------------------
(***************************************************************************)
(* Two of the records of a run, the event log and the token ledger.  They  *)
(* share no state, so one is explored at a time while the other rests: an  *)
(* invariant over the variables of one of them holds in their composition  *)
(* if and only if it holds here.                                           *)
(***************************************************************************)
EXTENDS EventLog, Usage

VARIABLE subject   \* the record that is explored

recordVars == <<vars, usageVars, subject>>

\* The ledger rests with a host and session of no interest.
UsageRests ==
  /\ host = [i \in Invocations |-> CHOOSE h \in Hosts : TRUE]
  /\ session = [i \in Invocations |-> 0] /\ ~named

RecordsInit ==
  /\ Init /\ UsageInit
  /\ subject \in {"events", "usage"}
  /\ subject = "events" => UsageRests

RecordsNext ==
  /\ \/ subject = "events" /\ Next /\ UNCHANGED usageVars
     \/ subject = "usage" /\ UsageNext /\ UNCHANGED vars
  /\ UNCHANGED subject

RecordsSpec == RecordsInit /\ [][RecordsNext]_recordVars
=============================================================================
