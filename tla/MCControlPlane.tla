--------------------------- MODULE MCControlPlane ---------------------------
(* Small instances of ControlPlane for TLC. *)
EXTENDS ControlPlane

\* Each session works in a repository of its own.
OwnRepository == [s \in Sessions |-> s]
=============================================================================
