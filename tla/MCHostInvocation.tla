-------------------------- MODULE MCHostInvocation --------------------------
(* Small instances of HostInvocation for TLC. *)
EXTENDS HostInvocation

Cli(agy, wants, readonly) ==
  [transport |-> "cli", agy |-> agy, wants |-> wants, readonly |-> readonly]
Acp(wants) == [transport |-> "acp", agy |-> FALSE, wants |-> wants, readonly |-> FALSE]

\* An implementer, a planner on AGY, one without a result file, and sessions.
MCCalls == {Cli(FALSE, TRUE, FALSE), Cli(TRUE, TRUE, TRUE), Cli(FALSE, FALSE, FALSE),
            Acp(TRUE), Acp(FALSE)}
=============================================================================
