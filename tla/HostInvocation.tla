--------------------------- MODULE HostInvocation ---------------------------
(* The invocations of a role, one after another: the orchestrator's        *)
(* _invoke, ExternalCLIAdapter.invoke (runtimes/adapters.py), the host as  *)
(* a command (host_runner.invoke_role) or as an ACP session (acp_runner),  *)
(* its receipt (contracts/host_receipt.py), and the result the parent      *)
(* takes out of the transcript.  How a command is run and ended is in      *)
(* ProcessRunner; here its lines arrive one by one in the log and in       *)
(* on_line.  A line is what the parent can tell of it.                     *)
EXTENDS Naturals, Sequences, SequencesExt

CONSTANTS
  Calls,     \* the invocations that may be made, records of Invocations
  MaxCalls,  \* bound: invocations of a run
  MaxLines   \* bound: lines a host writes in an invocation

\* transport, whether the host is AGY with a limit for its first output,
\* whether a result file is asked for, and whether source may be changed.
Invocations == [transport : {"cli", "acp"}, agy : BOOLEAN, wants : BOOLEAN, readonly : BOOLEAN]

ASSUME CallsAssumption == Calls \subseteq Invocations
ASSUME BoundsAssumption == MaxCalls \in Nat /\ MaxLines \in Nat

VARIABLES
  pc,         \* how far the current invocation is
  call,       \* what is invoked
  calls,      \* how many invocations were begun
  projection, \* the prompt sealed under prompt-projections/
  said,       \* what the host said, in the order it was heard
  log,        \* stdout.log and stderr.log of the call
  heard,      \* what on_line or the session callback noted
  exit,       \* how the host ended
  touched,    \* source files were changed
  receipt,    \* receipt.json of the call
  result,     \* the adapter's result
  artifact,   \* the result file: which call wrote it, and from which answer
  outcome     \* what _invoke returned or raised

hostVars == <<projection, said, log, heard, exit, touched>>
vars == <<pc, call, calls, hostVars, receipt, result, artifact, outcome>>

-----------------------------------------------------------------------------
None == "none"
Streams == {"stdout", "stderr"}

(* The lines.  Plain text; text that repeats the markers of the prompt; a  *)
(* result between markers, as text or inside a JSON message; provider      *)
(* reasoning and what is left of it; a rate limit; a model name; a line    *)
(* the parser fails on; AGY's "timeout waiting for response".              *)
Text  == {"text", "echo", "answer", "wait"}
Json  == {"message", "thinking", "redacted", "limit", "model_a", "model_b", "bad"}
Lines == Text \cup Json
Host  == Lines \ {"redacted"}
Marked == {"echo", "answer", "message"}
Names  == {"model_a", "model_b"}

NoLog   == [s \in Streams |-> <<>>]
Nothing == [model |-> None, evidence |-> "CLI_REQUESTED_ONLY", limited |-> FALSE]
NoResult == [verdict |-> None, code |-> None, valid |-> FALSE, model |-> None]
End(verdict, code) == [verdict |-> verdict, code |-> code]
Sealed(prompt, l, model, pid) == [prompt |-> prompt, log |-> l, model |-> model, pid |-> pid]
NoReceipt  == Sealed(None, NoLog, None, None)
NoArtifact == [by |-> 0, from |-> None]
NoOutcome  == End(None, None)

Init ==
  /\ pc = "idle" /\ call \in Calls /\ calls = 0
  /\ projection = None /\ said = <<>> /\ log = NoLog /\ heard = Nothing
  /\ exit = None /\ touched = FALSE
  /\ receipt = NoReceipt /\ result = NoResult /\ artifact = NoArtifact /\ outcome = NoOutcome

\* The adapter replaces the result path and appends how to return a result.
Sent(c) == IF c.wants THEN "given+markers" ELSE "given"

\* A mutant of Projected: the projection stays what _invoke recorded.
ProjectedBeforeAdapter(c) == "given"

\* _seal_final_projection: the prompt that is sent replaces the one that
\* _invoke recorded.
Projected(c) == Sent(c)

Begin(c) ==
  /\ pc \in {"idle", "done"} /\ calls < MaxCalls
  /\ call' = c /\ calls' = calls + 1
  /\ said' = <<>> /\ log' = NoLog /\ exit' = None /\ touched' = FALSE
  /\ heard' = [Nothing EXCEPT !.evidence = IF c.transport = "acp" THEN "UNAVAILABLE" ELSE @]
  /\ receipt' = NoReceipt /\ result' = NoResult
  /\ UNCHANGED artifact

(* _invoke up to the adapter, and the adapter up to the host.  The call    *)
(* has a directory of its own: it is numbered by those before it.          *)
Invoke(c) ==
  /\ Begin(c) /\ projection' = Projected(c) /\ outcome' = NoOutcome
  /\ pc' = IF c.transport = "acp" THEN "handshake" ELSE "launch"

\* The host lacks a capability, or the role's view of the brief fails.
Refused(c) ==
  /\ Begin(c) /\ projection' = None /\ pc' = "done"
  /\ outcome' \in {End("NEEDS_INPUT", "ROUTING_OWNER_ACTION_REQUIRED"),
                   End("BLOCKED", "ROLE_VIEW_FAILED")}

-----------------------------------------------------------------------------
(* The host as a command.                                                  *)

\* invoke_role returns before there is a directory or a receipt.
CliMissing ==
  /\ pc = "launch"
  /\ result' = [result EXCEPT !.verdict = "BLOCKED"]
  /\ pc' = "validate"
  /\ UNCHANGED <<call, calls, hostVars, receipt, artifact, outcome>>

Launch ==
  /\ pc = "launch" /\ pc' = "host"
  /\ UNCHANGED <<call, calls, hostVars, receipt, result, artifact, outcome>>

Raised == End("ERROR", "SYSTEM_ERROR")

(* adapter.invoke raises: the command cannot be run, on_line or a reader   *)
(* failed (the process is then ended first), a file cannot be written.     *)
(* What the prompt of a session raises is only the failure of the session. *)
HostRaises ==
  /\ pc \in {"launch", "handshake", "host", "seal", "validate", "extract"}
  /\ pc' = "done" /\ outcome' = Raised
  /\ UNCHANGED <<call, calls, hostVars, receipt, result, artifact>>

\* _sanitize_persisted_host_line
Persisted(line) == IF line = "thinking" THEN "redacted" ELSE line

(* on_line: the first model counts; a parser that fails only lowers the    *)
(* evidence and the next lines are parsed again.                           *)
OnLine(h, line) ==
  CASE line \in Names /\ h.model = None -> [h EXCEPT !.model = line, !.evidence = "HOST_OUTPUT"]
    [] line = "limit" -> [h EXCEPT !.limited = TRUE]
    [] line = "bad"   -> [h EXCEPT !.evidence = "UNAVAILABLE"]
    [] OTHER -> h

HostWrites(s, line) ==
  /\ pc = "host" /\ Len(said) < MaxLines
  /\ said' = Append(said, [on |-> s, line |-> line])
  /\ log' = [log EXCEPT ![s] = Append(@, Persisted(line))]
  /\ heard' = OnLine(heard, line)
  /\ UNCHANGED <<pc, call, calls, projection, exit, touched, receipt, result, artifact, outcome>>

HostTouches ==
  /\ pc \in {"host", "prompt"} /\ touched' = TRUE
  /\ UNCHANGED <<pc, call, calls, projection, said, log, heard, exit, receipt, result, artifact, outcome>>

Exits(why) ==
  /\ exit' = why /\ pc' = "seal"
  /\ UNCHANGED <<call, calls, projection, said, log, heard, touched, receipt, result, artifact, outcome>>

HostExits == pc = "host" /\ \E why \in {"ok", "failed"} : Exits(why)

\* A mutant of Deadline: nobody looks at the clock.
DeadlineIgnored == FALSE

\* The time of the call, and AGY's time for a first output, run out.
Deadline ==
  \/ pc \in {"host", "prompt"} /\ Exits("timeout")
  \/ pc = "host" /\ call.agy /\ said = <<>> /\ Exits("silent")

\* _redact_private_reasoning_log, once the process has ended.
Redacted(l) == [s \in Streams |-> [i \in DOMAIN l[s] |-> Persisted(l[s][i])]]

\* What the end of the process says of a failure.
FailureCode ==
  CASE exit = "silent" -> "HOST_INITIAL_OUTPUT_TIMEOUT"
    [] call.agy /\ exit # "ok" /\ Contains(log["stderr"], "wait") -> "HOST_PROVIDER_RESPONSE_TIMEOUT"
    [] heard.limited -> "HOST_RATE_LIMITED"
    [] OTHER -> None

Succeeded == exit = "ok"

(* The rest of invoke_role: redaction, the receipt over what the logs now  *)
(* hold, the trace and the result.                                         *)
SealCli ==
  /\ pc = "seal" /\ call.transport = "cli"
  /\ log' = Redacted(log)
  /\ receipt' = Sealed(Sent(call), log', heard.model, "child")
  /\ result' = [verdict |-> IF Succeeded THEN "PASS" ELSE "FAIL", code |-> FailureCode,
                valid |-> FALSE, model |-> heard.model]
  /\ pc' = "validate"
  /\ UNCHANGED <<call, calls, projection, said, heard, exit, touched, artifact, outcome>>

-----------------------------------------------------------------------------
(* The host as an ACP session (acp_runner._invoke).                        *)

\* initialize, new_session and the configuration; the session reads the
\* model back or does not.
Handshake ==
  /\ pc = "handshake" /\ pc' = "prompt"
  /\ \/ heard' = [heard EXCEPT !.evidence = "ACP_REQUESTED_ONLY"]
     \/ heard' = [heard EXCEPT !.evidence = "ACP_SESSION_CONFIG", !.model = "requested"]
  /\ UNCHANGED <<call, calls, projection, said, log, exit, touched, receipt, result, artifact, outcome>>

SessionFails == pc \in {"handshake", "prompt"} /\ Exits("failed")
SessionEnds  == pc = "prompt" /\ Exits("ok")

\* session_update: an update becomes an event; the agent's own messages on
\* stderr go to the log.
SessionUpdate(line) ==
  /\ pc = "prompt" /\ Len(said) < MaxLines
  /\ \/ said' = Append(said, [on |-> "session", line |-> line]) /\ UNCHANGED log
     \/ /\ said' = Append(said, [on |-> "stderr", line |-> line])
        /\ log' = [log EXCEPT !["stderr"] = Append(@, line)]
  /\ UNCHANGED <<pc, call, calls, projection, heard, exit, touched, receipt, result, artifact, outcome>>

(* The end of invoke_acp_role, and seal_acp_receipt: only a session that   *)
(* ended by itself left its details; otherwise the receipt names the       *)
(* process of the parent.                                                  *)
SealAcp ==
  /\ pc = "seal" /\ call.transport = "acp"
  /\ LET model == IF Succeeded THEN heard.model ELSE None
     IN /\ receipt' = Sealed(Sent(call), log, model, IF Succeeded THEN "child" ELSE "parent")
        /\ result' = [verdict |-> IF Succeeded THEN "PASS" ELSE "FAIL", code |-> None,
                      valid |-> FALSE, model |-> model]
  /\ pc' = "validate"
  /\ UNCHANGED <<call, calls, hostVars, artifact, outcome>>

-----------------------------------------------------------------------------
\* validate_host_receipt, for a receipt of this run.
ReceiptError ==
  CASE receipt = NoReceipt -> "HOST_RECEIPT_MISSING"
    [] receipt.prompt # projection -> "HOST_RECEIPT_PROMPT_MISMATCH"
    [] receipt.log # log -> "HOST_RECEIPT_TRANSCRIPT_MISMATCH"
    [] OTHER -> None

Validate ==
  /\ pc = "validate" /\ pc' = IF call.wants THEN "extract" ELSE "classify"
  /\ result' = IF ReceiptError = None
               THEN [result EXCEPT !.valid = TRUE]
               ELSE [result EXCEPT !.verdict = "FAIL", !.code = ReceiptError]
  /\ UNCHANGED <<call, calls, hostVars, receipt, artifact, outcome>>

(* _extract_result_payload.  Of a whole log only the first pair of markers *)
(* is tried, and inside JSON the payload is escaped; then each JSON line   *)
(* is tried for itself.                                                    *)
FirstMarked(l) == SelectInSeq(l, LAMBDA line : line \in Marked)
InText(l) == FirstMarked(l) > 0 /\ l[FirstMarked(l)] = "answer"
InJson(l) == Contains(l, "message")

Payload ==
  CASE InText(log["stdout"]) -> "stdout text"
    [] InJson(log["stdout"]) -> "stdout message"
    [] InText(log["stderr"]) -> "stderr text"
    [] InJson(log["stderr"]) -> "stderr message"
    [] OTHER -> None

\* A mutant of Missing: a result without payload is left as it is.
MissingIgnored(r) == r

Missing(r) == [r EXCEPT !.verdict = "FAIL", !.code = "ROLE_RESULT_MISSING"]

\* _materialize_parent_artifact
Materialize ==
  /\ pc = "extract" /\ pc' = "classify"
  /\ IF Payload = None
     THEN result' = Missing(result) /\ UNCHANGED artifact
     ELSE artifact' = [by |-> calls, from |-> Payload] /\ UNCHANGED result
  /\ UNCHANGED <<call, calls, hostVars, receipt, outcome>>

Blocks == {"HOST_RATE_LIMITED", "HOST_INITIAL_OUTPUT_TIMEOUT", "HOST_PROVIDER_RESPONSE_TIMEOUT"}

(* The end of _invoke, after its trace and events (what the tokens cost is *)
(* in TaskExecutor).                                                       *)
Outcome ==
  CASE call.readonly /\ touched -> End("FAILED", "MUTATED_SOURCE")
    [] result.verdict # "PASS" /\ result.code \in Blocks -> End("NEEDS_INPUT", result.code)
    [] result.verdict # "PASS" -> End("FAILED", "INVOCATION_FAILED")
    [] call.wants /\ artifact = NoArtifact -> End("FAILED", "ROLE_RESULT_MISSING")
    [] OTHER -> End("PASS", "ROLE_COMPLETED")

Classify ==
  /\ pc = "classify" /\ pc' = "done" /\ outcome' = Outcome
  /\ UNCHANGED <<call, calls, hostVars, receipt, result, artifact>>

Ended == pc = "done" /\ calls = MaxCalls /\ UNCHANGED vars

-----------------------------------------------------------------------------
Parent == Launch \/ CliMissing \/ SealCli \/ SealAcp \/ Validate \/ Materialize \/ Classify

Next ==
  \/ \E c \in Calls : Invoke(c) \/ Refused(c)
  \/ Parent \/ HostRaises \/ Deadline
  \/ \E s \in Streams, line \in Host : HostWrites(s, line)
  \/ HostTouches \/ HostExits
  \/ Handshake \/ SessionFails \/ SessionEnds
  \/ \E line \in Text : SessionUpdate(line)
  \/ Ended

Spec == Init /\ [][Next]_vars

(* The parent goes on, and its clock runs; nothing is assumed of the host. *)
FairSpec == Spec /\ WF_vars(Parent) /\ WF_vars(Deadline)

-----------------------------------------------------------------------------
(* A role is completed only if its host ended with success and the parent  *)
(* holds the evidence of this very call: a receipt over the prompt that    *)
(* was sent and the transcript as it is on disk, and, where a result was   *)
(* asked for, a result file that comes from an answer of this call and not *)
(* from an earlier call that had the same path (adapters.invoke, _invoke). *)
CompletedIsEvidenced ==
  outcome = End("PASS", "ROLE_COMPLETED") =>
    /\ exit = "ok" /\ result.valid
    /\ receipt.prompt = projection /\ receipt.log = log
    /\ call.readonly => ~touched
    /\ call.wants => /\ artifact.by = calls
                     /\ \E i \in DOMAIN said : said[i].line \in {"answer", "message"}

(* The receipt of a call that was run is accepted, unless the adapter      *)
(* raised: what is redacted, what is hashed, and what is sealed before the *)
(* adapter adds to the prompt, agree in the end (host_runner 372-411,      *)
(* adapters._seal_final_projection).                                       *)
OwnReceiptAccepted ==
  pc \in {"extract", "classify", "done"} /\ exit # None /\ outcome # Raised => result.valid

(* A command that is run, and a prompt that is sent, end within their time,*)
(* whatever the host does.                                                 *)
DeadlineKept == pc \in {"host", "prompt"} ~> pc = "done"

=============================================================================
