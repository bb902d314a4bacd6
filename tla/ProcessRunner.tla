--------------------------- MODULE ProcessRunner ----------------------------
(***************************************************************************)
(* Running a command of a role or a check (runtimes/process_runner.py):    *)
(* two reader threads move the lines of stdout and stderr from the pipes   *)
(* into a bounded queue, the main loop takes them out, watches the clock   *)
(* and the cancel event, and brings the process group down in three steps: *)
(* SIGTERM, SIGKILL, and closing the pipes under the readers.  The command *)
(* may start a helper that shares its pipes, its group, or neither.        *)
(***************************************************************************)
EXTENDS Naturals, Sequences, FiniteSets

CONSTANTS
  MaxWrites,   \* bound: lines written to the two streams
  QueueSize,   \* max_queued_lines
  Timers       \* which of "initial", "total" and "cancel" can strike

Pipes == {"stdout", "stderr"}
Procs   == {"leader", "helper"}

ASSUME ProcessRunnerAssumption ==
  /\ MaxWrites \in Nat /\ QueueSize \in Nat \ {0}
  /\ Timers \subseteq {"initial", "total", "cancel"}

VARIABLES
  alive,     \* the running processes; the leader is Popen's child
  group,     \* the members of the leader's process group
  holders,   \* the processes that hold the pipes open
  killed,    \* the processes that were sent SIGKILL
  wrote,     \* lines written to each pipe
  taken,     \* lines its reader took from it
  reader,    \* read, line, error, end, ended
  queue,     \* messages: [from, kind]
  stop,      \* stop_readers
  elapsed,   \* the timers that have run out in this phase
  main,      \* check, get, done
  phase,     \* none, terminated, killed, released
  cause,     \* none, cancelled, timed_out: what started the termination
  received,  \* received_output
  finished,  \* finished_streams
  delivered, \* lines given to on_line
  errors     \* callback and reader errors

procVars   == <<alive, group, holders>>
readerVars == <<taken, reader>>
mainVars   == <<main, phase, cause, received, finished, delivered, errors>>
prVars == <<procVars, killed, wrote, readerVars, queue, stop, elapsed, mainVars>>

PRInit ==
  /\ alive \in {{"leader"}, Procs}
  /\ group \in {{"leader"}, alive} /\ holders \in {{"leader"}, alive}
  /\ killed = {}
  /\ wrote = [s \in Pipes |-> 0] /\ taken = [s \in Pipes |-> 0]
  /\ reader = [s \in Pipes |-> "read"] /\ queue = <<>> /\ stop = FALSE
  /\ elapsed = {}
  /\ main = "check" /\ phase = "none" /\ cause = "none"
  /\ received = FALSE /\ finished = {}
  /\ delivered = [s \in Pipes |-> 0] /\ errors = {}

-----------------------------------------------------------------------------
(* The command and its helper.                                             *)
Open(s) == reader[s] \in {"read", "line", "error"}

\* Whoever holds the pipe may write while its reader keeps it open.
Write(s) ==
  /\ alive \cap holders # {} /\ Open(s)
  /\ wrote["stdout"] + wrote["stderr"] < MaxWrites
  /\ wrote' = [wrote EXCEPT ![s] = @ + 1]
  /\ UNCHANGED <<procVars, killed, readerVars, queue, stop, elapsed, mainVars>>

\* A process ends by itself or by a SIGTERM at any time, if it likes ...
Exit(p) ==
  /\ p \in alive /\ alive' = alive \ {p}
  /\ UNCHANGED <<group, holders, killed, wrote, readerVars, queue, stop, elapsed, mainVars>>

\* ... and by a SIGKILL whether it likes or not.
Die(p) == p \in killed /\ Exit(p)

-----------------------------------------------------------------------------
(* _read_stream.  A put waits for room in the queue.                       *)
Put(s, kind, next) ==
  /\ Len(queue) < QueueSize
  /\ queue' = Append(queue, [from |-> s, kind |-> kind])
  /\ reader' = [reader EXCEPT ![s] = next]
  /\ UNCHANGED taken

\* A mutant of AtEnd: the exit of the process ends its streams.
AtEndOfProcess(s) == "leader" \notin alive

AtEnd(s) == taken[s] = wrote[s] /\ alive \cap holders = {}

(* One read: a line, an error while it is written to the log, the end of   *)
(* the stream, or the stop event; otherwise nothing is there yet.          *)
Read(s) ==
  /\ reader[s] = "read"
  /\ \/ /\ ~stop /\ taken[s] < wrote[s]
        /\ taken' = [taken EXCEPT ![s] = @ + 1]
        /\ \E next \in {"line", "error"} : reader' = [reader EXCEPT ![s] = next]
     \/ /\ stop \/ AtEnd(s)
        /\ reader' = [reader EXCEPT ![s] = "end"] /\ UNCHANGED taken
  /\ UNCHANGED queue

ReaderStep(s) ==
  /\ \/ Read(s)
     \/ reader[s] = "line"  /\ Put(s, "line", "read")
     \/ reader[s] = "error" /\ Put(s, "error", "end")
     \/ reader[s] = "end"   /\ Put(s, "end", "ended")
  /\ UNCHANGED <<procVars, killed, wrote, stop, elapsed, mainVars>>

-----------------------------------------------------------------------------
(* The clock: the timers that count in each phase of the termination.      *)
Running ==
  CASE phase = "none" -> Timers
    [] phase = "terminated" -> {"grace"}
    [] phase = "killed" -> {"drain"}
    [] phase = "released" -> {}

TimeElapses(t) ==
  /\ t \in Running \ elapsed /\ main # "done"
  /\ elapsed' = elapsed \cup {t}
  /\ UNCHANGED <<procVars, killed, wrote, readerVars, queue, stop, mainVars>>

Exited == "leader" \notin alive   \* process.poll() is not None

(* _terminate: SIGTERM to the group, unless the leader has exited; what it *)
(* does to a process is its Exit.                                          *)
Terminate(why) == phase' = "terminated" /\ cause' = why /\ elapsed' = {} /\ UNCHANGED killed

\* The reason to begin a termination.
Reason ==
  IF "cancel" \in elapsed THEN "cancelled"
  ELSE IF "total" \in elapsed \/ ("initial" \in elapsed /\ ~received) THEN "timed_out"
  ELSE "none"

\* A mutant of Release: nobody takes the pipes away from the readers.
ReleaseNever == FALSE

Release == phase = "killed" /\ "drain" \in elapsed /\ finished # Pipes

Watch ==
  IF phase = "none" /\ Reason # "none" THEN Terminate(Reason) /\ UNCHANGED stop
  ELSE IF phase = "terminated" /\ "grace" \in elapsed
  THEN /\ phase' = "killed" /\ killed' = group /\ elapsed' = {}   \* _kill
       /\ UNCHANGED <<cause, stop>>
  ELSE IF Release
  THEN phase' = "released" /\ stop' = TRUE /\ elapsed' = {} /\ UNCHANGED <<cause, killed>>
  ELSE UNCHANGED <<phase, cause, killed, stop, elapsed>>

\* An error starts the termination unless one is under way.
Failed(error) ==
  /\ errors' = errors \cup {error}
  /\ IF phase = "none" THEN Terminate("none") ELSE UNCHANGED <<phase, cause, killed, elapsed>>

Over == finished = Pipes /\ Exited

(* The top of the loop: leave it, let a heartbeat callback fail, or watch. *)
Check ==
  /\ main = "check"
  /\ IF Over
     THEN main' = "done" /\ UNCHANGED <<phase, cause, killed, stop, elapsed, errors>>
     ELSE /\ main' = "get"
          /\ \/ Watch /\ UNCHANGED errors
             \/ /\ phase = "none" /\ ~Exited /\ "callback" \notin errors
                /\ Failed("callback") /\ UNCHANGED stop
  /\ UNCHANGED <<procVars, wrote, readerVars, queue, received, finished, delivered>>

(* The bottom of the loop: one message, or none after poll_interval.  A    *)
(* reader's error counts until the readers are stopped; after an error of  *)
(* the callback lines are taken and thrown away.                           *)
Take(m) ==
  /\ queue' = Tail(queue)
  /\ finished' = IF m.kind = "end" THEN finished \cup {m.from} ELSE finished
  /\ received' = (received \/ m.kind = "line")
  /\ \/ /\ m.kind = "error" /\ ~stop /\ "reader" \notin errors
        /\ Failed("reader") /\ UNCHANGED delivered
     \/ /\ m.kind = "line" /\ "callback" \notin errors
        /\ delivered' = [delivered EXCEPT ![m.from] = @ + 1]
        /\ Failed("callback") \/ UNCHANGED <<killed, phase, cause, elapsed, errors>>
     \/ /\ \/ m.kind = "end"
           \/ m.kind = "error" /\ (stop \/ "reader" \in errors)
           \/ m.kind = "line" /\ "callback" \in errors
        /\ UNCHANGED <<killed, phase, cause, elapsed, errors, delivered>>

Get ==
  /\ main = "get" /\ main' = "check"
  /\ IF queue # <<>> THEN Take(Head(queue))
     ELSE UNCHANGED <<queue, killed, phase, cause, received, finished, delivered, elapsed, errors>>
  /\ UNCHANGED <<procVars, wrote, readerVars, stop>>

MainStep == Check \/ Get

Returned == main = "done" /\ UNCHANGED prVars

PRNext ==
  \/ \E s \in Pipes : Write(s) \/ ReaderStep(s)
  \/ \E p \in Procs : Exit(p) \/ Die(p)
  \/ \E t \in {"initial", "total", "cancel", "grace", "drain"} : TimeElapses(t)
  \/ MainStep \/ Returned

PRSpec == PRInit /\ [][PRNext]_prVars

(* The three threads run, time passes, and SIGKILL takes effect; nothing   *)
(* else makes a process end.                                               *)
PRFairSpec ==
  /\ PRSpec
  /\ WF_prVars(MainStep)
  /\ \A s \in Pipes : WF_prVars(ReaderStep(s))
  /\ \A p \in Procs : WF_prVars(Die(p))
  /\ \A t \in {"total", "grace", "drain"} : WF_prVars(TimeElapses(t))

-----------------------------------------------------------------------------
(* A result without an error has all of the output: whatever the command   *)
(* and its helper wrote before the pipes were closed went through the      *)
(* queue to on_line, also when the process was long gone (the loop waits   *)
(* for both end messages); only a command whose pipes had to be taken away *)
(* loses lines.                                                            *)
AllOutputDelivered ==
  main = "done" /\ errors = {} /\ ~stop => delivered = wrote

(* With a total timeout every command is over at some time: whoever        *)
(* ignores SIGTERM, holds the pipes, left the group or floods the queue,   *)
(* and whichever callback failed; and then no reader is left that writes   *)
(* to the closed logs or waits for room in the queue.                      *)
ReadersGone == main = "done" => queue = <<>> /\ \A s \in Pipes : reader[s] = "ended"
Returns == "total" \in Timers => <>(main = "done") /\ []ReadersGone
=============================================================================
