---------------------------- MODULE ControlPlane ----------------------------
(* The MCP server (mcp_server.py) and the records that name the active run *)
(* of a repository (contracts/run_state.py): sessions whose runs are made  *)
(* by threads, owners who answer the question a run ended with and so      *)
(* start a continuation, clients that poll, a server that is killed and    *)
(* restarted, and abort-run of the command line.  What a run does between  *)
(* its start and its verdict is in Delivery; how a reader meets a half     *)
(* written line is in EventLog.                                            *)
EXTENDS Naturals, Sequences, FiniteSets, FiniteSetsExt, SequencesExt

CONSTANTS
  Sessions,   \* sessions that may be opened
  Repository, \* the repository of each session
  Truths,     \* the verdicts the truth gate may give
  MaxRuns,    \* bound: runs started
  MaxEvents,  \* bound: events of a run
  LastKill,   \* bound: the server is killed before more runs than that
  Page,       \* events in one response (100 in the code)
  Keep        \* run.retainedRuns

ASSUME TruthsAssumption == Truths \cap {"none", "NEEDS_INPUT", "ERROR"} = {}
ASSUME BoundsAssumption == {MaxRuns, MaxEvents, LastKill} \subseteq Nat /\ {Page, Keep} \subseteq Nat \ {0}

VARIABLES
  up,      \* the server process lives
  runs,    \* the orchestrators made, in order, with the records of their runs
  active,  \* active-run.json of each repository, 0 when there is none
  session, \* _sessions
  poll,    \* the request each client has under way
  client   \* what each client knows

vars == <<up, runs, active, session, poll, client>>

-----------------------------------------------------------------------------
None == "none"
Repositories == {Repository[s] : s \in Sessions}
Verdicts == Truths \cup {"NEEDS_INPUT", "ERROR"}
Terminal == {"COMPLETED", "FAILED", "NEEDS_INPUT"}

NoSession == [run |-> 0, status |-> None, answers |-> {}]
NoPoll    == [run |-> 0, status |-> None, cursor |-> 0, full |-> FALSE, read |-> FALSE]
NoAnswer  == [run |-> 0, status |-> None, outcome |-> None, cursor |-> 0, full |-> FALSE]

\* An orchestrator for session s; pc is where its thread is.
Orchestrator(s, answers) ==
  [of |-> s, answers |-> answers, pc |-> "queued", dir |-> None, events |-> 0,
   todo |-> <<>>, verdict |-> None, outcome |-> None,
   status |-> None, final |-> None, by |-> 0]

Init ==
  /\ up = TRUE /\ runs = <<>>
  /\ active = [r \in Repositories |-> 0]
  /\ session = [s \in Sessions |-> NoSession]
  /\ poll = [s \in Sessions |-> NoPoll]
  /\ client = [s \in Sessions |-> NoAnswer]

Repo(r) == Repository[runs[r].of]
Alive(r) == up /\ runs[r].pc \notin {"queued", "returned", "killed"}
Set(r, record) == runs' = [runs EXCEPT ![r] = record]

-----------------------------------------------------------------------------
(* The tools.                                                              *)
Open(s, answers) ==
  /\ runs' = Append(runs, Orchestrator(s, answers))
  /\ session' = [session EXCEPT ![s] =
                   [run |-> Len(runs) + 1, status |-> "QUEUED", answers |-> answers]]

\* proofloop_start_run
StartSession(s) ==
  /\ up /\ session[s] = NoSession /\ Len(runs) < MaxRuns
  /\ Open(s, {}) /\ client' = [client EXCEPT ![s] = NoAnswer]
  /\ UNCHANGED <<up, active, poll>>

\* A mutant of Answerable: a run that still works is replaced too.
AnswerableAnyTime(s) == session[s] # NoSession

Answerable(s) == session[s].status = "NEEDS_INPUT"

\* A mutant of Continued: the answers are added to the first request.
ContinuedFromFirst(s, answer) == {answer}

Continued(s, answer) == session[s].answers \cup {answer}

(* proofloop_answer_question: the answer is written into the directory of  *)
(* the paused run (which raises if that was pruned), and the continuation  *)
(* gets the request with all answers so far.                               *)
Answer(s) ==
  /\ up /\ Answerable(s) /\ Len(runs) < MaxRuns
  /\ runs[session[s].run].dir # "pruned"
  /\ Open(s, Continued(s, session[s].run))
  /\ UNCHANGED <<up, active, poll, client>>

\* proofloop_run_status: the state is read under the lock ...
PollSession(s) ==
  /\ up /\ session[s] # NoSession /\ poll[s] = NoPoll
  /\ poll' = [poll EXCEPT ![s] = [NoPoll EXCEPT !.run = session[s].run, !.status = session[s].status]]
  /\ UNCHANGED <<up, runs, active, session, client>>

\* A client starts at the beginning of a run it has not seen.
Cursor(s) == IF client[s].run = poll[s].run THEN client[s].cursor ELSE 0

Readable(r) == runs[r].dir = "there"

NextEvent(s) ==
  IF Readable(poll[s].run) THEN Min({runs[poll[s].run].events, Cursor(s) + Page}) ELSE Cursor(s)

\* ... then, without it, the events after the cursor (_events_after) ...
ReadEvents(s) ==
  /\ up /\ poll[s] # NoPoll /\ ~poll[s].read
  /\ poll' = [poll EXCEPT ![s].read = TRUE, ![s].cursor = NextEvent(s),
                          ![s].full = NextEvent(s) = Cursor(s) + Page]
  /\ UNCHANGED <<up, runs, active, session, client>>

\* A mutant of Reported: the status is looked up when the answer is built.
ReportedLate(s) == session[s].status

Reported(s) == poll[s].status

\* run-outcome.json, or else the result the session has.
OutcomeRead(r, status) ==
  IF Readable(r) /\ runs[r].outcome # None THEN runs[r].outcome
  ELSE IF status \in Terminal THEN runs[r].verdict ELSE None

\* ... and the outcome.
Respond(s) ==
  /\ up /\ poll[s].read
  /\ client' = [client EXCEPT ![s] =
       [run |-> poll[s].run, status |-> Reported(s), cursor |-> poll[s].cursor,
        full |-> poll[s].full, outcome |-> OutcomeRead(poll[s].run, poll[s].status)]]
  /\ poll' = [poll EXCEPT ![s] = NoPoll]
  /\ UNCHANGED <<up, runs, active, session>>

-----------------------------------------------------------------------------
(* A run, by the thread of _run_session.                                   *)
Begin(r) ==
  /\ up /\ runs[r].pc = "queued"
  /\ Set(r, [runs[r] EXCEPT !.pc = "start"])
  /\ session' = [session EXCEPT ![runs[r].of].status = "RUNNING"]
  /\ UNCHANGED <<up, active, poll, client>>

\* Of the directories of a repository the Keep that changed last stay.
Older(r) == {q \in DOMAIN runs : Repo(q) = Repo(r) /\ runs[q].dir = "there" /\ q # r}
Pruned(r) == {q \in Older(r) : Cardinality({p \in Older(r) : p > q}) >= Keep}

\* start_run: old records are pruned, then the run gets its directory ...
CreateRecord(r) ==
  /\ up /\ runs[r].pc = "start"
  /\ runs' = [q \in DOMAIN runs |->
                IF q = r THEN [runs[r] EXCEPT !.pc = "activate", !.dir = "there", !.status = "ACTIVE"]
                ELSE IF q \in Pruned(r) THEN [runs[q] EXCEPT !.dir = "pruned"] ELSE runs[q]]
  /\ UNCHANGED <<up, active, session, poll, client>>

\* A mutant of NowActive: an active run is not replaced.
NowActiveIfNone(r) == IF active[Repo(r)] = 0 THEN r ELSE active[Repo(r)]

NowActive(r) == r

\* ... and is the active one.
Activate(r) ==
  /\ up /\ runs[r].pc = "activate"
  /\ active' = [active EXCEPT ![Repo(r)] = NowActive(r)]
  /\ Set(r, [runs[r] EXCEPT !.pc = "work"])
  /\ UNCHANGED <<up, session, poll, client>>

Emit(r) ==
  /\ up /\ runs[r].pc \in {"work", "publish"} /\ runs[r].events < MaxEvents
  /\ Set(r, [runs[r] EXCEPT !.events = @ + 1])
  /\ UNCHANGED <<up, active, session, poll, client>>

\* The order in which the finalizers write.
Records(v) ==
  IF v \in Truths THEN <<"record", "unlink", "outcome">>
                  ELSE <<"outcome", "record", "unlink">>

Decide(r) ==
  /\ up /\ runs[r].pc = "work"
  /\ \E v \in Verdicts :
       Set(r, [runs[r] EXCEPT !.pc = "publish", !.verdict = v, !.todo = Records(v)])
  /\ UNCHANGED <<up, active, session, poll, client>>

\* finalize_run closes the run that active-run.json names, with the verdict
\* of the run that calls it (0 is abort-run), and removes the file.
Closes(run, a, by, v) ==
  IF a = 0 THEN run
  ELSE [run EXCEPT ![a].status = "FINALIZED", ![a].final = v, ![a].by = by]

Written(r, file) ==
  CASE file = "outcome" -> [runs EXCEPT ![r].outcome = runs[r].verdict]
    [] file = "record"  -> Closes(runs, active[Repo(r)], r, runs[r].verdict)
    [] file = "unlink"  -> runs

Publish(r) ==
  /\ up /\ runs[r].pc = "publish" /\ runs[r].todo # <<>>
  /\ LET file == Head(runs[r].todo)
     IN /\ runs' = [Written(r, file) EXCEPT ![r].todo = Tail(@)]
        /\ active' = IF file = "unlink" THEN [active EXCEPT ![Repo(r)] = 0] ELSE active
  /\ UNCHANGED <<up, session, poll, client>>

\* A mutant of Settled: only a question changes the status of the session.
SettledByQuestion(v) == IF v = "NEEDS_INPUT" THEN "NEEDS_INPUT" ELSE "RUNNING"

Settled(v) == IF v = "NEEDS_INPUT" THEN "NEEDS_INPUT" ELSE "COMPLETED"

Return(r) ==
  /\ up /\ runs[r].pc = "publish" /\ runs[r].todo = <<>>
  /\ Set(r, [runs[r] EXCEPT !.pc = "returned"])
  /\ session' = [session EXCEPT ![runs[r].of].status = Settled(runs[r].verdict)]
  /\ UNCHANGED <<up, active, poll, client>>

(* A write fails while a truth verdict is published: run makes it an error *)
(* of its own and publishes that.                                          *)
PublishError(r) ==
  /\ up /\ runs[r].pc = "publish" /\ runs[r].verdict \in Truths
  /\ Set(r, [runs[r] EXCEPT !.verdict = "ERROR", !.todo = Records("ERROR")])
  /\ UNCHANGED <<up, active, session, poll, client>>

Gone(run) == [run EXCEPT !.pc = "killed", !.todo = <<>>]

\* run raises: a finalizer failed, or start_run did.
Raise(r) ==
  /\ up /\ runs[r].pc \in {"start", "activate", "publish"}
  /\ Set(r, Gone(runs[r]))
  /\ session' = [session EXCEPT ![runs[r].of].status = "FAILED"]
  /\ UNCHANGED <<up, active, poll, client>>

-----------------------------------------------------------------------------
(* The server is killed: its threads and sessions are gone, and what its   *)
(* clients know is of no use any more; the files stay.                     *)
Killed ==
  /\ up /\ Len(runs) <= LastKill /\ up' = FALSE
  /\ runs' = [r \in DOMAIN runs |->
                IF runs[r].pc = "returned" THEN runs[r] ELSE Gone(runs[r])]
  /\ session' = [s \in Sessions |-> NoSession]
  /\ poll' = [s \in Sessions |-> NoPoll] /\ client' = [s \in Sessions |-> NoAnswer]
  /\ UNCHANGED active

Restart ==
  /\ ~up /\ Len(runs) < MaxRuns /\ up' = TRUE
  /\ UNCHANGED <<runs, active, session, poll, client>>

(* abort-run closes what a killed run left; like the code, the model takes *)
(* one process at a time for granted on a repository.                      *)
Abort(repo) ==
  /\ active[repo] # 0 /\ \A r \in DOMAIN runs : Repo(r) = repo => ~Alive(r)
  /\ runs' = Closes(runs, active[repo], 0, "BLOCKED")
  /\ active' = [active EXCEPT ![repo] = 0]
  /\ UNCHANGED <<up, session, poll, client>>

Ended ==
  /\ Len(runs) = MaxRuns /\ \A r \in DOMAIN runs : runs[r].pc \in {"returned", "killed"}
  /\ UNCHANGED vars

Thread(r) == \/ Begin(r) \/ CreateRecord(r) \/ Activate(r) \/ Decide(r)
             \/ Publish(r) \/ Return(r)

Next ==
  \/ \E s \in Sessions : StartSession(s) \/ Answer(s) \/ PollSession(s) \/ ReadEvents(s) \/ Respond(s)
  \/ \E r \in DOMAIN runs : Thread(r) \/ Emit(r) \/ PublishError(r) \/ Raise(r)
  \/ Killed \/ Restart \/ \E repo \in Repositories : Abort(repo)
  \/ Ended

Spec == Init /\ [][Next]_vars

(* A thread that was started goes on: the run itself ends (Delivery).      *)
FairSpec == Spec /\ \A r \in 1..MaxRuns : WF_vars(r \in DOMAIN runs /\ Thread(r))

-----------------------------------------------------------------------------
(* A session has one run at a time, and is not closed or waiting while it  *)
(* works, however many clients answer the same question.                   *)
OneRunPerSession ==
  \A r \in DOMAIN runs : up /\ runs[r].pc \notin {"returned", "killed"} =>
    /\ session[runs[r].of].run = r
    /\ session[runs[r].of].status \in {"QUEUED", "RUNNING"}

(* A continuation is asked for with every answer its session was given, by *)
(* answers named after the runs that asked, and only after such runs.      *)
AnswersKept ==
  \A r \in DOMAIN runs :
    runs[r].answers # {} =>
      LET before == Max(runs[r].answers)
      IN /\ runs[before].verdict = "NEEDS_INPUT" /\ runs[before].of = runs[r].of
         /\ runs[r].answers = runs[before].answers \cup {before}

(* What a client is told of a run that is over is final, although status,  *)
(* events and outcome are read one after another: if the page is not full, *)
(* it was given every event (unless the run was pruned), and the outcome   *)
(* is the one of the run: a question if the session waits, none if it is   *)
(* completed.                                                              *)
LastAnswerIsFinal ==
  \A s \in Sessions : LET c == client[s] IN
    c.status \in Terminal =>
      /\ c.full \/ c.cursor = runs[c.run].events \/ runs[c.run].dir = "pruned"
      /\ c.status # "FAILED" =>
           /\ c.outcome = runs[c.run].verdict
           /\ c.status = "NEEDS_INPUT" <=> c.outcome = "NEEDS_INPUT"

(* A run is closed by itself or by abort-run, never by another run of the  *)
(* repository, although active-run.json may be left from a run that was    *)
(* killed; and one that returned is closed, with its verdict or with the   *)
(* truth verdict whose publication failed (run_state.finalize_run).  Runs  *)
(* of a repository are one after another: the program takes that for granted.*)
RecordIsOwn ==
  \A r \in DOMAIN runs :
    /\ runs[r].status = "FINALIZED" => runs[r].by \in {0, r}
    /\ runs[r].pc = "returned" =>
         /\ runs[r].status = "FINALIZED" /\ runs[r].by = r
         /\ \/ runs[r].final = runs[r].verdict
            \/ runs[r].verdict = "ERROR" /\ runs[r].final \in Truths

(* A session that was opened or continued comes to an end or to a question,*)
(* unless the server is killed.                                            *)
SessionSettles ==
  \A s \in Sessions : session[s].status = "QUEUED" ~> session[s].status \in Terminal \cup {None}
=============================================================================
