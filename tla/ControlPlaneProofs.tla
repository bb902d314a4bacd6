------------------------- MODULE ControlPlaneProofs -------------------------
(***************************************************************************)
(* Proofs about the MCP server, for every number of sessions, runs, events *)
(* and answers: a session has one run at a time, its answers are kept, and *)
(* a record is closed by its own run.                                      *)
(***************************************************************************)
EXTENDS ControlPlane, TLAPS

-----------------------------------------------------------------------------
(* Types.                                                                  *)
Todos == { <<"record", "unlink", "outcome">>, <<"outcome", "record", "unlink">>,
           <<"record", "unlink">>, <<"unlink", "outcome">>, <<"unlink">>, <<"outcome">>, <<>> }

RunType == [of : Sessions, answers : SUBSET Nat,
            pc : {"queued", "start", "activate", "work", "publish", "returned", "killed"},
            dir : {None, "there", "pruned"}, events : Nat, todo : Todos,
            verdict : Verdicts \cup {None}, outcome : Verdicts \cup {None},
            status : {None, "ACTIVE", "FINALIZED"},
            final : Verdicts \cup {None, "BLOCKED"}, by : Nat]

Statuses == {None, "QUEUED", "RUNNING"} \cup Terminal

TypeInv ==
  /\ up \in BOOLEAN
  /\ runs \in Seq(RunType)
  /\ active \in [Repositories -> Nat]
  /\ session \in [Sessions -> [run : Nat, status : Statuses, answers : SUBSET Nat]]

(* What is left of the records of a verdict.                               *)
LEMMA TodoTail ==
  ASSUME NEW t \in Todos, t # <<>>
  PROVE  /\ Tail(t) \in Todos /\ Head(t) \in {"record", "unlink", "outcome"}
         /\ Head(t) = "record"  => t \in {<<"record", "unlink", "outcome">>, <<"record", "unlink">>}
         /\ Head(t) = "unlink"  => t \in {<<"unlink", "outcome">>, <<"unlink">>}
         /\ Head(t) = "outcome" => t \in {<<"outcome", "record", "unlink">>, <<"outcome">>}
<1>1. CASE t = <<"record", "unlink", "outcome">>
  BY <1>1 DEF Todos
<1>2. CASE t = <<"outcome", "record", "unlink">>
  BY <1>2 DEF Todos
<1>3. CASE t = <<"record", "unlink">>
  BY <1>3 DEF Todos
<1>4. CASE t = <<"unlink", "outcome">>
  BY <1>4 DEF Todos
<1>5. CASE t = <<"unlink">>
  BY <1>5 DEF Todos
<1>6. CASE t = <<"outcome">>
  BY <1>6 DEF Todos
<1>. QED  BY <1>1, <1>2, <1>3, <1>4, <1>5, <1>6 DEF Todos

(* One record of the sequence is replaced.                                 *)
LEMMA SetOK ==
  ASSUME runs \in Seq(RunType), NEW r \in DOMAIN runs, NEW new \in RunType, Set(r, new)
  PROVE  /\ runs' \in Seq(RunType) /\ DOMAIN runs' = DOMAIN runs /\ Len(runs') = Len(runs)
         /\ runs'[r] = new /\ \A q \in DOMAIN runs : q # r => runs'[q] = runs[q]
BY DEF Set

LEMMA IsASeq ==
  ASSUME NEW S, NEW n \in Nat, NEW f \in [1..n -> S]
  PROVE  f \in Seq(S) /\ Len(f) = n
OBVIOUS

(* finalize_run closes at most the run that is named.                      *)
Closed(run, by, v) == [run EXCEPT !.status = "FINALIZED", !.final = v, !.by = by]

LEMMA ClosedOK ==
  ASSUME NEW run \in RunType, NEW by \in Nat, NEW v \in Verdicts \cup {None, "BLOCKED"}
  PROVE  /\ Closed(run, by, v) \in RunType
         /\ Closed(run, by, v).of = run.of /\ Closed(run, by, v).answers = run.answers
         /\ Closed(run, by, v).pc = run.pc /\ Closed(run, by, v).verdict = run.verdict
         /\ Closed(run, by, v).todo = run.todo /\ Closed(run, by, v).status = "FINALIZED"
         /\ Closed(run, by, v).final = v /\ Closed(run, by, v).by = by
         /\ Closed(run, by, v).dir = run.dir /\ Closed(run, by, v).events = run.events
         /\ Closed(run, by, v).outcome = run.outcome
BY DEF Closed, RunType

(* The outcome of a run is written.                                        *)
Told(run, v) == [run EXCEPT !.outcome = v]

LEMMA ToldOK ==
  ASSUME NEW run \in RunType, NEW v \in Verdicts \cup {None}
  PROVE  /\ Told(run, v) \in RunType /\ Told(run, v).outcome = v
         /\ Told(run, v).of = run.of /\ Told(run, v).answers = run.answers
         /\ Told(run, v).pc = run.pc /\ Told(run, v).verdict = run.verdict
         /\ Told(run, v).todo = run.todo /\ Told(run, v).dir = run.dir
         /\ Told(run, v).events = run.events
BY DEF Told, RunType

LEMMA ClosesOK ==
  ASSUME runs \in Seq(RunType), NEW a \in DOMAIN runs \cup {0}, NEW by \in Nat,
         NEW v \in Verdicts \cup {None, "BLOCKED"}
  PROVE  /\ Closes(runs, a, by, v) \in Seq(RunType)
         /\ DOMAIN Closes(runs, a, by, v) = DOMAIN runs /\ Len(Closes(runs, a, by, v)) = Len(runs)
         /\ \A q \in DOMAIN runs : q # a => Closes(runs, a, by, v)[q] = runs[q]
         /\ a # 0 => Closes(runs, a, by, v)[a] = Closed(runs[a], by, v)
<1>1. CASE a = 0
  <2>1. Closes(runs, a, by, v) = runs
    BY <1>1 DEF Closes
  <2>. QED  BY <1>1, <2>1
<1>2. CASE a # 0
  <2>1. a \in DOMAIN runs /\ runs[a] \in RunType
    BY <1>2
  <2>2. Closed(runs[a], by, v) \in RunType
    BY <2>1, ClosedOK
  <2>3. Closes(runs, a, by, v) = [runs EXCEPT ![a] = Closed(runs[a], by, v)]
    BY <1>2, <2>1 DEF Closes, Closed
  <2>. QED  BY <1>2, <2>1, <2>2, <2>3
<1>. QED  BY <1>1, <1>2

-----------------------------------------------------------------------------
(* A session has one run at a time.  The invariant says to which run a     *)
(* session belongs, also when none of its runs lives, and where the names  *)
(* in active-run.json point.                                               *)
Live(r) == runs[r].pc \notin {"returned", "killed"}

SessionOK(s) ==
  /\ session[s].status = None => session[s] = NoSession
  /\ session[s].status # None =>
       /\ session[s].run \in DOMAIN runs /\ runs[session[s].run].of = s
       /\ session[s].answers = runs[session[s].run].answers
  /\ session[s].status = "NEEDS_INPUT" =>
       /\ runs[session[s].run].pc = "returned"
       /\ runs[session[s].run].verdict = "NEEDS_INPUT"

SessionInv ==
  /\ TypeInv
  /\ \A s \in Sessions : SessionOK(s)
  /\ \A repo \in Repositories : active[repo] \in DOMAIN runs \cup {0}
  /\ \A r \in DOMAIN runs : Live(r) =>
       /\ up /\ session[runs[r].of].run = r
       /\ session[runs[r].of].status \in {"QUEUED", "RUNNING"}

(* What a step of thread r may change: its own record, the run that is     *)
(* closed, the directories that are pruned and the status of its session.  *)
Threads(r) == Thread(r) \/ Emit(r) \/ PublishError(r) \/ Raise(r)

RunsChange(r) ==
  /\ runs' \in Seq(RunType) /\ DOMAIN runs' = DOMAIN runs /\ Len(runs') = Len(runs)
  /\ \A q \in DOMAIN runs :
       /\ runs'[q].of = runs[q].of /\ runs'[q].answers = runs[q].answers
       /\ q # r => runs'[q].pc = runs[q].pc /\ runs'[q].verdict = runs[q].verdict

StatusSet(r, status) == session' = [session EXCEPT ![runs[r].of].status = status]

SessionChange(r) ==
  \/ session' = session /\ Live(r)'
  \/ StatusSet(r, "RUNNING") /\ Live(r)'
  \/ StatusSet(r, "COMPLETED") /\ runs'[r].pc = "returned" /\ runs'[r].verdict # "NEEDS_INPUT"
  \/ StatusSet(r, "FAILED") /\ ~Live(r)'
  \/ StatusSet(r, "NEEDS_INPUT") /\ runs'[r].pc = "returned" /\ runs'[r].verdict = "NEEDS_INPUT"

LEMMA OwnRecordChange ==
  ASSUME runs \in Seq(RunType), NEW r \in DOMAIN runs, NEW new \in RunType, Set(r, new),
         new.of = runs[r].of, new.answers = runs[r].answers
  PROVE  RunsChange(r) /\ runs'[r] = new
BY SetOK DEF RunsChange

LEMMA ThreadStep ==
  ASSUME SessionInv, NEW r \in DOMAIN runs, Threads(r)
  PROVE  /\ Live(r) /\ up' = up /\ RunsChange(r) /\ SessionChange(r)
         /\ active' \in [Repositories -> DOMAIN runs \cup {0}]
<1>t. runs \in Seq(RunType) /\ runs[r] \in RunType
  BY DEF SessionInv, TypeInv
<1>a. active \in [Repositories -> DOMAIN runs \cup {0}] /\ Repo(r) \in Repositories
  BY <1>t DEF SessionInv, TypeInv, Repositories, Repo, RunType
<1>1. CASE Begin(r)
  <2>1. [runs[r] EXCEPT !.pc = "start"] \in RunType
    BY <1>t DEF RunType
  <2>2. RunsChange(r) /\ runs'[r] = [runs[r] EXCEPT !.pc = "start"]
    BY <1>1, <1>t, <2>1, OwnRecordChange DEF Begin, RunType
  <2>3. Live(r)'
    BY <1>t, <2>2 DEF Live, RunType
  <2>. QED  BY <1>1, <1>a, <2>2, <2>3 DEF Begin, SessionChange, StatusSet, Live
<1>2. CASE CreateRecord(r)
  <2>1. [runs[r] EXCEPT !.pc = "activate", !.dir = "there", !.status = "ACTIVE"] \in RunType
    BY <1>t DEF RunType
  <2>2. ASSUME NEW q \in DOMAIN runs
        PROVE  /\ runs[q] \in RunType /\ [runs[q] EXCEPT !.dir = "pruned"] \in RunType
               /\ runs'[q] \in RunType /\ runs'[q].of = runs[q].of /\ runs'[q].answers = runs[q].answers
               /\ q # r => runs'[q].pc = runs[q].pc /\ runs'[q].verdict = runs[q].verdict
    <3>1. runs[q] \in RunType
      BY <1>t
    <3>2. [runs[q] EXCEPT !.dir = "pruned"] \in RunType
      BY <3>1 DEF RunType
    <3>3. \/ q = r /\ runs'[q] = [runs[r] EXCEPT !.pc = "activate", !.dir = "there", !.status = "ACTIVE"]
          \/ q # r /\ runs'[q] = [runs[q] EXCEPT !.dir = "pruned"]
          \/ q # r /\ runs'[q] = runs[q]
      BY <1>2 DEF CreateRecord
    <3>4. CASE q = r
      <4>1. runs'[r] = [runs[r] EXCEPT !.pc = "activate", !.dir = "there", !.status = "ACTIVE"]
        BY <3>3, <3>4
      <4>2. runs'[r] \in RunType /\ runs'[r].of = runs[r].of /\ runs'[r].answers = runs[r].answers
        BY <1>t, <2>1, <4>1 DEF RunType
      <4>. QED  BY <3>1, <3>2, <3>4, <4>2
    <3>5. CASE q # r
      BY <3>1, <3>2, <3>3, <3>5 DEF RunType
    <3>. QED  BY <3>4, <3>5
  <2>3. RunsChange(r)
    <3>1. DOMAIN runs' = DOMAIN runs /\ runs' = [q \in DOMAIN runs |-> runs'[q]]
      BY <1>2 DEF CreateRecord
    <3>2. DOMAIN runs = 1..Len(runs) /\ Len(runs) \in Nat
      BY <1>t
    <3>3. runs' \in [1..Len(runs) -> RunType]
      BY <2>2, <3>1, <3>2
    <3>4. runs' \in Seq(RunType) /\ Len(runs') = Len(runs)
      BY <3>2, <3>3, IsASeq
    <3>. QED  BY <2>2, <3>1, <3>4 DEF RunsChange
  <2>4. Live(r)'
    BY <1>2, <1>t DEF CreateRecord, Live, RunType
  <2>. QED  BY <1>2, <1>a, <2>3, <2>4 DEF CreateRecord, SessionChange, Live
<1>3. CASE Activate(r)
  <2>1. [runs[r] EXCEPT !.pc = "work"] \in RunType
    BY <1>t DEF RunType
  <2>2. RunsChange(r) /\ runs'[r] = [runs[r] EXCEPT !.pc = "work"]
    BY <1>3, <1>t, <2>1, OwnRecordChange DEF Activate, RunType
  <2>3. Live(r)'
    BY <1>t, <2>2 DEF Live, RunType
  <2>4. active' \in [Repositories -> DOMAIN runs \cup {0}]
    BY <1>3, <1>a DEF Activate, NowActive
  <2>. QED  BY <1>3, <2>2, <2>3, <2>4 DEF Activate, SessionChange, Live
<1>4. CASE Emit(r)
  <2>1. [runs[r] EXCEPT !.events = @ + 1] \in RunType
    <3>1. runs[r] \in RunType /\ runs[r].events + 1 \in Nat
      BY <1>t DEF RunType
    <3>2. \A run \in RunType, n \in Nat : [run EXCEPT !.events = n] \in RunType
      BY DEF RunType
    <3>. QED  BY <3>1, <3>2
  <2>2. RunsChange(r) /\ runs'[r] = [runs[r] EXCEPT !.events = @ + 1]
    BY <1>4, <1>t, <2>1, OwnRecordChange DEF Emit, RunType
  <2>3. Live(r)'
    BY <1>4, <1>t, <2>2 DEF Live, RunType, Emit
  <2>. QED  BY <1>4, <1>a, <2>2, <2>3 DEF Emit, SessionChange, Live
<1>5. CASE Decide(r)
  <2>1. PICK v \in Verdicts :
          Set(r, [runs[r] EXCEPT !.pc = "publish", !.verdict = v, !.todo = Records(v)])
    BY <1>5 DEF Decide
  <2>2. Records(v) \in Todos
    BY DEF Records, Todos
  <2>3. [runs[r] EXCEPT !.pc = "publish", !.verdict = v, !.todo = Records(v)] \in RunType
    BY <1>t, <2>2 DEF RunType
  <2>4. RunsChange(r) /\ runs'[r].pc = "publish"
    <3> DEFINE new == [runs[r] EXCEPT !.pc = "publish", !.verdict = v, !.todo = Records(v)]
    <3>1. new.of = runs[r].of /\ new.answers = runs[r].answers /\ new.pc = "publish"
      BY <1>t DEF RunType
    <3>2. new \in RunType /\ Set(r, new)
      BY <2>1, <2>3
    <3> HIDE DEF new
    <3>. QED  BY <1>t, <3>1, <3>2, OwnRecordChange
  <2>. QED  BY <1>5, <1>a, <2>4 DEF Decide, SessionChange, Live
<1>6. CASE Publish(r)
  <2> DEFINE file == Head(runs[r].todo)
  <2>1. runs[r].todo \in Todos /\ Tail(runs[r].todo) \in Todos /\ file \in {"record", "unlink", "outcome"}
    BY <1>6, <1>t, TodoTail DEF Publish, RunType
  <2>2. /\ Written(r, file) \in Seq(RunType) /\ DOMAIN Written(r, file) = DOMAIN runs
        /\ Len(Written(r, file)) = Len(runs)
        /\ \A q \in DOMAIN runs :
             /\ Written(r, file)[q].of = runs[q].of /\ Written(r, file)[q].answers = runs[q].answers
             /\ Written(r, file)[q].pc = runs[q].pc /\ Written(r, file)[q].verdict = runs[q].verdict
             /\ Written(r, file)[q].todo = runs[q].todo
    <3>1. CASE file = "outcome"
      <4> DEFINE new == Told(runs[r], runs[r].verdict)
      <4>1. /\ new \in RunType /\ new.of = runs[r].of /\ new.answers = runs[r].answers
            /\ new.pc = runs[r].pc /\ new.verdict = runs[r].verdict /\ new.todo = runs[r].todo
        <5>1. runs[r] \in RunType /\ runs[r].verdict \in Verdicts \cup {None}
          BY <1>t DEF RunType
        <5>. QED  BY <5>1, ToldOK
      <4>2. Written(r, file) = [runs EXCEPT ![r] = new]
        BY <1>t, <3>1 DEF Written, Told
      <4> HIDE DEF new
      <4>3. ASSUME NEW q \in DOMAIN runs PROVE runs[q] \in RunType
        BY <1>t
      <4>4. ASSUME NEW q \in DOMAIN runs
            PROVE  /\ Written(r, file)[q].of = runs[q].of
                   /\ Written(r, file)[q].answers = runs[q].answers
                   /\ Written(r, file)[q].pc = runs[q].pc
                   /\ Written(r, file)[q].verdict = runs[q].verdict
                   /\ Written(r, file)[q].todo = runs[q].todo
        BY <1>t, <4>1, <4>2, <4>3
      <4>. QED  BY <1>t, <4>1, <4>2, <4>4
    <3>2. CASE file = "record"
      <4>1. Written(r, file) = Closes(runs, active[Repo(r)], r, runs[r].verdict)
        BY <3>2 DEF Written
      <4>2. r \in Nat /\ runs[r].verdict \in Verdicts \cup {None, "BLOCKED"}
        BY <1>t DEF RunType
      <4>3. active[Repo(r)] \in DOMAIN runs \cup {0}
        BY <1>a
      <4>4. \A q \in DOMAIN runs : runs[q] \in RunType
        BY <1>t
      <4>5. /\ Closes(runs, active[Repo(r)], r, runs[r].verdict) \in Seq(RunType)
            /\ DOMAIN Closes(runs, active[Repo(r)], r, runs[r].verdict) = DOMAIN runs
            /\ Len(Closes(runs, active[Repo(r)], r, runs[r].verdict)) = Len(runs)
            /\ \A q \in DOMAIN runs : q # active[Repo(r)] =>
                 Closes(runs, active[Repo(r)], r, runs[r].verdict)[q] = runs[q]
            /\ active[Repo(r)] # 0 =>
                 Closes(runs, active[Repo(r)], r, runs[r].verdict)[active[Repo(r)]]
                   = Closed(runs[active[Repo(r)]], r, runs[r].verdict)
        <5>1. PICK a \in DOMAIN runs \cup {0}, v \in Verdicts \cup {None, "BLOCKED"} :
                a = active[Repo(r)] /\ v = runs[r].verdict
          BY <4>2, <4>3
        <5>2. /\ Closes(runs, a, r, v) \in Seq(RunType)
              /\ DOMAIN Closes(runs, a, r, v) = DOMAIN runs /\ Len(Closes(runs, a, r, v)) = Len(runs)
              /\ \A q \in DOMAIN runs : q # a => Closes(runs, a, r, v)[q] = runs[q]
              /\ a # 0 => Closes(runs, a, r, v)[a] = Closed(runs[a], r, v)
          BY <1>t, <4>2, ClosesOK
        <5>. QED  BY <5>1, <5>2
      <4>6. ASSUME NEW q \in DOMAIN runs
            PROVE  /\ Written(r, file)[q].of = runs[q].of
                   /\ Written(r, file)[q].answers = runs[q].answers
                   /\ Written(r, file)[q].pc = runs[q].pc
                   /\ Written(r, file)[q].verdict = runs[q].verdict
                   /\ Written(r, file)[q].todo = runs[q].todo
        <5>1. CASE q = active[Repo(r)]
          <6>1. q # 0
            BY <1>t
          <6>2. Written(r, file)[q] = Closed(runs[q], r, runs[r].verdict)
            BY <4>1, <4>5, <5>1, <6>1
          <6>. QED  BY <4>2, <4>4, <6>2, ClosedOK
        <5>2. CASE q # active[Repo(r)]
          BY <4>1, <4>5, <5>2
        <5>. QED  BY <5>1, <5>2
      <4>. QED  BY <4>1, <4>5, <4>6
    <3>3. CASE file = "unlink"
      BY <1>t, <3>3 DEF Written
    <3>. QED  BY <2>1, <3>1, <3>2, <3>3
  <2>3. runs' = [Written(r, file) EXCEPT ![r] = [Written(r, file)[r] EXCEPT !.todo = Tail(@)]]
    BY <1>6, <2>2 DEF Publish
  <2>4. active' \in [Repositories -> DOMAIN runs \cup {0}]
    BY <1>6, <1>a DEF Publish
  <2>5. Written(r, file)[r] \in RunType /\ Written(r, file)[r].todo = runs[r].todo
        /\ [Written(r, file)[r] EXCEPT !.todo = Tail(@)] \in RunType
    <3>1. Written(r, file)[r] \in RunType /\ Written(r, file)[r].todo = runs[r].todo
      BY <2>2
    <3>. QED  BY <2>1, <3>1 DEF RunType
  <2>6. RunsChange(r) /\ runs'[r].pc = runs[r].pc
    <3>1. runs' \in Seq(RunType) /\ DOMAIN runs' = DOMAIN runs /\ Len(runs') = Len(runs)
      BY <2>2, <2>3, <2>5
    <3>2. runs'[r] = [Written(r, file)[r] EXCEPT !.todo = Tail(@)]
      BY <2>2, <2>3
    <3>3. \A q \in DOMAIN runs : q # r => runs'[q] = Written(r, file)[q]
      BY <2>2, <2>3
    <3>4. /\ runs'[r].of = Written(r, file)[r].of /\ runs'[r].answers = Written(r, file)[r].answers
          /\ runs'[r].pc = Written(r, file)[r].pc
      BY <2>5, <3>2 DEF RunType
    <3>. QED  BY <2>2, <3>1, <3>3, <3>4 DEF RunsChange
  <2>7. Live(r)'
    BY <1>6, <2>6 DEF Live, Publish
  <2>. QED  BY <1>6, <2>4, <2>6, <2>7 DEF Publish, SessionChange, Live
<1>7. CASE Return(r)
  <2>1. [runs[r] EXCEPT !.pc = "returned"] \in RunType
    BY <1>t DEF RunType
  <2>2. RunsChange(r) /\ runs'[r] = [runs[r] EXCEPT !.pc = "returned"]
    BY <1>7, <1>t, <2>1, OwnRecordChange DEF Return, RunType
  <2>3. runs'[r].pc = "returned" /\ runs'[r].verdict = runs[r].verdict
    BY <1>t, <2>2 DEF RunType
  <2>4. \/ Settled(runs[r].verdict) = "NEEDS_INPUT" /\ runs[r].verdict = "NEEDS_INPUT"
        \/ Settled(runs[r].verdict) = "COMPLETED" /\ runs[r].verdict # "NEEDS_INPUT"
    BY DEF Settled
  <2>. QED  BY <1>7, <1>a, <2>2, <2>3, <2>4 DEF Return, SessionChange, StatusSet, Live
<1>8. CASE PublishError(r)
  <2>1. Records("ERROR") \in Todos
    BY DEF Records, Todos
  <2>2. [runs[r] EXCEPT !.verdict = "ERROR", !.todo = Records("ERROR")] \in RunType
    BY <1>t, <2>1 DEF RunType, Verdicts
  <2>3. RunsChange(r) /\ runs'[r] = [runs[r] EXCEPT !.verdict = "ERROR", !.todo = Records("ERROR")]
    BY <1>8, <1>t, <2>2, OwnRecordChange DEF PublishError, RunType
  <2>4. Live(r)'
    BY <1>8, <1>t, <2>3 DEF Live, RunType, PublishError
  <2>. QED  BY <1>8, <1>a, <2>3, <2>4 DEF PublishError, SessionChange, Live
<1>9. CASE Raise(r)
  <2>1. Gone(runs[r]) \in RunType /\ Gone(runs[r]).pc = "killed"
        /\ Gone(runs[r]).of = runs[r].of /\ Gone(runs[r]).answers = runs[r].answers
    BY <1>t DEF RunType, Gone, Todos
  <2>2. RunsChange(r) /\ runs'[r].pc = "killed"
    BY <1>9, <1>t, <2>1, OwnRecordChange DEF Raise
  <2>. QED  BY <1>9, <1>a, <2>2 DEF Raise, SessionChange, StatusSet, Live
<1>. QED  BY <1>1, <1>2, <1>3, <1>4, <1>5, <1>6, <1>7, <1>8, <1>9 DEF Threads, Thread
(* The other steps on runs: one more, all that lived are killed, one closed. *)
LEMMA AppendOK ==
  ASSUME runs \in Seq(RunType), NEW new \in RunType, runs' = Append(runs, new)
  PROVE  /\ runs' \in Seq(RunType) /\ Len(runs) + 1 \in Nat /\ Len(runs) + 1 \notin DOMAIN runs
         /\ DOMAIN runs' = DOMAIN runs \cup {Len(runs) + 1}
         /\ \A q \in DOMAIN runs : runs'[q] = runs[q] /\ q < Len(runs) + 1
         /\ runs'[Len(runs) + 1] = new
OBVIOUS

LEMMA OpenStep ==
  ASSUME SessionInv, NEW s \in Sessions, StartSession(s) \/ Answer(s)
  PROVE  LET n == Len(runs) + 1
             answers == runs'[n].answers
         IN  /\ up /\ up' = up /\ active' = active
             /\ n \in Nat /\ n \notin DOMAIN runs /\ DOMAIN runs' = DOMAIN runs \cup {n}
             /\ \A q \in DOMAIN runs : runs'[q] = runs[q] /\ q < n
             /\ runs' \in Seq(RunType) /\ runs'[n].of = s /\ runs'[n].pc = "queued" /\ runs'[n].status = None /\ runs'[n].dir = None /\ runs'[n].events = 0
             /\ session' = [session EXCEPT ![s] =
                              [run |-> n, status |-> "QUEUED", answers |-> answers]]
             /\ ~\E q \in DOMAIN runs : Live(q) /\ runs[q].of = s
             /\ \/ answers = {}
                \/ /\ session[s].run \in DOMAIN runs /\ runs[session[s].run].of = s
                   /\ runs[session[s].run].pc = "returned"
                   /\ runs[session[s].run].verdict = "NEEDS_INPUT"
                   /\ answers = runs[session[s].run].answers \cup {session[s].run}
<1>t. /\ runs \in Seq(RunType) /\ DOMAIN runs = 1..Len(runs) /\ Len(runs) \in Nat
      /\ session \in [Sessions -> [run : Nat, status : Statuses, answers : SUBSET Nat]]
  BY DEF SessionInv, TypeInv
<1>o. SessionOK(s) /\ \A q \in DOMAIN runs : Live(q) =>
        session[runs[q].of].run = q /\ session[runs[q].of].status \in {"QUEUED", "RUNNING"}
  BY DEF SessionInv
<1>w. \A answers \in SUBSET Nat :
        /\ Orchestrator(s, answers) \in RunType /\ Orchestrator(s, answers).of = s
        /\ Orchestrator(s, answers).answers = answers /\ Orchestrator(s, answers).pc = "queued"
        /\ Orchestrator(s, answers).status = None /\ Orchestrator(s, answers).dir = None /\ Orchestrator(s, answers).events = 0
  BY DEF Orchestrator, RunType, Todos
<1>1. CASE StartSession(s)
  <2>1. up /\ up' = up /\ active' = active /\ Open(s, {}) /\ session[s].status = None
    BY <1>1 DEF StartSession, NoSession
  <2>2. runs' = Append(runs, Orchestrator(s, {})) /\ Orchestrator(s, {}) \in RunType
        /\ Orchestrator(s, {}).of = s /\ Orchestrator(s, {}).answers = {} /\ Orchestrator(s, {}).pc = "queued"
        /\ Orchestrator(s, {}).status = None /\ Orchestrator(s, {}).dir = None /\ Orchestrator(s, {}).events = 0
    BY <2>1, <1>w DEF Open
  <2>3. /\ runs' \in Seq(RunType) /\ Len(runs) + 1 \in Nat /\ Len(runs) + 1 \notin DOMAIN runs
        /\ DOMAIN runs' = DOMAIN runs \cup {Len(runs) + 1}
        /\ \A q \in DOMAIN runs : runs'[q] = runs[q] /\ q < Len(runs) + 1
        /\ runs'[Len(runs) + 1] = Orchestrator(s, {})
    BY <1>t, <2>2, AppendOK
  <2>4. session' = [session EXCEPT ![s] =
                      [run |-> Len(runs) + 1, status |-> "QUEUED",
                       answers |-> runs'[Len(runs) + 1].answers]]
    BY <2>1, <2>2, <2>3 DEF Open
  <2>5. ~\E q \in DOMAIN runs : Live(q) /\ runs[q].of = s
    BY <1>o, <2>1 DEF None
  <2>. QED  BY <2>1, <2>2, <2>3, <2>4, <2>5
<1>2. CASE Answer(s)
  <2> DEFINE a == Continued(s, session[s].run)
  <2>1. up /\ up' = up /\ active' = active /\ Open(s, a) /\ session[s].status = "NEEDS_INPUT"
    BY <1>2 DEF Answer, Answerable
  <2>2. /\ session[s].run \in DOMAIN runs /\ runs[session[s].run].of = s
        /\ runs[session[s].run].pc = "returned" /\ runs[session[s].run].verdict = "NEEDS_INPUT"
        /\ a = runs[session[s].run].answers \cup {session[s].run}
    BY <1>o, <2>1 DEF SessionOK, None, Continued
  <2>3. a \in SUBSET Nat
    BY <1>t DEF Continued
  <2> HIDE DEF a
  <2>4. runs' = Append(runs, Orchestrator(s, a)) /\ Orchestrator(s, a) \in RunType
        /\ Orchestrator(s, a).of = s /\ Orchestrator(s, a).answers = a /\ Orchestrator(s, a).pc = "queued"
        /\ Orchestrator(s, a).status = None /\ Orchestrator(s, a).dir = None /\ Orchestrator(s, a).events = 0
    BY <2>1, <2>3, <1>w DEF Open
  <2>5. /\ runs' \in Seq(RunType) /\ Len(runs) + 1 \in Nat /\ Len(runs) + 1 \notin DOMAIN runs
        /\ DOMAIN runs' = DOMAIN runs \cup {Len(runs) + 1}
        /\ \A q \in DOMAIN runs : runs'[q] = runs[q] /\ q < Len(runs) + 1
        /\ runs'[Len(runs) + 1] = Orchestrator(s, a)
    BY <1>t, <2>4, AppendOK
  <2>6. session' = [session EXCEPT ![s] =
                      [run |-> Len(runs) + 1, status |-> "QUEUED",
                       answers |-> runs'[Len(runs) + 1].answers]]
    BY <2>1, <2>4, <2>5 DEF Open
  <2>7. ~\E q \in DOMAIN runs : Live(q) /\ runs[q].of = s
    BY <1>o, <2>1
  <2>. QED  BY <2>1, <2>2, <2>4, <2>5, <2>6, <2>7
<1>. QED  BY <1>1, <1>2

LEMMA KilledStep ==
  ASSUME SessionInv, Killed
  PROVE  /\ up' = FALSE /\ active' = active /\ session' = [s \in Sessions |-> NoSession]
         /\ runs' \in Seq(RunType) /\ DOMAIN runs' = DOMAIN runs
         /\ \A q \in DOMAIN runs :
              /\ runs'[q].pc \in {"returned", "killed"}
              /\ runs'[q].of = runs[q].of /\ runs'[q].answers = runs[q].answers
              /\ runs'[q] = IF runs[q].pc = "returned" THEN runs[q] ELSE Gone(runs[q])
<1>t. runs \in Seq(RunType) /\ DOMAIN runs = 1..Len(runs) /\ Len(runs) \in Nat
  BY DEF SessionInv, TypeInv
<1>1. \A run \in RunType : Gone(run) \in RunType /\ Gone(run).pc = "killed"
                           /\ Gone(run).of = run.of /\ Gone(run).answers = run.answers
  BY DEF Gone, RunType, Todos
<1>2. \A q \in DOMAIN runs : runs[q] \in RunType
  BY <1>t
<1>3. DOMAIN runs' = DOMAIN runs /\ runs' = [q \in DOMAIN runs |-> runs'[q]]
      /\ \A q \in DOMAIN runs : runs'[q] = IF runs[q].pc = "returned" THEN runs[q] ELSE Gone(runs[q])
  BY DEF Killed
<1>4. \A q \in DOMAIN runs : runs'[q] \in RunType /\ runs'[q].pc \in {"returned", "killed"}
                             /\ runs'[q].of = runs[q].of /\ runs'[q].answers = runs[q].answers
  BY <1>1, <1>2, <1>3
<1>5. runs' \in [1..Len(runs) -> RunType]
  BY <1>t, <1>3, <1>4
<1>. QED  BY <1>t, <1>3, <1>4, <1>5, IsASeq DEF Killed

LEMMA AbortStep ==
  ASSUME SessionInv, NEW repo \in Repositories, Abort(repo)
  PROVE  LET a == active[repo]
         IN  /\ a \in DOMAIN runs /\ up' = up /\ session' = session
             /\ active' = [active EXCEPT ![repo] = 0]
             /\ runs' \in Seq(RunType) /\ DOMAIN runs' = DOMAIN runs
             /\ \A q \in DOMAIN runs : q # a => runs'[q] = runs[q]
             /\ runs'[a] = Closed(runs[a], 0, "BLOCKED") /\ runs'[a].by = 0
             /\ \A q \in DOMAIN runs :
                  /\ runs'[q].of = runs[q].of /\ runs'[q].answers = runs[q].answers
                  /\ runs'[q].pc = runs[q].pc /\ runs'[q].verdict = runs[q].verdict
<1>t. runs \in Seq(RunType) /\ \A q \in DOMAIN runs : runs[q] \in RunType
  BY DEF SessionInv, TypeInv
<1>1. PICK a \in DOMAIN runs : a = active[repo] /\ a # 0
  BY <1>t DEF SessionInv, Abort
<1>2. runs' = Closes(runs, a, 0, "BLOCKED")
  BY <1>1 DEF Abort
<1>3. /\ runs' \in Seq(RunType) /\ DOMAIN runs' = DOMAIN runs
      /\ \A q \in DOMAIN runs : q # a => runs'[q] = runs[q]
      /\ runs'[a] = Closed(runs[a], 0, "BLOCKED")
  BY <1>t, <1>1, <1>2, ClosesOK
<1>4. /\ Closed(runs[a], 0, "BLOCKED").of = runs[a].of
      /\ Closed(runs[a], 0, "BLOCKED").answers = runs[a].answers
      /\ Closed(runs[a], 0, "BLOCKED").pc = runs[a].pc
      /\ Closed(runs[a], 0, "BLOCKED").verdict = runs[a].verdict
      /\ Closed(runs[a], 0, "BLOCKED").by = 0
  <2>1. runs[a] \in RunType /\ 0 \in Nat /\ "BLOCKED" \in Verdicts \cup {None, "BLOCKED"}
    BY <1>t
  <2>. QED  BY <2>1, ClosedOK
<1>5. \A q \in DOMAIN runs :
        /\ runs'[q].of = runs[q].of /\ runs'[q].answers = runs[q].answers
        /\ runs'[q].pc = runs[q].pc /\ runs'[q].verdict = runs[q].verdict
  BY <1>3, <1>4
<1>6. up' = up /\ session' = session /\ active' = [active EXCEPT ![repo] = 0]
  BY DEF Abort
<1>. QED  BY <1>1, <1>3, <1>4, <1>5, <1>6

(* The steps of a client and a restart change nothing the proofs are about. *)
LEMMA OtherSteps ==
  ASSUME [Next]_vars
  PROVE  \/ \E s \in Sessions : StartSession(s) \/ Answer(s)
         \/ \E r \in DOMAIN runs : Threads(r)
         \/ Killed
         \/ \E repo \in Repositories : Abort(repo)
         \/ UNCHANGED <<runs, active, session>> /\ (up' = up \/ (~up /\ up' = TRUE))
<1> DEFINE Same == UNCHANGED <<runs, active, session>> /\ (up' = up \/ (~up /\ up' = TRUE))
<1>1. ASSUME NEW s \in Sessions, PollSession(s) \/ ReadEvents(s) \/ Respond(s) PROVE Same
  BY <1>1 DEF PollSession, ReadEvents, Respond
<1>2. CASE Restart
  BY <1>2 DEF Restart
<1>3. CASE Ended \/ UNCHANGED vars
  <2>1. UNCHANGED vars
    BY <1>3 DEF Ended
  <2>2. UNCHANGED <<runs, active, session>> /\ up' = up
    BY <2>1 DEF vars
  <2>. QED  BY <2>2
<1>4. ASSUME NEW r \in DOMAIN runs, Thread(r) \/ Emit(r) \/ PublishError(r) \/ Raise(r)
      PROVE  Threads(r)
  BY <1>4 DEF Threads
<1>. QED  BY <1>1, <1>2, <1>3, <1>4 DEF Next

LEMMA NextSessionInv == SessionInv /\ [Next]_vars => SessionInv'
<1> SUFFICES ASSUME SessionInv, [Next]_vars PROVE SessionInv'
  OBVIOUS
<1>t. TypeInv /\ \A s \in Sessions : SessionOK(s)
  BY DEF SessionInv
<1>1. ASSUME NEW s \in Sessions, StartSession(s) \/ Answer(s) PROVE SessionInv'
  <2> DEFINE n == Len(runs) + 1
  <2>1. /\ up /\ up' = up /\ active' = active
        /\ n \in Nat /\ n \notin DOMAIN runs /\ DOMAIN runs' = DOMAIN runs \cup {n}
        /\ \A q \in DOMAIN runs : runs'[q] = runs[q]
        /\ runs' \in Seq(RunType) /\ runs'[n].of = s /\ runs'[n].pc = "queued"
        /\ session' = [session EXCEPT ![s] =
                         [run |-> n, status |-> "QUEUED", answers |-> runs'[n].answers]]
        /\ ~\E q \in DOMAIN runs : Live(q) /\ runs[q].of = s
    BY <1>1, OpenStep
  <2> HIDE DEF n
  <2>2. runs'[n].answers \in SUBSET Nat /\ \A q \in DOMAIN runs : runs[q] \in RunType
    <3>1. runs'[n] \in RunType /\ \A q \in DOMAIN runs : runs[q] \in RunType
      BY <2>1, <1>t DEF TypeInv
    <3>. QED  BY <3>1 DEF RunType
  <2>3. TypeInv'
    BY <1>t, <2>1, <2>2 DEF TypeInv, Statuses
  <2>4. ASSUME NEW z \in Sessions PROVE SessionOK(z)'
    <3>1. CASE z = s
      <4>1. session'[s] = [run |-> n, status |-> "QUEUED", answers |-> runs'[n].answers]
        BY <1>t, <2>1 DEF TypeInv
      <4>. QED  BY <2>1, <3>1, <4>1 DEF SessionOK, None
    <3>2. CASE z # s
      <4>1. session'[z] = session[z]
        BY <1>t, <2>1, <3>2 DEF TypeInv
      <4>. QED  BY <1>t, <2>1, <4>1 DEF SessionOK, None
    <3>. QED  BY <3>1, <3>2
  <2>5. ASSUME NEW q \in DOMAIN runs', Live(q)'
        PROVE  /\ up' /\ session'[runs'[q].of].run = q
               /\ session'[runs'[q].of].status \in {"QUEUED", "RUNNING"}
    <3>1. CASE q = n
      BY <1>t, <2>1, <3>1 DEF TypeInv
    <3>2. CASE q # n
      <4>1. q \in DOMAIN runs /\ runs'[q] = runs[q] /\ Live(q) /\ runs[q].of \in Sessions
        BY <2>1, <2>2, <2>5, <3>2 DEF Live, RunType
      <4>2. runs[q].of # s
        BY <2>1, <4>1
      <4>3. session'[runs[q].of] = session[runs[q].of]
        BY <1>t, <2>1, <4>1, <4>2 DEF TypeInv
      <4>. QED  BY <2>1, <4>1, <4>3 DEF SessionInv
    <3>. QED  BY <3>1, <3>2
  <2>6. \A repo \in Repositories : active'[repo] \in DOMAIN runs' \cup {0}
    BY <2>1 DEF SessionInv
  <2>. QED  BY <2>3, <2>4, <2>5, <2>6 DEF SessionInv
<1>2. ASSUME NEW r \in DOMAIN runs, Threads(r) PROVE SessionInv'
  <2>1. /\ Live(r) /\ up' = up /\ RunsChange(r) /\ SessionChange(r)
        /\ active' \in [Repositories -> DOMAIN runs \cup {0}]
    BY <1>2, ThreadStep
  <2>2. /\ \A q \in DOMAIN runs : runs[q] \in RunType /\ runs[q].of \in Sessions /\ q \in Nat
        /\ session \in [Sessions -> [run : Nat, status : Statuses, answers : SUBSET Nat]]
        /\ up \in BOOLEAN
    <3>1. \A q \in DOMAIN runs : runs[q] \in RunType /\ q \in Nat
      BY <1>t DEF TypeInv
    <3>2. \A run \in RunType : run.of \in Sessions
      BY DEF RunType
    <3>. QED  BY <1>t, <3>1, <3>2 DEF TypeInv
  <2>3. /\ up /\ session[runs[r].of].run = r /\ session[runs[r].of].status \in {"QUEUED", "RUNNING"}
    BY <2>1 DEF SessionInv
  <2>4. PICK status \in Statuses :
          /\ session' = [session EXCEPT ![runs[r].of].status = status]
          /\ \/ status = session[runs[r].of].status /\ Live(r)'
             \/ status = "RUNNING" /\ Live(r)'
             \/ status \in {"COMPLETED", "FAILED"} /\ ~Live(r)'
             \/ status = "NEEDS_INPUT" /\ runs'[r].pc = "returned" /\ runs'[r].verdict = "NEEDS_INPUT"
    <3>1. CASE session' = session /\ Live(r)'
      <4>1. session' = [session EXCEPT ![runs[r].of].status = session[runs[r].of].status]
        BY <2>2, <3>1
      <4>. QED  BY <2>3, <3>1, <4>1 DEF Statuses
    <3>. QED  BY <2>1, <3>1 DEF SessionChange, StatusSet, Statuses, Terminal, Live
  <2>5. TypeInv'
    <3>1. session' \in [Sessions -> [run : Nat, status : Statuses, answers : SUBSET Nat]]
      BY <2>2, <2>4
    <3>2. active' \in [Repositories -> Nat]
      BY <2>1, <2>2
    <3>. QED  BY <2>1, <2>2, <3>1, <3>2 DEF TypeInv, RunsChange
  <2>6. ASSUME NEW z \in Sessions PROVE SessionOK(z)'
    <3>1. CASE z = runs[r].of
      <4>1. /\ session'[z].run = r /\ session'[z].status = status
            /\ session'[z].answers = session[z].answers
        BY <2>2, <2>3, <2>4, <3>1
      <4>2. session[z].answers = runs[r].answers
        BY <1>t, <2>3, <3>1 DEF SessionOK, None
      <4>3. status # None
        BY <2>3, <2>4, <3>1 DEF None
      <4>4. status = "NEEDS_INPUT" => runs'[r].pc = "returned" /\ runs'[r].verdict = "NEEDS_INPUT"
        BY <2>3, <2>4
      <4>. QED  BY <2>1, <3>1, <4>1, <4>2, <4>3, <4>4 DEF SessionOK, RunsChange
    <3>2. CASE z # runs[r].of
      <4>1. session'[z] = session[z]
        BY <2>2, <2>4, <3>2
      <4>2. session[z].status # None => session[z].run \in DOMAIN runs /\ session[z].run # r
        BY <1>t, <3>2 DEF SessionOK
      <4>. QED  BY <1>t, <2>1, <4>1, <4>2 DEF SessionOK, RunsChange, None
    <3>. QED  BY <3>1, <3>2
  <2>7. ASSUME NEW q \in DOMAIN runs', Live(q)'
        PROVE  /\ up' /\ session'[runs'[q].of].run = q
               /\ session'[runs'[q].of].status \in {"QUEUED", "RUNNING"}
    <3>1. q \in DOMAIN runs /\ runs'[q].of = runs[q].of
      BY <2>1 DEF RunsChange
    <3>2. CASE q = r
      <4>1. status \in {"QUEUED", "RUNNING"}
        BY <2>3, <2>4, <2>7, <3>2 DEF Live
      <4>. QED  BY <2>1, <2>2, <2>3, <2>4, <3>1, <3>2, <4>1
    <3>3. CASE q # r
      <4>1. Live(q)
        BY <2>1, <2>7, <3>1, <3>3 DEF RunsChange, Live
      <4>2. session[runs[q].of].run = q /\ session[runs[q].of].status \in {"QUEUED", "RUNNING"}
        BY <3>1, <4>1 DEF SessionInv
      <4>3. runs[q].of # runs[r].of
        BY <2>3, <3>3, <4>2
      <4>. QED  BY <2>1, <2>2, <2>3, <2>4, <3>1, <4>2, <4>3
    <3>. QED  BY <3>2, <3>3
  <2>. QED  BY <2>1, <2>5, <2>6, <2>7 DEF SessionInv, RunsChange
<1>3. CASE Killed
  <2>1. /\ up' = FALSE /\ active' = active /\ session' = [s \in Sessions |-> NoSession]
        /\ runs' \in Seq(RunType) /\ DOMAIN runs' = DOMAIN runs
        /\ \A q \in DOMAIN runs : runs'[q].pc \in {"returned", "killed"}
    BY <1>3, KilledStep
  <2>2. TypeInv'
    BY <1>t, <2>1 DEF TypeInv, NoSession, Statuses
  <2>. QED  BY <2>1, <2>2 DEF SessionInv, SessionOK, NoSession, Live, None
<1>4. ASSUME NEW repo \in Repositories, Abort(repo) PROVE SessionInv'
  <2>1. /\ up' = up /\ session' = session /\ active' = [active EXCEPT ![repo] = 0]
        /\ runs' \in Seq(RunType) /\ DOMAIN runs' = DOMAIN runs
        /\ \A q \in DOMAIN runs :
             /\ runs'[q].of = runs[q].of /\ runs'[q].answers = runs[q].answers
             /\ runs'[q].pc = runs[q].pc /\ runs'[q].verdict = runs[q].verdict
    BY <1>4, AbortStep
  <2>2. TypeInv' /\ \A z \in Repositories : active'[z] \in DOMAIN runs' \cup {0}
    BY <1>t, <2>1 DEF TypeInv, SessionInv
  <2>3. \A s \in Sessions : SessionOK(s)'
    BY <1>t, <2>1 DEF SessionOK, None
  <2>4. \A q \in DOMAIN runs' : Live(q)' => Live(q)
    BY <2>1 DEF Live
  <2>. QED  BY <2>1, <2>2, <2>3, <2>4 DEF SessionInv
<1>5. CASE UNCHANGED <<runs, active, session>> /\ (up' = up \/ (~up /\ up' = TRUE))
  <2>1. up' \in BOOLEAN /\ (up => up')
    BY <1>5, <1>t DEF TypeInv
  <2>2. TypeInv'
    BY <1>5, <1>t, <2>1 DEF TypeInv
  <2>3. \A s \in Sessions : SessionOK(s)'
    BY <1>5, <1>t DEF SessionOK
  <2>4. \A r \in DOMAIN runs : Live(r)' => Live(r)
    BY <1>5 DEF Live
  <2>. QED  BY <1>5, <2>1, <2>2, <2>3, <2>4 DEF SessionInv
<1>. QED  BY <1>1, <1>2, <1>3, <1>4, <1>5, OtherSteps

LEMMA InitSessionInv == Init => SessionInv
BY DEF Init, SessionInv, TypeInv, SessionOK, NoSession, None, Live, Statuses, Repositories

(* A session has one run at a time, and is not closed or waiting while it  *)
(* works (mcp_server.py, answer_question and _run_session), for any number *)
(* of sessions, answers and deaths of the server.                          *)
THEOREM SessionsHaveOneRun == Spec => []OneRunPerSession
<1>1. SessionInv => OneRunPerSession
  BY DEF SessionInv, OneRunPerSession, Live
<1>. QED  BY InitSessionInv, NextSessionInv, <1>1, PTL DEF Spec

-----------------------------------------------------------------------------
(* The answers of a session are kept: what a run was asked with is what    *)
(* the run before it was asked with and the answer named after that one.   *)
Continues(r, b) ==
  /\ b < r /\ runs[b].pc = "returned" /\ runs[b].verdict = "NEEDS_INPUT"
  /\ runs[b].of = runs[r].of /\ runs[r].answers = runs[b].answers \cup {b}

AnswersInv ==
  /\ SessionInv
  /\ \A r \in DOMAIN runs :
       /\ \A b \in runs[r].answers : b \in Nat /\ b < r
       /\ runs[r].answers # {} => \E b \in DOMAIN runs : Continues(r, b)

(* A step that leaves the runs, their answers and the returned ones alone. *)
LEMMA AnswersStay ==
  ASSUME AnswersInv, SessionInv', DOMAIN runs' = DOMAIN runs,
         \A q \in DOMAIN runs :
           /\ runs'[q].of = runs[q].of /\ runs'[q].answers = runs[q].answers
           /\ runs[q].pc = "returned" =>
                runs'[q].pc = "returned" /\ runs'[q].verdict = runs[q].verdict
  PROVE  AnswersInv'
BY DEF AnswersInv, Continues

LEMMA NextAnswersInv == AnswersInv /\ [Next]_vars => AnswersInv'
<1> SUFFICES ASSUME AnswersInv, [Next]_vars PROVE AnswersInv'
  OBVIOUS
<1>i. SessionInv /\ SessionInv'
  BY NextSessionInv DEF AnswersInv
<1>1. ASSUME NEW s \in Sessions, StartSession(s) \/ Answer(s) PROVE AnswersInv'
  <2>n. PICK n : n = Len(runs) + 1
    OBVIOUS
  <2>1. /\ n \in Nat /\ n \notin DOMAIN runs /\ DOMAIN runs' = DOMAIN runs \cup {n}
        /\ \A q \in DOMAIN runs : runs'[q] = runs[q] /\ q < n
        /\ runs'[n].of = s
        /\ \/ runs'[n].answers = {}
           \/ /\ session[s].run \in DOMAIN runs /\ runs[session[s].run].of = s
              /\ runs[session[s].run].pc = "returned"
              /\ runs[session[s].run].verdict = "NEEDS_INPUT"
              /\ runs'[n].answers = runs[session[s].run].answers \cup {session[s].run}
    BY <1>1, <1>i, <2>n, OpenStep
  <2>2. DOMAIN runs \subseteq Nat
    BY <1>i DEF SessionInv, TypeInv
  <2>3. ASSUME NEW q \in DOMAIN runs
        PROVE  /\ \A b \in runs'[q].answers : b \in Nat /\ b < q
               /\ runs'[q].answers # {} => \E b \in DOMAIN runs' : Continues(q, b)'
    BY <2>1 DEF AnswersInv, Continues
  <2>4. CASE runs'[n].answers = {}
    BY <1>i, <2>1, <2>3, <2>4 DEF AnswersInv
  <2>5. ASSUME NEW b \in DOMAIN runs, runs[b].of = s, runs[b].pc = "returned",
               runs[b].verdict = "NEEDS_INPUT", runs'[n].answers = runs[b].answers \cup {b}
        PROVE  AnswersInv'
    <3>1. Continues(n, b)'
      BY <2>1, <2>5 DEF Continues
    <3>2. \A c \in runs'[n].answers : c \in Nat /\ c < n
      BY <2>1, <2>2, <2>5 DEF AnswersInv
    <3>. QED  BY <1>i, <2>1, <2>3, <3>1, <3>2 DEF AnswersInv
  <2>. QED  BY <2>1, <2>4, <2>5
<1>2. ASSUME NEW r \in DOMAIN runs, Threads(r) PROVE AnswersInv'
  <2>1. Live(r) /\ RunsChange(r)
    BY <1>2, <1>i, ThreadStep
  <2>. QED  BY <1>i, <2>1, AnswersStay DEF RunsChange, Live
<1>3. CASE Killed
  BY <1>3, <1>i, KilledStep, AnswersStay
<1>4. ASSUME NEW repo \in Repositories, Abort(repo) PROVE AnswersInv'
  BY <1>4, <1>i, AbortStep, AnswersStay
<1>5. CASE UNCHANGED <<runs, active, session>>
  BY <1>5, <1>i DEF AnswersInv, Continues
<1>. QED  BY <1>1, <1>2, <1>3, <1>4, <1>5, OtherSteps

LEMMA MaxOfAnswers ==
  ASSUME NEW S \in SUBSET Nat, NEW b \in Nat, b \in S, \A c \in S : c <= b
  PROVE  Max(S) = b
<1>1. b \in S /\ \A c \in S : b >= c
  OBVIOUS
<1>2. ASSUME NEW m \in S, \A c \in S : m >= c PROVE m = b
  BY <1>2
<1>. QED  BY <1>1, <1>2 DEF Max

(* A continuation is asked for with every answer its session was given, by *)
(* answers named after the runs that asked, and only after such runs       *)
(* (mcp_server.py, answer_question), however many questions there are.     *)
THEOREM AnswersAlwaysKept == Spec => []AnswersKept
<1>1. Init => AnswersInv
  BY InitSessionInv DEF Init, AnswersInv
<1>2. ASSUME AnswersInv PROVE AnswersKept
  <2>1. ASSUME NEW r \in DOMAIN runs, runs[r].answers # {}
        PROVE  LET before == Max(runs[r].answers)
               IN /\ runs[before].verdict = "NEEDS_INPUT" /\ runs[before].of = runs[r].of
                  /\ runs[r].answers = runs[before].answers \cup {before}
    <3>1. PICK b \in DOMAIN runs : Continues(r, b)
      BY <1>2, <2>1 DEF AnswersInv
    <3>2. b \in Nat /\ runs[r].answers \subseteq Nat
      BY <1>2 DEF AnswersInv, SessionInv, TypeInv
    <3>3. b \in runs[r].answers /\ \A c \in runs[r].answers : c <= b
      BY <1>2, <3>1, <3>2 DEF AnswersInv, Continues
    <3>4. Max(runs[r].answers) = b
      BY <3>2, <3>3, MaxOfAnswers
    <3>. QED  BY <3>1, <3>4 DEF Continues
  <2>. QED  BY <2>1 DEF AnswersKept
<1>. QED  BY <1>1, <1>2, NextAnswersInv, PTL DEF Spec

-----------------------------------------------------------------------------
(* Records are closed by their own runs.  The invariant says whom the name *)
(* in active-run.json may be about at every point of a run: itself from    *)
(* its activation to the removal of the file, a killed run before that.    *)
OwnRepositories == \A s, t \in Sessions : Repository[s] = Repository[t] => s = t

ClosedOwn(r) ==
  /\ runs[r].status = "FINALIZED" /\ runs[r].by = r
  /\ \/ runs[r].final = runs[r].verdict
     \/ runs[r].verdict = "ERROR" /\ runs[r].final \in Truths

Unclosed == { <<"record", "unlink", "outcome">>, <<"outcome", "record", "unlink">>,
              <<"record", "unlink">> }
Unlinked == { <<"outcome">>, <<>> }

RecordOK(r) ==
  /\ runs[r].status = "FINALIZED" => runs[r].by \in {0, r}
  /\ runs[r].pc = "returned" => ClosedOwn(r)
  /\ runs[r].pc = "work" => active[Repo(r)] = r
  /\ runs[r].pc = "publish" =>
       /\ active[Repo(r)] \in {0, r}
       /\ runs[r].todo \in Unclosed => active[Repo(r)] = r \/ ClosedOwn(r)
       /\ runs[r].todo \notin Unclosed => ClosedOwn(r)
       /\ runs[r].todo \in Unlinked => active[Repo(r)] = 0

ActiveOK(repo) ==
  active[repo] # 0 =>
    /\ Repo(active[repo]) = repo /\ runs[active[repo]].pc \in {"work", "publish", "killed"}
    /\ runs[active[repo]].pc = "publish" => runs[active[repo]].todo \notin Unlinked

RecordInv ==
  /\ SessionInv
  /\ \A r \in DOMAIN runs : RecordOK(r)
  /\ \A repo \in Repositories : ActiveOK(repo)

SameRecord(q) ==
  /\ runs'[q].of = runs[q].of /\ runs'[q].pc = runs[q].pc /\ runs'[q].todo = runs[q].todo
  /\ runs'[q].verdict = runs[q].verdict /\ runs'[q].status = runs[q].status
  /\ runs'[q].final = runs[q].final /\ runs'[q].by = runs[q].by

(* Runs that live are of different repositories.                           *)
LEMMA OneLivePerRepository ==
  ASSUME OwnRepositories, SessionInv, NEW q \in DOMAIN runs, NEW r \in DOMAIN runs,
         Live(q), Live(r), Repo(q) = Repo(r)
  PROVE  q = r
<1>1. runs[q].of \in Sessions /\ runs[r].of \in Sessions
  <2>1. runs[q] \in RunType /\ runs[r] \in RunType
    BY DEF SessionInv, TypeInv
  <2>. QED  BY <2>1 DEF RunType
<1>2. runs[q].of = runs[r].of
  BY <1>1 DEF OwnRepositories, Repo
<1>. QED  BY <1>2 DEF SessionInv

(* Of a step of thread r only what it does to r and to its repository has  *)
(* to be looked at.                                                        *)
LEMMA OnlyOwnRecord ==
  ASSUME OwnRepositories, RecordInv, SessionInv', NEW r \in DOMAIN runs, Live(r),
         DOMAIN runs' = DOMAIN runs, runs'[r].of = runs[r].of,
         \A q \in DOMAIN runs : q # r => SameRecord(q),
         NEW x \in {0, r, active[Repo(r)]}, active' = [active EXCEPT ![Repo(r)] = x],
         RecordOK(r)',
         x = r => /\ runs'[r].pc \in {"work", "publish", "killed"}
                  /\ runs'[r].pc = "publish" => runs'[r].todo \notin Unlinked
  PROVE  RecordInv'
<1>t. /\ active \in [Repositories -> Nat] /\ \A q \in DOMAIN runs : Repo(q) \in Repositories /\ q # 0
      /\ \A repo \in Repositories : active[repo] \in DOMAIN runs \cup {0}
  <2>1. \A q \in DOMAIN runs : runs[q] \in RunType /\ q # 0
    BY DEF RecordInv, SessionInv, TypeInv
  <2>2. \A run \in RunType : run.of \in Sessions
    BY DEF RunType
  <2>. QED  BY <2>1, <2>2 DEF RecordInv, SessionInv, TypeInv, Repo, Repositories
<1>r. \A q \in DOMAIN runs : Repo(q)' = Repo(q)
  BY DEF Repo, SameRecord
<1>1. ASSUME NEW q \in DOMAIN runs, q # r PROVE RecordOK(q)'
  <2>1. RecordOK(q)
    BY DEF RecordInv
  <2>2. CASE Repo(q) # Repo(r)
    <3>1. active'[Repo(q)] = active[Repo(q)]
      BY <1>t, <2>2
    <3>. QED  BY <1>1, <1>r, <2>1, <3>1 DEF RecordOK, ClosedOwn, SameRecord
  <2>3. CASE Repo(q) = Repo(r)
    <3>1. runs[q].pc \in {"returned", "killed"}
      BY <1>1, <2>3, OneLivePerRepository DEF Live, RecordInv
    <3>. QED  BY <1>1, <2>1, <3>1 DEF RecordOK, ClosedOwn, SameRecord
  <2>. QED  BY <2>2, <2>3
<1>2. ASSUME NEW repo \in Repositories PROVE ActiveOK(repo)'
  <2>1. ActiveOK(repo)
    BY DEF RecordInv
  <2>2. CASE repo # Repo(r)
    <3>1. active'[repo] = active[repo]
      BY <1>t, <2>2
    <3>2. active[repo] # 0 => active[repo] \in DOMAIN runs /\ active[repo] # r
      BY <1>t, <2>1, <2>2 DEF ActiveOK
    <3>. QED  BY <1>r, <2>1, <3>1, <3>2 DEF ActiveOK, SameRecord
  <2>3. CASE repo = Repo(r)
    <3>1. active'[repo] = x
      BY <1>t, <2>3
    <3>2. CASE x = r
      BY <1>r, <2>3, <3>1, <3>2 DEF ActiveOK
    <3>3. CASE x = 0
      BY <3>1, <3>3 DEF ActiveOK
    <3>4. CASE x = active[repo] /\ x # r /\ x # 0
      <4>1. x \in DOMAIN runs /\ SameRecord(x)
        BY <1>t, <3>4
      <4>. QED  BY <1>r, <2>1, <3>1, <3>4, <4>1 DEF ActiveOK, SameRecord
    <3>. QED  BY <2>3, <3>2, <3>3, <3>4
  <2>. QED  BY <2>2, <2>3
<1>. QED  BY <1>1, <1>2 DEF RecordInv

(* What is left after each file.                                           *)
LEMMA TodoSteps ==
  ASSUME NEW t \in Todos, t # <<>>
  PROVE  /\ Head(t) \in {"record", "unlink", "outcome"}
         /\ Head(t) = "record"  => t \in Unclosed /\ Tail(t) \notin Unclosed
         /\ Head(t) = "unlink"  => t \notin Unclosed /\ Tail(t) \in Unlinked /\ Tail(t) \notin Unclosed
         /\ Head(t) = "outcome" => \/ t \in Unclosed /\ Tail(t) \in Unclosed
                                   \/ t \in Unlinked /\ t \notin Unclosed /\ Tail(t) \notin Unclosed
         /\ Head(t) # "unlink" => (Tail(t) \in Unlinked <=> t \in Unlinked)
<1> USE DEF Unclosed, Unlinked
<1>1. CASE t = <<"record", "unlink", "outcome">>
  BY <1>1
<1>2. CASE t = <<"outcome", "record", "unlink">>
  BY <1>2
<1>3. CASE t = <<"record", "unlink">>
  BY <1>3
<1>4. CASE t = <<"unlink", "outcome">>
  BY <1>4
<1>5. CASE t = <<"unlink">>
  BY <1>5
<1>6. CASE t = <<"outcome">>
  BY <1>6
<1>. QED  BY <1>1, <1>2, <1>3, <1>4, <1>5, <1>6 DEF Todos

LEMMA ThreadRecordInv ==
  ASSUME OwnRepositories, RecordInv, SessionInv', NEW r \in DOMAIN runs, Threads(r)
  PROVE  RecordInv'
<1>s. /\ SessionInv /\ RecordOK(r) /\ ActiveOK(Repo(r)) /\ Live(r) /\ DOMAIN runs' = DOMAIN runs
      /\ Repo(r) \in Repositories /\ runs'[r].of = runs[r].of
  <2>1. Live(r) /\ RunsChange(r)
    BY ThreadStep DEF RecordInv
  <2>2. runs[r] \in RunType
    BY DEF RecordInv, SessionInv, TypeInv
  <2>3. runs[r].of \in Sessions
    BY <2>2 DEF RunType
  <2>. QED  BY <2>1, <2>3 DEF RecordInv, RunsChange, Repo, Repositories
<1>t. /\ runs \in Seq(RunType) /\ runs[r] \in RunType /\ r # 0 /\ r \in Nat
      /\ active \in [Repositories -> DOMAIN runs \cup {0}]
  BY DEF RecordInv, SessionInv, TypeInv
<1>r. Repo(r)' = Repo(r)
  BY <1>s DEF Repo
(* A step that replaces the record of r only. *)
<1>o. ASSUME NEW new \in RunType, Set(r, new), new.of = runs[r].of
      PROVE  runs'[r] = new /\ \A q \in DOMAIN runs : q # r => SameRecord(q)
  BY <1>o, <1>t, SetOK DEF SameRecord
<1>a. active' = active => active' = [active EXCEPT ![Repo(r)] = active[Repo(r)]]
  BY <1>t
<1>1. CASE Begin(r)
  <2>1. [runs[r] EXCEPT !.pc = "start"] \in RunType
    BY <1>t DEF RunType
  <2>2. runs'[r] = [runs[r] EXCEPT !.pc = "start"] /\ \A q \in DOMAIN runs : q # r => SameRecord(q)
    BY <1>1, <1>t, <1>o, <2>1 DEF Begin, RunType
  <2>3. RecordOK(r)'
    BY <1>s, <1>t, <2>2 DEF RecordOK, RunType
  <2>4. active[Repo(r)] # r
    BY <1>1, <1>s, <1>t DEF ActiveOK, Begin
  <2>. QED  BY <1>1, <1>s, <1>t, <1>a, <2>2, <2>3, <2>4, OnlyOwnRecord DEF Begin
<1>2. CASE CreateRecord(r)
  <2>1. [runs[r] EXCEPT !.pc = "activate", !.dir = "there", !.status = "ACTIVE"] \in RunType
    BY <1>t DEF RunType
  <2>2. runs'[r] = [runs[r] EXCEPT !.pc = "activate", !.dir = "there", !.status = "ACTIVE"]
    BY <1>2 DEF CreateRecord
  <2>3. ASSUME NEW q \in DOMAIN runs, q # r PROVE SameRecord(q)
    <3>1. runs'[q] = runs[q] \/ runs'[q] = [runs[q] EXCEPT !.dir = "pruned"]
      BY <1>2, <2>3 DEF CreateRecord
    <3>2. runs[q] \in RunType
      BY <1>t
    <3>. QED  BY <3>1, <3>2 DEF SameRecord, RunType
  <2>4. RecordOK(r)'
    BY <1>t, <2>2 DEF RecordOK, RunType
  <2>5. active[Repo(r)] # r
    BY <1>2, <1>s, <1>t DEF ActiveOK, CreateRecord
  <2>. QED  BY <1>2, <1>s, <1>t, <1>a, <2>2, <2>3, <2>4, <2>5, OnlyOwnRecord DEF CreateRecord
<1>3. CASE Activate(r)
  <2>1. [runs[r] EXCEPT !.pc = "work"] \in RunType
    BY <1>t DEF RunType
  <2>2. runs'[r] = [runs[r] EXCEPT !.pc = "work"] /\ \A q \in DOMAIN runs : q # r => SameRecord(q)
    BY <1>3, <1>t, <1>o, <2>1 DEF Activate, RunType
  <2>3. active' = [active EXCEPT ![Repo(r)] = r] /\ active'[Repo(r)] = r
    BY <1>3, <1>s, <1>t DEF Activate, NowActive
  <2>4. RecordOK(r)'
    BY <1>s, <1>t, <1>r, <2>2, <2>3 DEF RecordOK, RunType
  <2>5. runs'[r].pc = "work"
    BY <1>t, <2>2 DEF RunType
  <2>. QED  BY <1>s, <2>2, <2>3, <2>4, <2>5, OnlyOwnRecord
<1>4. CASE Emit(r)
  <2>1. [runs[r] EXCEPT !.events = @ + 1] \in RunType
    <3>1. runs[r].events + 1 \in Nat
      BY <1>t DEF RunType
    <3>. QED  BY <1>t, <3>1 DEF RunType
  <2>2. runs'[r] = [runs[r] EXCEPT !.events = @ + 1] /\ \A q \in DOMAIN runs : q # r => SameRecord(q)
    BY <1>4, <1>t, <1>o, <2>1 DEF Emit, RunType
  <2>3. SameRecord(r)
    BY <1>t, <2>2 DEF SameRecord, RunType
  <2>4. RecordOK(r)'
    BY <1>4, <1>s, <1>r, <2>3 DEF RecordOK, ClosedOwn, SameRecord, Emit
  <2>5. active[Repo(r)] = r => runs'[r].pc \in {"work", "publish", "killed"}
                               /\ (runs'[r].pc = "publish" => runs'[r].todo \notin Unlinked)
    BY <1>s, <1>t, <2>3 DEF ActiveOK, SameRecord
  <2>. QED  BY <1>4, <1>s, <1>a, <2>2, <2>4, <2>5, OnlyOwnRecord DEF Emit
<1>5. CASE Decide(r)
  <2>1. PICK v \in Verdicts :
          Set(r, [runs[r] EXCEPT !.pc = "publish", !.verdict = v, !.todo = Records(v)])
    BY <1>5 DEF Decide
  <2>2. Records(v) \in Todos /\ Records(v) \in Unclosed /\ Records(v) \notin Unlinked
    BY DEF Records, Todos, Unclosed, Unlinked
  <2>3. [runs[r] EXCEPT !.pc = "publish", !.verdict = v, !.todo = Records(v)] \in RunType
    BY <1>t, <2>2 DEF RunType
  <2>4. /\ runs'[r] = [runs[r] EXCEPT !.pc = "publish", !.verdict = v, !.todo = Records(v)]
        /\ \A q \in DOMAIN runs : q # r => SameRecord(q)
    BY <1>t, <1>o, <2>1, <2>3 DEF RunType
  <2>5. /\ runs'[r].pc = "publish" /\ runs'[r].todo = Records(v)
        /\ runs'[r].status = runs[r].status /\ runs'[r].by = runs[r].by
    BY <1>t, <2>4 DEF RunType
  <2>6. active' = active /\ active[Repo(r)] = r
    BY <1>5, <1>s DEF Decide, RecordOK
  <2>7. RecordOK(r)'
    BY <1>s, <1>r, <2>2, <2>5, <2>6 DEF RecordOK
  <2>. QED  BY <1>s, <1>a, <2>2, <2>4, <2>5, <2>6, <2>7, OnlyOwnRecord
<1>7. CASE Return(r)
  <2>1. [runs[r] EXCEPT !.pc = "returned"] \in RunType
    BY <1>t DEF RunType
  <2>2. runs'[r] = [runs[r] EXCEPT !.pc = "returned"] /\ \A q \in DOMAIN runs : q # r => SameRecord(q)
    BY <1>7, <1>t, <1>o, <2>1 DEF Return, RunType
  <2>3. /\ runs'[r].pc = "returned" /\ runs'[r].verdict = runs[r].verdict
        /\ runs'[r].status = runs[r].status /\ runs'[r].by = runs[r].by /\ runs'[r].final = runs[r].final
    BY <1>t, <2>2 DEF RunType
  <2>4. <<>> \in Unlinked /\ <<>> \notin Unclosed
    BY DEF Unlinked, Unclosed
  <2>5. ClosedOwn(r) /\ active[Repo(r)] = 0
    BY <1>7, <1>s, <2>4 DEF RecordOK, Return
  <2>6. RecordOK(r)'
    BY <1>s, <2>3, <2>5 DEF RecordOK, ClosedOwn
  <2>. QED  BY <1>7, <1>s, <1>t, <1>a, <2>2, <2>5, <2>6, OnlyOwnRecord DEF Return
<1>8. CASE PublishError(r)
  <2>1. Records("ERROR") \in Todos /\ Records("ERROR") \in Unclosed /\ Records("ERROR") \notin Unlinked
    BY DEF Records, Todos, Unclosed, Unlinked
  <2>2. [runs[r] EXCEPT !.verdict = "ERROR", !.todo = Records("ERROR")] \in RunType
    BY <1>t, <2>1 DEF RunType, Verdicts
  <2>3. /\ runs'[r] = [runs[r] EXCEPT !.verdict = "ERROR", !.todo = Records("ERROR")]
        /\ \A q \in DOMAIN runs : q # r => SameRecord(q)
    BY <1>8, <1>t, <1>o, <2>2 DEF PublishError, RunType
  <2>4. /\ runs'[r].pc = runs[r].pc /\ runs'[r].todo = Records("ERROR") /\ runs'[r].verdict = "ERROR"
        /\ runs'[r].status = runs[r].status /\ runs'[r].by = runs[r].by /\ runs'[r].final = runs[r].final
    BY <1>t, <2>3 DEF RunType
  <2>5. /\ runs[r].pc = "publish" /\ runs[r].verdict \in Truths /\ runs[r].verdict # "ERROR"
        /\ active' = active /\ active[Repo(r)] \in {0, r}
    BY <1>8, <1>s, TruthsAssumption DEF PublishError, RecordOK
  <2>6. active[Repo(r)] = r \/ ClosedOwn(r)
    BY <1>s, <2>5 DEF RecordOK
  <2>7. ClosedOwn(r) => ClosedOwn(r)'
    BY <2>4, <2>5 DEF ClosedOwn
  <2>8. RecordOK(r)'
    BY <1>s, <1>r, <2>1, <2>4, <2>5, <2>6, <2>7 DEF RecordOK
  <2>. QED  BY <1>s, <1>a, <2>1, <2>3, <2>4, <2>5, <2>8, OnlyOwnRecord
<1>9. CASE Raise(r)
  <2>1. /\ Gone(runs[r]) \in RunType /\ Gone(runs[r]).pc = "killed" /\ Gone(runs[r]).of = runs[r].of
        /\ Gone(runs[r]).status = runs[r].status /\ Gone(runs[r]).by = runs[r].by
    BY <1>t DEF RunType, Gone, Todos
  <2>2. runs'[r] = Gone(runs[r]) /\ \A q \in DOMAIN runs : q # r => SameRecord(q)
    BY <1>9, <1>t, <1>o, <2>1 DEF Raise
  <2>3. RecordOK(r)'
    BY <1>s, <2>1, <2>2 DEF RecordOK
  <2>. QED  BY <1>9, <1>s, <1>a, <2>1, <2>2, <2>3, OnlyOwnRecord DEF Raise
<1>6. CASE Publish(r)
  <2> DEFINE file == Head(runs[r].todo)
  <2>1. /\ runs[r].pc = "publish" /\ runs[r].todo # <<>> /\ runs[r].todo \in Todos
        /\ active[Repo(r)] \in {0, r}
    BY <1>6, <1>s, <1>t DEF Publish, RunType, RecordOK
  <2>2. PICK new \in RunType :
          /\ new.of = runs[r].of /\ new.pc = "publish" /\ new.todo = Tail(runs[r].todo)
          /\ new.verdict = runs[r].verdict
          /\ \/ /\ file = "record" /\ active[Repo(r)] = r
                /\ new.status = "FINALIZED" /\ new.by = r /\ new.final = runs[r].verdict
             \/ /\ file = "record" => active[Repo(r)] = 0
                /\ new.status = runs[r].status /\ new.by = runs[r].by /\ new.final = runs[r].final
          /\ runs'[r] = new /\ \A q \in DOMAIN runs : q # r => SameRecord(q)
    <3>1. Tail(runs[r].todo) \in Todos /\ \A run \in RunType : [run EXCEPT !.todo = Tail(runs[r].todo)] \in RunType
      BY <2>1, TodoTail DEF RunType
    <3>2. runs' = [Written(r, file) EXCEPT ![r].todo = Tail(@)]
      BY <1>6 DEF Publish
    <3>3. ASSUME NEW run \in RunType, Written(r, file) = [runs EXCEPT ![r] = run],
                 run.of = runs[r].of, run.pc = "publish", run.todo = runs[r].todo,
                 run.verdict = runs[r].verdict
          PROVE  \E new \in RunType :
                   /\ new.of = runs[r].of /\ new.pc = "publish" /\ new.todo = Tail(run.todo)
                   /\ new.verdict = runs[r].verdict /\ new.status = run.status
                   /\ new.by = run.by /\ new.final = run.final
                   /\ runs'[r] = new /\ \A q \in DOMAIN runs : q # r => SameRecord(q)
      <4> DEFINE new == [run EXCEPT !.todo = Tail(@)]
      <4>1. runs'[r] = new /\ \A q \in DOMAIN runs : q # r => runs'[q] = runs[q]
        BY <1>t, <3>2, <3>3
      <4>2. /\ new.of = runs[r].of /\ new.pc = "publish" /\ new.todo = Tail(run.todo)
            /\ new.verdict = runs[r].verdict /\ new.status = run.status
            /\ new.by = run.by /\ new.final = run.final
        BY <3>3 DEF RunType
      <4>3. new \in RunType
        BY <3>1, <3>3
      <4>4. \A q \in DOMAIN runs : q # r => SameRecord(q)
        BY <4>1 DEF SameRecord
      <4> HIDE DEF new
      <4>. QED  BY <4>1, <4>2, <4>3, <4>4
    <3>4. CASE file = "outcome"
      <4> DEFINE run == [runs[r] EXCEPT !.outcome = runs[r].verdict]
      <4>1. /\ run \in RunType /\ run.todo = runs[r].todo /\ run.of = runs[r].of /\ run.pc = runs[r].pc
            /\ run.verdict = runs[r].verdict /\ run.status = runs[r].status /\ run.by = runs[r].by
            /\ run.final = runs[r].final
        BY <1>t DEF RunType
      <4>2. Written(r, file) = [runs EXCEPT ![r] = run]
        BY <1>t, <3>4 DEF Written
      <4> HIDE DEF run
      <4>. QED  BY <2>1, <3>3, <3>4, <4>1, <4>2
    <3>5. CASE file = "unlink" \/ (file = "record" /\ active[Repo(r)] = 0)
      <4>1. Written(r, file) = [runs EXCEPT ![r] = runs[r]]
        BY <1>t, <3>5 DEF Written, Closes
      <4>. QED  BY <1>t, <2>1, <3>3, <3>5, <4>1
    <3>6. CASE file = "record" /\ active[Repo(r)] = r
      <4> DEFINE run == Closed(runs[r], r, runs[r].verdict)
      <4>1. runs[r].verdict \in Verdicts \cup {None, "BLOCKED"}
        BY <1>t DEF RunType
      <4>2. run \in RunType /\ run.of = runs[r].of /\ run.pc = runs[r].pc
            /\ run.verdict = runs[r].verdict /\ run.todo = runs[r].todo
            /\ run.status = "FINALIZED" /\ run.by = r /\ run.final = runs[r].verdict
        BY <1>t, <4>1, ClosedOK
      <4>3. Written(r, file) = [runs EXCEPT ![r] = run]
        BY <1>t, <3>6 DEF Written, Closes, Closed
      <4> HIDE DEF run
      <4>. QED  BY <2>1, <3>3, <3>6, <4>2, <4>3
    <3>7. file \in {"record", "unlink", "outcome"}
      BY <2>1, TodoTail
    <3>. QED  BY <2>1, <3>4, <3>5, <3>6, <3>7
  <2>3. /\ file \in {"record", "unlink", "outcome"} /\ new.todo = Tail(runs[r].todo)
        /\ file = "record"  => runs[r].todo \in Unclosed /\ new.todo \notin Unclosed
        /\ file = "unlink"  => runs[r].todo \notin Unclosed /\ new.todo \in Unlinked /\ new.todo \notin Unclosed
        /\ file = "outcome" => \/ runs[r].todo \in Unclosed /\ new.todo \in Unclosed
                               \/ runs[r].todo \in Unlinked /\ runs[r].todo \notin Unclosed
                                  /\ new.todo \notin Unclosed
        /\ file # "unlink" => (new.todo \in Unlinked <=> runs[r].todo \in Unlinked)
    <3>1. LET t == runs[r].todo
          IN  /\ Head(t) \in {"record", "unlink", "outcome"}
              /\ Head(t) = "record"  => t \in Unclosed /\ Tail(t) \notin Unclosed
              /\ Head(t) = "unlink"  => t \notin Unclosed /\ Tail(t) \in Unlinked /\ Tail(t) \notin Unclosed
              /\ Head(t) = "outcome" => \/ t \in Unclosed /\ Tail(t) \in Unclosed
                                        \/ t \in Unlinked /\ t \notin Unclosed /\ Tail(t) \notin Unclosed
              /\ Head(t) # "unlink" => (Tail(t) \in Unlinked <=> t \in Unlinked)
      BY <2>1, TodoSteps
    <3>. QED  BY <2>2, <3>1
  <2>4. PICK x \in {0, r, active[Repo(r)]} :
          /\ active' = [active EXCEPT ![Repo(r)] = x] /\ active'[Repo(r)] = x
          /\ x = IF file = "unlink" THEN 0 ELSE active[Repo(r)]
    BY <1>6, <1>s, <1>t DEF Publish
  <2>5. active'[Repo(r)] \in {0, r} /\ (new.todo \in Unlinked => active'[Repo(r)] = 0)
    BY <1>s, <2>1, <2>3, <2>4 DEF RecordOK
  <2>p. x = r => runs'[r].pc = "publish" /\ runs'[r].todo \notin Unlinked
    BY <1>t, <2>2, <2>4, <2>5
  <2>6. CASE file = "record" /\ active[Repo(r)] = r
    <3>1. ClosedOwn(r)'
      BY <2>2, <2>3, <2>6, <1>t DEF ClosedOwn
    <3>2. RecordOK(r)'
      BY <1>s, <1>r, <2>2, <2>5, <3>1 DEF RecordOK, ClosedOwn
    <3>. QED  BY <1>s, <2>2, <2>4, <2>p, <3>2, OnlyOwnRecord
  <2>7. CASE ~(file = "record" /\ active[Repo(r)] = r)
    <3>1. /\ new.status = runs[r].status /\ new.by = runs[r].by /\ new.final = runs[r].final
          /\ file = "record" => active[Repo(r)] = 0
      BY <2>2, <2>7
    <3>2. ClosedOwn(r) => ClosedOwn(r)'
      BY <2>2, <3>1 DEF ClosedOwn
    <3>3. new.todo \notin Unclosed => ClosedOwn(r)
      BY <1>s, <1>t, <2>1, <2>3, <3>1 DEF RecordOK
    <3>4. new.todo \in Unclosed => active'[Repo(r)] = r \/ ClosedOwn(r)
      BY <1>s, <2>1, <2>3, <2>4 DEF RecordOK
    <3>5. runs[r].status = "FINALIZED" => runs[r].by \in {0, r}
      BY <1>s DEF RecordOK
    <3>6. RecordOK(r)'
      BY <1>s, <1>r, <2>2, <2>5, <3>1, <3>2, <3>3, <3>4, <3>5 DEF RecordOK
    <3>. QED  BY <1>s, <2>2, <2>4, <2>p, <3>6, OnlyOwnRecord
  <2>. QED  BY <2>6, <2>7
<1>. QED  BY <1>1, <1>2, <1>3, <1>4, <1>5, <1>6, <1>7, <1>8, <1>9 DEF Threads, Thread

LEMMA NextRecordInv ==
  ASSUME OwnRepositories PROVE RecordInv /\ [Next]_vars => RecordInv'
<1> SUFFICES ASSUME RecordInv, [Next]_vars PROVE RecordInv'
  OBVIOUS
<1>i. SessionInv /\ SessionInv'
  BY NextSessionInv DEF RecordInv
<1>t. /\ runs \in Seq(RunType) /\ \A q \in DOMAIN runs : runs[q] \in RunType /\ q \in Nat /\ q # 0
      /\ active \in [Repositories -> DOMAIN runs \cup {0}]
  BY <1>i DEF SessionInv, TypeInv
<1>p. \A q \in DOMAIN runs : Repo(q) \in Repositories
  <2>1. \A run \in RunType : run.of \in Sessions
    BY DEF RunType
  <2>. QED  BY <1>t, <2>1 DEF Repo, Repositories
<1>1. ASSUME NEW s \in Sessions, StartSession(s) \/ Answer(s) PROVE RecordInv'
  <2>n. PICK n : n = Len(runs) + 1
    OBVIOUS
  <2>1. /\ active' = active /\ n \notin DOMAIN runs /\ DOMAIN runs' = DOMAIN runs \cup {n}
        /\ \A q \in DOMAIN runs : runs'[q] = runs[q]
        /\ runs'[n].pc = "queued" /\ runs'[n].status = None
    BY <1>1, <1>i, <2>n, OpenStep
  <2>2. ASSUME NEW q \in DOMAIN runs PROVE RecordOK(q)'
    BY <2>1 DEF RecordInv, RecordOK, ClosedOwn, Repo
  <2>3. RecordOK(n)'
    BY <2>1 DEF RecordOK, None
  <2>4. ASSUME NEW repo \in Repositories PROVE ActiveOK(repo)'
    BY <1>t, <2>1 DEF RecordInv, ActiveOK, Repo
  <2>. QED  BY <1>i, <2>1, <2>2, <2>3, <2>4 DEF RecordInv
<1>2. ASSUME NEW r \in DOMAIN runs, Threads(r) PROVE RecordInv'
  BY <1>2, <1>i, ThreadRecordInv
<1>3. CASE Killed
  <2>1. /\ active' = active /\ DOMAIN runs' = DOMAIN runs
        /\ \A q \in DOMAIN runs :
             /\ runs'[q].of = runs[q].of
             /\ runs'[q] = IF runs[q].pc = "returned" THEN runs[q] ELSE Gone(runs[q])
    BY <1>3, <1>i, KilledStep
  <2>2. \A run \in RunType : /\ Gone(run).pc = "killed" /\ Gone(run).status = run.status
                             /\ Gone(run).by = run.by
    BY DEF Gone, RunType
  <2>3. ASSUME NEW q \in DOMAIN runs PROVE RecordOK(q)'
    <3>1. CASE runs[q].pc = "returned"
      BY <2>1, <3>1 DEF RecordInv, RecordOK, ClosedOwn
    <3>2. CASE runs[q].pc # "returned"
      BY <1>t, <2>1, <2>2, <3>2 DEF RecordInv, RecordOK
    <3>. QED  BY <3>1, <3>2
  <2>4. ASSUME NEW repo \in Repositories, active[repo] # 0 PROVE ActiveOK(repo)'
    <3>1. active[repo] \in DOMAIN runs /\ runs[active[repo]].pc # "returned" /\ Repo(active[repo]) = repo
      BY <1>t, <2>4 DEF RecordInv, ActiveOK
    <3>2. runs'[active[repo]].pc = "killed" /\ runs'[active[repo]].of = runs[active[repo]].of
      BY <1>t, <2>1, <2>2, <3>1
    <3>. QED  BY <2>1, <3>1, <3>2 DEF ActiveOK, Repo
  <2>5. ASSUME NEW repo \in Repositories, active[repo] = 0 PROVE ActiveOK(repo)'
    BY <2>1, <2>5 DEF ActiveOK
  <2>. QED  BY <1>i, <2>1, <2>3, <2>4, <2>5 DEF RecordInv
<1>4. ASSUME NEW repo \in Repositories, Abort(repo) PROVE RecordInv'
  <2>1. PICK a \in DOMAIN runs : a = active[repo]
    BY <1>4, <1>i, AbortStep
  <2>2. /\ active' = [active EXCEPT ![repo] = 0] /\ DOMAIN runs' = DOMAIN runs
        /\ \A q \in DOMAIN runs : q # a => runs'[q] = runs[q]
        /\ runs'[a].by = 0
        /\ \A q \in DOMAIN runs : runs'[q].of = runs[q].of /\ runs'[q].pc = runs[q].pc
    BY <1>4, <1>i, <2>1, AbortStep
  <2>3. \A q \in DOMAIN runs : Repo(q) = repo /\ Live(q) => runs[q].pc = "queued"
    <3>1. ASSUME NEW q \in DOMAIN runs, Repo(q) = repo, Live(q) PROVE runs[q].pc = "queued"
      <4>1. up /\ ~Alive(q)
        BY <1>4, <1>i, <3>1 DEF Abort, SessionInv
      <4>. QED  BY <3>1, <4>1 DEF Alive, Live
    <3>. QED  BY <3>1
  <2>4. Repo(a) = repo /\ runs[a].pc = "killed"
    <3>1. a # 0 /\ ActiveOK(repo)
      BY <1>t DEF RecordInv
    <3>2. Repo(a) = repo /\ runs[a].pc \in {"work", "publish", "killed"}
      BY <2>1, <3>1 DEF ActiveOK
    <3>. QED  BY <2>3, <3>2 DEF Live
  <2>5. ASSUME NEW q \in DOMAIN runs PROVE RecordOK(q)'
    <3>1. RecordOK(q) /\ Repo(q)' = Repo(q)
      BY <2>2 DEF RecordInv, Repo
    <3>2. CASE q = a
      BY <2>2, <2>4, <3>2 DEF RecordOK
    <3>3. CASE q # a /\ Repo(q) = repo
      BY <2>2, <2>3, <3>1, <3>3 DEF RecordOK, ClosedOwn, Live
    <3>4. CASE q # a /\ Repo(q) # repo
      <4>1. active'[Repo(q)] = active[Repo(q)]
        BY <1>t, <1>p, <2>2, <3>4
      <4>. QED  BY <2>2, <3>1, <3>4, <4>1 DEF RecordOK, ClosedOwn
    <3>. QED  BY <3>2, <3>3, <3>4
  <2>6. ASSUME NEW other \in Repositories PROVE ActiveOK(other)'
    <3>1. CASE other = repo
      BY <1>t, <2>2, <3>1 DEF ActiveOK
    <3>2. CASE other # repo
      <4>1. active'[other] = active[other] /\ ActiveOK(other)
        BY <1>t, <2>2, <3>2 DEF RecordInv
      <4>2. active[other] # 0 => active[other] \in DOMAIN runs /\ active[other] # a
        BY <1>t, <2>4, <3>2, <4>1 DEF ActiveOK
      <4>. QED  BY <2>2, <4>1, <4>2 DEF ActiveOK, Repo
    <3>. QED  BY <3>1, <3>2
  <2>. QED  BY <1>i, <2>2, <2>5, <2>6 DEF RecordInv
<1>5. CASE UNCHANGED <<runs, active, session>>
  BY <1>5, <1>i DEF RecordInv, RecordOK, ActiveOK, ClosedOwn, Repo
<1>. QED  BY <1>1, <1>2, <1>3, <1>4, <1>5, OtherSteps

(* A run is closed by itself or by abort-run, never by another run of the  *)
(* repository, and one that returned is closed with its verdict            *)
(* (run_state.finalize_run), if the sessions work in repositories of their *)
(* own: the program takes it for granted that runs of a repository are one *)
(* after another.                                                          *)
THEOREM RecordsStayOwn ==
  ASSUME OwnRepositories PROVE Spec => []RecordIsOwn
<1>1. Init => RecordInv
  BY InitSessionInv DEF Init, RecordInv, ActiveOK
<1>2. RecordInv => RecordIsOwn
  BY DEF RecordInv, RecordOK, ClosedOwn, RecordIsOwn
<1>3. RecordInv /\ [Next]_vars => RecordInv'
  BY NextRecordInv
<1>. QED  BY <1>1, <1>2, <1>3, PTL DEF Spec

-----------------------------------------------------------------------------
(* What a client is told of a run that is over is final.  The invariant    *)
(* says what a final status means for the run, and that such a run does    *)
(* not change any more between the three reads of one answer.              *)
OutcomeDone == { <<"record", "unlink">>, <<"unlink">>, <<>> }

RunOK(r) ==
  /\ runs[r].dir = None => runs[r].events = 0 /\ runs[r].pc \in {"queued", "start", "killed"}
  /\ runs[r].pc = "publish" /\ runs[r].todo \in OutcomeDone => runs[r].outcome = runs[r].verdict
  /\ runs[r].pc = "returned" => runs[r].outcome = runs[r].verdict

Over(r, status) ==
  /\ ~Live(r)
  /\ status # "FAILED" =>
       /\ runs[r].pc = "returned"
       /\ status = "NEEDS_INPUT" <=> runs[r].verdict = "NEEDS_INPUT"

SessionsOver ==
  \A s \in Sessions : session[s].status \in Terminal => Over(session[s].run, session[s].status)

AllSeen(r, cursor, full) == full \/ cursor = runs[r].events \/ runs[r].dir = "pruned"

PollOK(s) ==
  poll[s] # NoPoll =>
    /\ poll[s].run \in DOMAIN runs
    /\ poll[s].status \in Terminal => Over(poll[s].run, poll[s].status)
    /\ poll[s].read =>
         /\ poll[s].cursor <= runs[poll[s].run].events
         /\ poll[s].status \in Terminal => AllSeen(poll[s].run, poll[s].cursor, poll[s].full)

ClientOK(s) ==
  /\ client[s].run \in DOMAIN runs \cup {0}
  /\ client[s].run # 0 => client[s].cursor <= runs[client[s].run].events
  /\ client[s].status \in Terminal =>
       /\ client[s].run \in DOMAIN runs /\ Over(client[s].run, client[s].status)
       /\ AllSeen(client[s].run, client[s].cursor, client[s].full)
       /\ client[s].status # "FAILED" => client[s].outcome = runs[client[s].run].verdict

FinalInv ==
  /\ SessionInv
  /\ poll \in [Sessions -> [run : Nat, status : Statuses, cursor : Nat,
                            full : BOOLEAN, read : BOOLEAN]]
  /\ client \in [Sessions -> [run : Nat, status : Statuses, outcome : Verdicts \cup {None},
                              cursor : Nat, full : BOOLEAN]]
  /\ \A r \in DOMAIN runs : RunOK(r)
  /\ SessionsOver
  /\ \A s \in Sessions : PollOK(s) /\ ClientOK(s)

SameFiles(q) ==
  /\ runs'[q].pc = runs[q].pc /\ runs'[q].todo = runs[q].todo /\ runs'[q].verdict = runs[q].verdict
  /\ runs'[q].outcome = runs[q].outcome /\ runs'[q].events = runs[q].events
  /\ runs'[q].dir = runs[q].dir \/ (runs[q].dir = "there" /\ runs'[q].dir = "pruned")

(* A run that is over does not change, and events are only added.          *)
Later(q) ==
  /\ q \in DOMAIN runs' /\ runs[q].events \in Nat /\ runs'[q].events \in Nat
  /\ runs[q].events <= runs'[q].events
  /\ ~Live(q) => /\ runs'[q].pc = runs[q].pc /\ runs'[q].verdict = runs[q].verdict
                 /\ runs'[q].events = runs[q].events
                 /\ runs[q].dir = "pruned" => runs'[q].dir = "pruned"

(* So what was read of it stays true.                                      *)
LEMMA ReadStaysTrue ==
  ASSUME FinalInv, NEW s \in Sessions, \A q \in DOMAIN runs : Later(q)
  PROVE  /\ poll'[s] = poll[s] => PollOK(s)'
         /\ client'[s] = client[s] => ClientOK(s)'
<1>1. poll[s].cursor \in Nat /\ client[s].cursor \in Nat
  BY DEF FinalInv
<1>2. ASSUME poll'[s] = poll[s] PROVE PollOK(s)'
  <2>1. PollOK(s)
    BY DEF FinalInv
  <2>2. CASE poll[s] = NoPoll
    BY <1>2, <2>2 DEF PollOK, NoPoll
  <2>3. CASE poll[s] # NoPoll
    <3>1. poll[s].run \in DOMAIN runs /\ Later(poll[s].run)
      BY <2>1, <2>3 DEF PollOK
    <3>. QED  BY <1>1, <1>2, <2>1, <2>3, <3>1 DEF PollOK, Over, AllSeen, Later, Live
  <2>. QED  BY <2>2, <2>3
<1>3. ASSUME client'[s] = client[s] PROVE ClientOK(s)'
  <2>1. ClientOK(s)
    BY DEF FinalInv
  <2>2. client[s].run \in DOMAIN runs => Later(client[s].run)
    OBVIOUS
  <2>3. 0 \notin DOMAIN runs
    BY DEF FinalInv, SessionInv, TypeInv
  <2>4. CASE client[s].run = 0
    BY <1>3, <2>1, <2>3, <2>4 DEF ClientOK
  <2>5. CASE client[s].run \in DOMAIN runs
    BY <1>1, <1>3, <2>1, <2>2, <2>3, <2>5 DEF ClientOK, Over, AllSeen, Later, Live
  <2>. QED  BY <2>1, <2>4, <2>5 DEF ClientOK
<1>. QED  BY <1>2, <1>3

(* A file that is written leaves where the runs are, their events and      *)
(* their directories; only an outcome changes an outcome.                  *)
LEMMA WrittenFiles ==
  ASSUME SessionInv, NEW r \in DOMAIN runs, NEW file \in {"record", "unlink", "outcome"}
  PROVE  /\ Written(r, file) \in Seq(RunType) /\ DOMAIN Written(r, file) = DOMAIN runs
         /\ \A q \in DOMAIN runs :
              /\ Written(r, file)[q].pc = runs[q].pc /\ Written(r, file)[q].todo = runs[q].todo
              /\ Written(r, file)[q].verdict = runs[q].verdict /\ Written(r, file)[q].dir = runs[q].dir
              /\ Written(r, file)[q].events = runs[q].events
              /\ Written(r, file)[q].outcome =
                   IF q = r /\ file = "outcome" THEN runs[q].verdict ELSE runs[q].outcome
<1>t. /\ runs \in Seq(RunType) /\ r # 0 /\ r \in Nat /\ \A q \in DOMAIN runs : runs[q] \in RunType
      /\ active[Repo(r)] \in DOMAIN runs \cup {0}
  <2>1. runs \in Seq(RunType) /\ \A q \in DOMAIN runs : runs[q] \in RunType
    BY DEF SessionInv, TypeInv
  <2>2. runs[r].of \in Sessions
    BY <2>1 DEF RunType
  <2>. QED  BY <2>1, <2>2 DEF SessionInv, Repo, Repositories
<1>1. CASE file = "outcome"
  <2>1. runs[r] \in RunType /\ runs[r].verdict \in Verdicts \cup {None}
    BY <1>t DEF RunType
  <2>2. Written(r, file) = [runs EXCEPT ![r] = Told(runs[r], runs[r].verdict)]
    BY <1>t, <1>1 DEF Written, Told
  <2>3. PICK new \in RunType :
          /\ new = Told(runs[r], runs[r].verdict)
          /\ new.pc = runs[r].pc /\ new.todo = runs[r].todo /\ new.verdict = runs[r].verdict
          /\ new.dir = runs[r].dir /\ new.events = runs[r].events /\ new.outcome = runs[r].verdict
    BY <2>1, ToldOK
  <2>4. Written(r, file) = [runs EXCEPT ![r] = new]
    BY <2>2, <2>3
  <2>5. /\ Written(r, file) \in Seq(RunType) /\ DOMAIN Written(r, file) = DOMAIN runs
        /\ Written(r, file)[r] = new /\ \A q \in DOMAIN runs : q # r => Written(r, file)[q] = runs[q]
    BY <1>t, <2>4
  <2>. QED  BY <1>1, <2>3, <2>5
<1>2. CASE file = "unlink"
  BY <1>t, <1>2 DEF Written
<1>3. CASE file = "record"
  <2>1. runs[r].verdict \in Verdicts \cup {None, "BLOCKED"}
    BY <1>t DEF RunType
  <2>2. PICK a \in DOMAIN runs \cup {0}, v \in Verdicts \cup {None, "BLOCKED"} :
          a = active[Repo(r)] /\ v = runs[r].verdict
    BY <1>t, <2>1
  <2>3. /\ Closes(runs, a, r, v) \in Seq(RunType) /\ DOMAIN Closes(runs, a, r, v) = DOMAIN runs
        /\ \A q \in DOMAIN runs : q # a => Closes(runs, a, r, v)[q] = runs[q]
        /\ a # 0 => Closes(runs, a, r, v)[a] = Closed(runs[a], r, v)
    <3>1. runs \in Seq(RunType) /\ r \in Nat
      BY <1>t
    <3>. QED  BY <3>1, ClosesOK
  <2>4. Written(r, file) = Closes(runs, a, r, v)
    BY <1>3, <2>2 DEF Written
  <2>5. \A run \in RunType : LET new == Closed(run, r, v)
          IN  /\ new.pc = run.pc /\ new.todo = run.todo /\ new.verdict = run.verdict
              /\ new.dir = run.dir /\ new.events = run.events /\ new.outcome = run.outcome
    <3>1. r \in Nat /\ v \in Verdicts \cup {None, "BLOCKED"}
      BY <1>t, <2>2
    <3>. QED  BY <3>1, ClosedOK
  <2>6. ASSUME NEW q \in DOMAIN runs
        PROVE  /\ Written(r, file)[q].pc = runs[q].pc /\ Written(r, file)[q].todo = runs[q].todo
               /\ Written(r, file)[q].verdict = runs[q].verdict /\ Written(r, file)[q].dir = runs[q].dir
               /\ Written(r, file)[q].events = runs[q].events /\ Written(r, file)[q].outcome = runs[q].outcome
    <3>1. CASE q = a
      <4>1. a # 0
        BY <1>t, <3>1
      <4>2. Written(r, file)[q] = Closed(runs[q], r, v) /\ runs[q] \in RunType
        BY <1>t, <2>3, <2>4, <3>1, <4>1
      <4>. QED  BY <2>5, <4>2
    <3>2. CASE q # a
      BY <2>3, <2>4, <3>2
    <3>. QED  BY <3>1, <3>2
  <2>. QED  BY <1>3, <2>3, <2>4, <2>6
<1>. QED  BY <1>1, <1>2, <1>3

LEMMA TodoOutcome ==
  ASSUME NEW t \in Todos, t # <<>>
  PROVE  /\ Head(t) \in {"record", "unlink", "outcome"}
         /\ Tail(t) \in OutcomeDone => Head(t) = "outcome" \/ t \in OutcomeDone
<1> USE DEF OutcomeDone
<1>1. CASE t = <<"record", "unlink", "outcome">>
  BY <1>1
<1>2. CASE t = <<"outcome", "record", "unlink">>
  BY <1>2
<1>3. CASE t = <<"record", "unlink">>
  BY <1>3
<1>4. CASE t = <<"unlink", "outcome">>
  BY <1>4
<1>5. CASE t = <<"unlink">>
  BY <1>5
<1>6. CASE t = <<"outcome">>
  BY <1>6
<1>. QED  BY <1>1, <1>2, <1>3, <1>4, <1>5, <1>6 DEF Todos

LEMMA ThreadFiles ==
  ASSUME FinalInv, NEW r \in DOMAIN runs, Threads(r)
  PROVE  /\ RunOK(r)' /\ \A q \in DOMAIN runs : q # r => SameFiles(q)
         /\ runs[r].events <= runs'[r].events
<1>s. SessionInv /\ RunOK(r) /\ Live(r)
  BY ThreadStep DEF FinalInv
<1>t. runs \in Seq(RunType) /\ runs[r] \in RunType /\ runs[r].events \in Nat
  <2>1. runs \in Seq(RunType) /\ runs[r] \in RunType
    BY <1>s DEF SessionInv, TypeInv
  <2>. QED  BY <2>1 DEF RunType
<1>o. ASSUME NEW new \in RunType, Set(r, new)
      PROVE  runs'[r] = new /\ \A q \in DOMAIN runs : q # r => SameFiles(q)
  BY <1>o, <1>t, SetOK DEF SameFiles
<1>1. CASE Begin(r)
  <2>1. [runs[r] EXCEPT !.pc = "start"] \in RunType
    BY <1>t DEF RunType
  <2>2. runs'[r] = [runs[r] EXCEPT !.pc = "start"] /\ \A q \in DOMAIN runs : q # r => SameFiles(q)
    BY <1>1, <1>o, <2>1 DEF Begin
  <2>. QED  BY <1>s, <1>t, <2>2 DEF RunOK, RunType
<1>2. CASE CreateRecord(r)
  <2>1. runs'[r] = [runs[r] EXCEPT !.pc = "activate", !.dir = "there", !.status = "ACTIVE"]
    BY <1>2 DEF CreateRecord
  <2>2. ASSUME NEW q \in DOMAIN runs, q # r PROVE SameFiles(q)
    <3>1. runs'[q] = runs[q] \/ (runs[q].dir = "there" /\ runs'[q] = [runs[q] EXCEPT !.dir = "pruned"])
      BY <1>2, <2>2 DEF CreateRecord, Pruned, Older
    <3>2. runs[q] \in RunType
      BY <1>t
    <3>. QED  BY <3>1, <3>2 DEF SameFiles, RunType
  <2>3. runs'[r].dir = "there" /\ runs'[r].pc = "activate" /\ runs'[r].events = runs[r].events
    BY <1>t, <2>1 DEF RunType
  <2>. QED  BY <1>t, <2>2, <2>3 DEF RunOK, None
<1>3. CASE Activate(r)
  <2>1. [runs[r] EXCEPT !.pc = "work"] \in RunType
    BY <1>t DEF RunType
  <2>2. runs'[r] = [runs[r] EXCEPT !.pc = "work"] /\ \A q \in DOMAIN runs : q # r => SameFiles(q)
    BY <1>3, <1>o, <2>1 DEF Activate
  <2>3. runs[r].dir # None
    BY <1>3, <1>s DEF RunOK, Activate
  <2>. QED  BY <1>t, <2>2, <2>3 DEF RunOK, RunType
<1>4. CASE Emit(r)
  <2>1. [runs[r] EXCEPT !.events = @ + 1] \in RunType
    <3>1. runs[r].events + 1 \in Nat
      BY <1>t
    <3>. QED  BY <1>t, <3>1 DEF RunType
  <2>2. runs'[r] = [runs[r] EXCEPT !.events = @ + 1] /\ \A q \in DOMAIN runs : q # r => SameFiles(q)
    BY <1>4, <1>o, <2>1 DEF Emit
  <2>3. /\ runs'[r].pc = runs[r].pc /\ runs'[r].todo = runs[r].todo /\ runs'[r].dir = runs[r].dir
        /\ runs'[r].verdict = runs[r].verdict /\ runs'[r].outcome = runs[r].outcome
        /\ runs'[r].events = runs[r].events + 1
    BY <1>t, <2>2 DEF RunType
  <2>4. runs[r].dir # None
    BY <1>4, <1>s DEF RunOK, Emit
  <2>5. RunOK(r)'
    BY <1>s, <2>3, <2>4 DEF RunOK
  <2>. QED  BY <1>t, <2>2, <2>3, <2>5
<1>5. CASE Decide(r)
  <2>1. PICK v \in Verdicts :
          Set(r, [runs[r] EXCEPT !.pc = "publish", !.verdict = v, !.todo = Records(v)])
    BY <1>5 DEF Decide
  <2>2. Records(v) \in Todos /\ Records(v) \notin OutcomeDone
    BY DEF Records, Todos, OutcomeDone
  <2>3. [runs[r] EXCEPT !.pc = "publish", !.verdict = v, !.todo = Records(v)] \in RunType
    BY <1>t, <2>2 DEF RunType
  <2>4. /\ runs'[r] = [runs[r] EXCEPT !.pc = "publish", !.verdict = v, !.todo = Records(v)]
        /\ \A q \in DOMAIN runs : q # r => SameFiles(q)
    BY <1>o, <2>1, <2>3
  <2>5. /\ runs'[r].pc = "publish" /\ runs'[r].todo = Records(v) /\ runs'[r].dir = runs[r].dir
        /\ runs'[r].events = runs[r].events
    BY <1>t, <2>4 DEF RunType
  <2>6. runs[r].dir # None
    BY <1>5, <1>s DEF RunOK, Decide
  <2>. QED  BY <1>t, <2>2, <2>4, <2>5, <2>6 DEF RunOK
<1>6. CASE Publish(r)
  <2> DEFINE file == Head(runs[r].todo)
  <2>1. /\ runs[r].pc = "publish" /\ runs[r].todo # <<>> /\ runs[r].todo \in Todos
        /\ runs' = [Written(r, file) EXCEPT ![r].todo = Tail(@)]
    BY <1>6, <1>t DEF Publish, RunType
  <2>2. /\ file \in {"record", "unlink", "outcome"}
        /\ Tail(runs[r].todo) \in OutcomeDone => file = "outcome" \/ runs[r].todo \in OutcomeDone
    BY <2>1, TodoOutcome
  <2>3. /\ Written(r, file) \in Seq(RunType) /\ DOMAIN Written(r, file) = DOMAIN runs
        /\ \A q \in DOMAIN runs :
             /\ Written(r, file)[q].pc = runs[q].pc /\ Written(r, file)[q].todo = runs[q].todo
             /\ Written(r, file)[q].verdict = runs[q].verdict /\ Written(r, file)[q].dir = runs[q].dir
             /\ Written(r, file)[q].events = runs[q].events
             /\ Written(r, file)[q].outcome =
                  IF q = r /\ file = "outcome" THEN runs[q].verdict ELSE runs[q].outcome
    BY <1>s, <2>2, WrittenFiles
  <2>4. PICK w \in RunType : w = Written(r, file)[r]
    BY <2>3
  <2>5. runs'[r] = [w EXCEPT !.todo = Tail(@)] /\ \A q \in DOMAIN runs : q # r => runs'[q] = Written(r, file)[q]
    BY <2>1, <2>3, <2>4
  <2>6. /\ runs'[r].pc = "publish" /\ runs'[r].todo = Tail(runs[r].todo) /\ runs'[r].dir = runs[r].dir
        /\ runs'[r].verdict = runs[r].verdict /\ runs'[r].events = runs[r].events
        /\ runs'[r].outcome = IF file = "outcome" THEN runs[r].verdict ELSE runs[r].outcome
    <3>1. /\ w.pc = "publish" /\ w.todo = runs[r].todo /\ w.dir = runs[r].dir
          /\ w.verdict = runs[r].verdict /\ w.events = runs[r].events
          /\ w.outcome = IF file = "outcome" THEN runs[r].verdict ELSE runs[r].outcome
      BY <2>1, <2>3, <2>4
    <3> HIDE DEF file
    <3>. QED  BY <2>5, <3>1 DEF RunType
  <2>7. \A q \in DOMAIN runs : q # r => SameFiles(q)
    BY <2>3, <2>5 DEF SameFiles
  <2>8. RunOK(r)'
    BY <1>s, <2>1, <2>2, <2>6 DEF RunOK
  <2>. QED  BY <1>t, <2>6, <2>7, <2>8
<1>7. CASE Return(r)
  <2>1. [runs[r] EXCEPT !.pc = "returned"] \in RunType
    BY <1>t DEF RunType
  <2>2. runs'[r] = [runs[r] EXCEPT !.pc = "returned"] /\ \A q \in DOMAIN runs : q # r => SameFiles(q)
    BY <1>7, <1>o, <2>1 DEF Return
  <2>3. /\ runs'[r].pc = "returned" /\ runs'[r].verdict = runs[r].verdict /\ runs'[r].dir = runs[r].dir
        /\ runs'[r].outcome = runs[r].outcome /\ runs'[r].events = runs[r].events
    BY <1>t, <2>2 DEF RunType
  <2>4. runs[r].outcome = runs[r].verdict /\ runs[r].dir # None
    <3>1. <<>> \in OutcomeDone
      BY DEF OutcomeDone
    <3>. QED  BY <1>7, <1>s, <3>1 DEF RunOK, Return
  <2>. QED  BY <1>t, <2>2, <2>3, <2>4 DEF RunOK
<1>8. CASE PublishError(r)
  <2>1. Records("ERROR") \in Todos /\ Records("ERROR") \notin OutcomeDone
    BY DEF Records, Todos, OutcomeDone
  <2>2. [runs[r] EXCEPT !.verdict = "ERROR", !.todo = Records("ERROR")] \in RunType
    BY <1>t, <2>1 DEF RunType, Verdicts
  <2>3. /\ runs'[r] = [runs[r] EXCEPT !.verdict = "ERROR", !.todo = Records("ERROR")]
        /\ \A q \in DOMAIN runs : q # r => SameFiles(q)
    BY <1>8, <1>o, <2>2 DEF PublishError
  <2>4. /\ runs'[r].pc = "publish" /\ runs'[r].todo = Records("ERROR") /\ runs'[r].dir = runs[r].dir
        /\ runs'[r].events = runs[r].events
    BY <1>8, <1>t, <2>3 DEF RunType, PublishError
  <2>5. runs[r].dir # None
    BY <1>8, <1>s DEF RunOK, PublishError
  <2>. QED  BY <1>t, <2>1, <2>3, <2>4, <2>5 DEF RunOK
<1>9. CASE Raise(r)
  <2>1. /\ Gone(runs[r]) \in RunType /\ Gone(runs[r]).pc = "killed" /\ Gone(runs[r]).dir = runs[r].dir
        /\ Gone(runs[r]).events = runs[r].events
    BY <1>t DEF RunType, Gone, Todos
  <2>2. runs'[r] = Gone(runs[r]) /\ \A q \in DOMAIN runs : q # r => SameFiles(q)
    BY <1>9, <1>o, <2>1 DEF Raise
  <2>. QED  BY <1>s, <1>t, <2>1, <2>2 DEF RunOK
<1>. QED  BY <1>1, <1>2, <1>3, <1>4, <1>5, <1>6, <1>7, <1>8, <1>9 DEF Threads, Thread

(* A client and a thread are looked at one by one.                         *)
LEMMA MinOfTwo ==
  ASSUME NEW a \in Nat, NEW b \in Nat
  PROVE  Min({a, b}) = IF a <= b THEN a ELSE b
BY DEF Min

LEMMA NextPolls ==
  ASSUME FinalInv, NEW s \in Sessions, PollSession(s) \/ ReadEvents(s) \/ Respond(s)
  PROVE  FinalInv'
<1>t. /\ runs \in Seq(RunType) /\ 0 \notin DOMAIN runs /\ \A q \in DOMAIN runs : runs[q].events \in Nat
      /\ poll[s] \in [run : Nat, status : Statuses, cursor : Nat, full : BOOLEAN, read : BOOLEAN]
      /\ client[s] \in [run : Nat, status : Statuses, outcome : Verdicts \cup {None},
                        cursor : Nat, full : BOOLEAN]
      /\ session[s].run \in Nat /\ session[s].status \in Statuses
  <2>1. runs \in Seq(RunType) /\ \A q \in DOMAIN runs : runs[q] \in RunType /\ q # 0
    BY DEF FinalInv, SessionInv, TypeInv
  <2>2. \A run \in RunType : run.events \in Nat
    BY DEF RunType
  <2>. QED  BY <2>1, <2>2 DEF FinalInv, SessionInv, TypeInv
<1>u. UNCHANGED <<up, runs, active, session>>
  BY DEF PollSession, ReadEvents, Respond
<1>i. SessionInv'
  BY <1>u DEF FinalInv, SessionInv, TypeInv, SessionOK, Live
<1>l. \A q \in DOMAIN runs : Later(q)
  BY <1>t, <1>u DEF Later
<1>r. SessionsOver' /\ \A q \in DOMAIN runs' : RunOK(q)'
  BY <1>u DEF FinalInv, SessionsOver, RunOK, Over, Live
<1>1. CASE PollSession(s)
  <2>1. /\ poll' = [poll EXCEPT ![s] = [NoPoll EXCEPT !.run = session[s].run, !.status = session[s].status]]
        /\ client' = client /\ session[s] # NoSession
    BY <1>1 DEF PollSession
  <2>2. /\ [NoPoll EXCEPT !.run = session[s].run, !.status = session[s].status]
             \in [run : Nat, status : Statuses, cursor : Nat, full : BOOLEAN, read : BOOLEAN]
        /\ poll'[s].run = session[s].run /\ poll'[s].status = session[s].status /\ poll'[s].read = FALSE
    BY <1>t, <2>1 DEF NoPoll, FinalInv
  <2>3. session[s].run \in DOMAIN runs
    BY <2>1 DEF FinalInv, SessionInv, SessionOK
  <2>4. PollOK(s)'
    BY <1>u, <2>2, <2>3 DEF PollOK, FinalInv, SessionsOver, Over, Live
  <2>5. \A z \in Sessions : (z # s => poll'[z] = poll[z]) /\ client'[z] = client[z]
    BY <2>1 DEF FinalInv
  <2>6. \A z \in Sessions : PollOK(z)' /\ ClientOK(z)'
    BY <1>l, <2>4, <2>5, ReadStaysTrue
  <2>. QED  BY <1>i, <1>r, <2>1, <2>2, <2>6 DEF FinalInv
<1>2. CASE ReadEvents(s)
  <2>1. /\ poll[s] # NoPoll /\ client' = client
        /\ poll' = [poll EXCEPT ![s] = [poll[s] EXCEPT !.read = TRUE, !.cursor = NextEvent(s),
                                          !.full = (NextEvent(s) = Cursor(s) + Page)]]
    BY <1>2, <1>t DEF ReadEvents, FinalInv
  <2> DEFINE r == poll[s].run
  <2>2. r \in DOMAIN runs /\ PollOK(s) /\ ClientOK(s) /\ RunOK(r)
    BY <2>1 DEF FinalInv, PollOK
  <2>3. /\ NextEvent(s) \in Nat /\ NextEvent(s) <= runs[r].events
        /\ \/ NextEvent(s) = Cursor(s) + Page \/ NextEvent(s) = runs[r].events
           \/ runs[r].dir = "pruned"
    <3>1. Cursor(s) \in Nat /\ Cursor(s) <= runs[r].events /\ runs[r].events \in Nat
      BY <1>t, <2>2 DEF Cursor, ClientOK
    <3>2. CASE Readable(r)
      <4>1. NextEvent(s) = Min({runs[r].events, Cursor(s) + Page})
        BY <3>2 DEF NextEvent
      <4>2. Page \in Nat /\ Cursor(s) + Page \in Nat
        BY <3>1, BoundsAssumption
      <4>3. NextEvent(s) = IF runs[r].events <= Cursor(s) + Page THEN runs[r].events ELSE Cursor(s) + Page
        BY <3>1, <4>1, <4>2, MinOfTwo
      <4>. QED  BY <3>1, <4>2, <4>3
    <3>3. CASE ~Readable(r)
      <4>1. NextEvent(s) = Cursor(s)
        BY <3>3 DEF NextEvent
      <4>2. runs[r].dir = "pruned" \/ runs[r].dir = None
        <5>1. runs[r] \in RunType
          BY <1>t, <2>2
        <5>. QED  BY <3>3, <5>1 DEF RunType, Readable
      <4>3. runs[r].dir = None => runs[r].events = 0
        BY <2>2 DEF RunOK
      <4>. QED  BY <3>1, <4>1, <4>2, <4>3
    <3>. QED  BY <3>2, <3>3
  <2>4. /\ poll'[s].run = r /\ poll'[s].status = poll[s].status /\ poll'[s].cursor = NextEvent(s)
        /\ poll'[s].full <=> (NextEvent(s) = Cursor(s) + Page)
        /\ poll'[s] \in [run : Nat, status : Statuses, cursor : Nat, full : BOOLEAN, read : BOOLEAN]
    BY <1>t, <2>1, <2>3 DEF FinalInv
  <2>5. PollOK(s)'
    BY <1>u, <2>1, <2>2, <2>3, <2>4 DEF PollOK, AllSeen, Over, Live
  <2>6. \A z \in Sessions : (z # s => poll'[z] = poll[z]) /\ client'[z] = client[z]
    BY <2>1 DEF FinalInv
  <2>7. \A z \in Sessions : PollOK(z)' /\ ClientOK(z)'
    BY <1>l, <2>5, <2>6, ReadStaysTrue
  <2>8. poll' \in [Sessions -> [run : Nat, status : Statuses, cursor : Nat, full : BOOLEAN, read : BOOLEAN]]
    BY <2>1, <2>4 DEF FinalInv
  <2>. QED  BY <1>i, <1>r, <2>1, <2>7, <2>8 DEF FinalInv
<1>3. CASE Respond(s)
  <2> DEFINE r == poll[s].run
             o == OutcomeRead(r, poll[s].status)
  <2>1. /\ poll[s].read /\ poll' = [poll EXCEPT ![s] = NoPoll]
        /\ client' = [client EXCEPT ![s] =
             [run |-> r, status |-> poll[s].status, cursor |-> poll[s].cursor,
              full |-> poll[s].full, outcome |-> o]]
    BY <1>3 DEF Respond, Reported
  <2>2. poll[s] # NoPoll
    BY <2>1 DEF NoPoll
  <2>3. r \in DOMAIN runs /\ PollOK(s) /\ RunOK(r) /\ runs[r] \in RunType
    <3>1. PollOK(s)
      BY DEF FinalInv
    <3>2. r \in DOMAIN runs
      BY <2>2, <3>1 DEF PollOK
    <3>. QED  BY <1>t, <3>1, <3>2 DEF FinalInv
  <2>4. o \in Verdicts \cup {None}
    BY <2>3 DEF OutcomeRead, RunType
  <2>5. poll[s].status \in Terminal /\ poll[s].status # "FAILED" => o = runs[r].verdict
    BY <2>2, <2>3 DEF PollOK, Over, RunOK, OutcomeRead
  <2> HIDE DEF o
  <2>6. /\ client'[s].run = r /\ client'[s].status = poll[s].status /\ client'[s].cursor = poll[s].cursor
        /\ client'[s].full = poll[s].full /\ client'[s].outcome = o
    BY <2>1 DEF FinalInv
  <2>7. ClientOK(s)'
    BY <1>u, <1>t, <2>1, <2>2, <2>3, <2>5, <2>6 DEF ClientOK, PollOK, AllSeen, Over, Live
  <2>8. PollOK(s)'
    BY <2>1 DEF FinalInv, PollOK
  <2>9. \A z \in Sessions : z # s => poll'[z] = poll[z] /\ client'[z] = client[z]
    BY <2>1 DEF FinalInv
  <2>10. \A z \in Sessions : PollOK(z)' /\ ClientOK(z)'
    BY <1>l, <2>7, <2>8, <2>9, ReadStaysTrue
  <2>11. client' \in [Sessions -> [run : Nat, status : Statuses, outcome : Verdicts \cup {None},
                                   cursor : Nat, full : BOOLEAN]]
    BY <1>t, <2>1, <2>4 DEF FinalInv
  <2>12. poll' \in [Sessions -> [run : Nat, status : Statuses, cursor : Nat, full : BOOLEAN, read : BOOLEAN]]
    BY <2>1 DEF FinalInv, NoPoll, Statuses
  <2>. QED  BY <1>i, <1>r, <2>10, <2>11, <2>12 DEF FinalInv
<1>. QED  BY <1>1, <1>2, <1>3

LEMMA NextFinalInv == FinalInv /\ [Next]_vars => FinalInv'
<1> SUFFICES ASSUME FinalInv, [Next]_vars PROVE FinalInv'
  OBVIOUS
<1>i. SessionInv /\ SessionInv'
  BY NextSessionInv DEF FinalInv
<1>t. /\ runs \in Seq(RunType) /\ \A q \in DOMAIN runs : runs[q] \in RunType /\ runs[q].events \in Nat
      /\ session \in [Sessions -> [run : Nat, status : Statuses, answers : SUBSET Nat]]
  <2>1. runs \in Seq(RunType) /\ \A q \in DOMAIN runs : runs[q] \in RunType
    BY <1>i DEF SessionInv, TypeInv
  <2>2. \A run \in RunType : run.events \in Nat
    BY DEF RunType
  <2>. QED  BY <1>i, <2>1, <2>2 DEF SessionInv, TypeInv
<1>u. \A q \in DOMAIN runs' : runs'[q].events \in Nat
  <2>1. \A q \in DOMAIN runs' : runs'[q] \in RunType
    BY <1>i DEF SessionInv, TypeInv
  <2>. QED  BY <2>1 DEF RunType
(* Steps that leave the requests alone. *)
<1>o. ASSUME \A q \in DOMAIN runs : Later(q), poll' = poll, SessionsOver',
             \A q \in DOMAIN runs' : RunOK(q)',
             \/ client' = client
             \/ \E s \in Sessions : client' = [client EXCEPT ![s] = NoAnswer]
      PROVE  FinalInv'
  <2>1. NoAnswer \in [run : Nat, status : Statuses, outcome : Verdicts \cup {None},
                      cursor : Nat, full : BOOLEAN]
    BY DEF NoAnswer, Statuses
  <2>2. client' \in [Sessions -> [run : Nat, status : Statuses, outcome : Verdicts \cup {None},
                                  cursor : Nat, full : BOOLEAN]]
    BY <1>o, <2>1 DEF FinalInv
  <2>3. \A z \in Sessions : client'[z] = client[z] \/ client'[z] = NoAnswer
    BY <1>o DEF FinalInv
  <2>4. \A z \in Sessions : client'[z] = NoAnswer => ClientOK(z)'
    BY DEF ClientOK, NoAnswer, Terminal, None
  <2>5. \A z \in Sessions : PollOK(z)' /\ ClientOK(z)'
    BY <1>o, <2>3, <2>4, ReadStaysTrue
  <2>. QED  BY <1>i, <1>o, <2>2, <2>5 DEF FinalInv
<1>1. ASSUME NEW s \in Sessions, StartSession(s) \/ Answer(s) PROVE FinalInv'
  <2>n. PICK n : n = Len(runs) + 1
    OBVIOUS
  <2>1. /\ n \in Nat /\ n \notin DOMAIN runs /\ DOMAIN runs' = DOMAIN runs \cup {n}
        /\ \A q \in DOMAIN runs : runs'[q] = runs[q]
        /\ runs'[n].pc = "queued" /\ runs'[n].dir = None /\ runs'[n].events = 0
        /\ session' = [session EXCEPT ![s] =
                         [run |-> n, status |-> "QUEUED", answers |-> runs'[n].answers]]
    BY <1>1, <1>i, <2>n, OpenStep
  <2>2. \A q \in DOMAIN runs : Later(q)
    BY <1>t, <2>1 DEF Later
  <2>3. \A q \in DOMAIN runs' : RunOK(q)'
    BY <2>1 DEF FinalInv, RunOK
  <2>4. ASSUME NEW z \in Sessions, session'[z].status \in Terminal
        PROVE  session'[z] = session[z] /\ session[z].run \in DOMAIN runs
    <3>1. z # s
      BY <1>t, <2>1, <2>4 DEF Terminal
    <3>2. session'[z] = session[z]
      BY <1>t, <2>1, <3>1
    <3>. QED  BY <1>i, <2>4, <3>2 DEF SessionInv, SessionOK, Terminal, None
  <2>5. SessionsOver'
    BY <2>1, <2>4 DEF FinalInv, SessionsOver, Over, Live
  <2>6. poll' = poll /\ (client' = client \/ client' = [client EXCEPT ![s] = NoAnswer])
    BY <1>1 DEF StartSession, Answer
  <2>. QED  BY <1>o, <2>2, <2>3, <2>5, <2>6
<1>2. ASSUME NEW r \in DOMAIN runs, Threads(r) PROVE FinalInv'
  <2>1. /\ RunOK(r)' /\ \A q \in DOMAIN runs : q # r => SameFiles(q)
        /\ runs[r].events <= runs'[r].events
    BY <1>2, ThreadFiles
  <2>2. Live(r) /\ RunsChange(r) /\ SessionChange(r)
    BY <1>2, <1>i, ThreadStep
  <2>3. DOMAIN runs' = DOMAIN runs
    BY <2>2 DEF RunsChange
  <2>4. \A q \in DOMAIN runs : Later(q)
    BY <1>t, <1>u, <2>1, <2>2, <2>3 DEF Later, SameFiles
  <2>5. \A q \in DOMAIN runs' : RunOK(q)'
    BY <2>1, <2>3 DEF FinalInv, RunOK, SameFiles, None
  <2>6. ASSUME NEW z \in Sessions, session'[z].status \in Terminal
        PROVE  Over(session[z].run, session[z].status)'
    <3>0. runs[r].of \in Sessions /\ session[runs[r].of].run = r
      <4>1. runs[r].of \in Sessions
        BY <1>t DEF RunType
      <4>. QED  BY <1>i, <2>2, <4>1 DEF SessionInv
    <3>1. CASE z = runs[r].of
      <4>1. session'[z].run = r
        BY <1>t, <2>2, <3>0, <3>1 DEF SessionChange, StatusSet
      <4>2. session[z].status \in {"QUEUED", "RUNNING"}
        BY <1>i, <2>2, <3>1 DEF SessionInv
      <4>3. \/ session'[z].status = "COMPLETED" /\ runs'[r].pc = "returned" /\ runs'[r].verdict # "NEEDS_INPUT"
            \/ session'[z].status = "NEEDS_INPUT" /\ runs'[r].pc = "returned" /\ runs'[r].verdict = "NEEDS_INPUT"
            \/ session'[z].status = "FAILED" /\ ~Live(r)'
        BY <1>t, <2>2, <2>6, <3>0, <3>1, <4>2 DEF SessionChange, StatusSet, Terminal
      <4>. QED  BY <4>1, <4>3 DEF Over, Live
    <3>2. CASE z # runs[r].of
      <4>1. session'[z] = session[z]
        BY <1>t, <2>2, <3>2 DEF SessionChange, StatusSet
      <4>2. session[z].run \in DOMAIN runs /\ session[z].run # r
        BY <1>i, <2>6, <3>2, <4>1 DEF SessionInv, SessionOK, Terminal, None
      <4>3. Over(session[z].run, session[z].status)
        BY <2>6, <4>1 DEF FinalInv, SessionsOver
      <4>. QED  BY <2>2, <4>1, <4>2, <4>3 DEF Over, Live, RunsChange
    <3>. QED  BY <3>1, <3>2
  <2>7. SessionsOver'
    BY <2>6 DEF SessionsOver
  <2>8. poll' = poll /\ client' = client
    BY <1>2 DEF Threads, Thread, Begin, CreateRecord, Activate, Decide, Publish, Return, Emit,
                PublishError, Raise
  <2>. QED  BY <1>o, <2>4, <2>5, <2>7, <2>8
<1>3. CASE Killed
  <2>1. /\ session' = [s \in Sessions |-> NoSession] /\ DOMAIN runs' = DOMAIN runs
        /\ \A q \in DOMAIN runs :
             runs'[q] = IF runs[q].pc = "returned" THEN runs[q] ELSE Gone(runs[q])
    BY <1>3, <1>i, KilledStep
  <2>2. /\ poll' = [s \in Sessions |-> NoPoll] /\ client' = [s \in Sessions |-> NoAnswer]
    BY <1>3 DEF Killed
  <2>3. \A run \in RunType : /\ Gone(run).pc = "killed" /\ Gone(run).dir = run.dir
                             /\ Gone(run).events = run.events
    BY DEF Gone, RunType
  <2>4. ASSUME NEW q \in DOMAIN runs' PROVE RunOK(q)'
    <3>1. RunOK(q) /\ q \in DOMAIN runs
      BY <2>1 DEF FinalInv
    <3>2. CASE runs[q].pc = "returned"
      BY <2>1, <3>1, <3>2 DEF RunOK
    <3>3. CASE runs[q].pc # "returned"
      <4>1. /\ runs'[q].pc = "killed" /\ runs'[q].dir = runs[q].dir
            /\ runs'[q].events = runs[q].events
        BY <1>t, <2>1, <2>3, <3>1, <3>3
      <4>. QED  BY <3>1, <4>1 DEF RunOK
    <3>. QED  BY <3>2, <3>3
  <2>5. SessionsOver'
    BY <2>1 DEF SessionsOver, NoSession, Terminal, None
  <2>6. \A s \in Sessions : PollOK(s)' /\ ClientOK(s)'
    BY <2>2 DEF PollOK, ClientOK, NoAnswer, Terminal, None
  <2>7. /\ poll' \in [Sessions -> [run : Nat, status : Statuses, cursor : Nat,
                                   full : BOOLEAN, read : BOOLEAN]]
        /\ client' \in [Sessions -> [run : Nat, status : Statuses, outcome : Verdicts \cup {None},
                                     cursor : Nat, full : BOOLEAN]]
    BY <2>2 DEF NoPoll, NoAnswer, Statuses
  <2>. QED  BY <1>i, <2>4, <2>5, <2>6, <2>7 DEF FinalInv
<1>4. ASSUME NEW repo \in Repositories, Abort(repo) PROVE FinalInv'
  <2>1. PICK a \in DOMAIN runs : a = active[repo]
    BY <1>4, <1>i, AbortStep
  <2>2. /\ session' = session /\ DOMAIN runs' = DOMAIN runs
        /\ \A q \in DOMAIN runs : q # a => runs'[q] = runs[q]
        /\ runs'[a] = Closed(runs[a], 0, "BLOCKED")
    BY <1>4, <1>i, <2>1, AbortStep
  <2>3. SameFiles(a) /\ runs'[a].dir = runs[a].dir
    <3>1. runs[a] \in RunType /\ 0 \in Nat /\ "BLOCKED" \in Verdicts \cup {None, "BLOCKED"}
      BY <1>t
    <3>2. /\ runs'[a].pc = runs[a].pc /\ runs'[a].todo = runs[a].todo /\ runs'[a].dir = runs[a].dir
          /\ runs'[a].verdict = runs[a].verdict /\ runs'[a].events = runs[a].events
          /\ runs'[a].outcome = runs[a].outcome
      BY <2>2, <3>1, ClosedOK
    <3>. QED  BY <3>2 DEF SameFiles
  <2>4. \A q \in DOMAIN runs : SameFiles(q) /\ runs'[q].dir = runs[q].dir
    BY <2>2, <2>3 DEF SameFiles
  <2>5. \A q \in DOMAIN runs : Later(q)
    BY <1>t, <2>2, <2>4 DEF Later, SameFiles
  <2>6. \A q \in DOMAIN runs' : RunOK(q)'
    BY <2>2, <2>4 DEF FinalInv, RunOK, SameFiles
  <2>7. SessionsOver'
    <3>1. \A s \in Sessions : session[s].status \in Terminal => session[s].run \in DOMAIN runs
      BY <1>i DEF SessionInv, SessionOK, Terminal, None
    <3>. QED  BY <2>2, <2>4, <3>1 DEF FinalInv, SessionsOver, Over, Live, SameFiles
  <2>8. poll' = poll /\ client' = client
    BY <1>4 DEF Abort
  <2>. QED  BY <1>o, <2>5, <2>6, <2>7, <2>8
<1>5. ASSUME NEW s \in Sessions, PollSession(s) \/ ReadEvents(s) \/ Respond(s) PROVE FinalInv'
  BY <1>5, NextPolls
<1>6. CASE UNCHANGED <<runs, session, poll, client>>
  <2>1. \A q \in DOMAIN runs : Later(q)
    BY <1>6, <1>t DEF Later
  <2>2. SessionsOver' /\ \A q \in DOMAIN runs' : RunOK(q)'
    BY <1>6 DEF FinalInv, SessionsOver, RunOK, Over, Live
  <2>. QED  BY <1>6, <1>o, <2>1, <2>2
<1>7. CASE Restart \/ Ended \/ UNCHANGED vars
  BY <1>6, <1>7 DEF Restart, Ended, vars
<1>8. ASSUME NEW r \in DOMAIN runs, Thread(r) \/ Emit(r) \/ PublishError(r) \/ Raise(r) PROVE FinalInv'
  BY <1>2, <1>8 DEF Threads
<1>. QED  BY <1>1, <1>3, <1>4, <1>5, <1>7, <1>8 DEF Next

(* What a client is told of a run that is over is final, although status,  *)
(* events and outcome are read one after another (mcp_server.py,           *)
(* _session_payload), for any number of clients, events and page sizes.    *)
THEOREM LastAnswersAreFinal == Spec => []LastAnswerIsFinal
<1>1. Init => FinalInv
  BY InitSessionInv DEF Init, FinalInv, SessionsOver, PollOK, ClientOK, NoSession, NoPoll, NoAnswer,
                        Terminal, Statuses, None
<1>2. FinalInv => LastAnswerIsFinal
  BY DEF FinalInv, ClientOK, Over, AllSeen, LastAnswerIsFinal
<1>. QED  BY <1>1, <1>2, NextFinalInv, PTL DEF Spec
=============================================================================
