# A TLA+ model of ProofLoop

ProofLoop (`src/proofloop_core/`) runs coding-agent roles (explorer, planner,
implementer, recovery, reviewer) over a Git repository, verifies what they did with
deterministic commands, repairs it within budgets, promotes an accepted tree from an
isolated worktree to the owner's and issues a truth verdict. This directory holds TLA+
modules of its core logic, TLC configurations that check them on small instances, and
TLAPS proofs for every value of the constants. `PROJECT.json` maps each definition to the
lines it translates and lists runs, theorems and hazards. Paths below are relative to
`src/proofloop_core/`.

## The system

| Component | State it keeps | Operations | What makes it correct | Module |
|---|---|---|---|---|
| Task loop (`engine/task_executor.py`, `engine/repair.py`, parts of `engine/orchestrator.py`) | attempts of the task, replans, goal cycles, tier, tokens | start a task, baseline/red proof, invoke, verify, decide, replan, escalate | bounded retries, no third identical attempt, violations are final, hard token limit | `Repair`, `TaskExecutor` |
| Run and delivery (`engine/orchestrator.py`, `context/worktree_sandbox.py`) | run phase, the two worktrees, review cycle, records on disk | prepare, tasks, verify, guard and seal, review, repair, promote, gate, publish | only an approved tree is delivered, the verdict speaks of it, every end is recorded | `Delivery`, `DeliveryContract` |
| Proof graph, evidence policy (`context/proof_graph.py`, `contracts/evidence_policy.py`) | obligations and their evidence | record, invalidate, reopen | a closed obligation has evidence of the current tree | `ProofGraph` |
| Truth gate (`assurance/truth.py`, `assurance/assurance.py`) | none | verdict from the evidence files | PROVEN is earned | `TruthGate` |
| Diff guard, snapshots (`assurance/diff_guard.py`, `context/git_snapshot.py`) | worktree, index, snapshots | judge a task, judge the run, promote | nothing outside the contract gets through | `DiffGuard` |
| Process runner (`runtimes/process_runner.py`) | processes, two readers, a bounded queue, timers | run a command and bring it down | returns, loses no output, leaves no reader | `ProcessRunner` |
| Host invocation (`runtimes/adapters.py`, `host_runner.py`, `acp_runner.py`, `contracts/host_receipt.py`) | logs, receipt, result file of a call | invoke a role by CLI or ACP, redact, seal, validate, extract, classify | a completed role has the evidence of its own call | `HostInvocation` |
| Event log and `watch` (`context/events.py`, `ui/watch.py`) | `events.jsonl`, a lock, a sequence | emit, publish, repair, follow | append-only, spoilt by nothing but the text of an event, readers see whole events | `EventLog` |
| Run records, MCP server (`contracts/run_state.py`, `mcp_server.py`) | sessions, `active-run.json`, run directories | start, answer, poll, prune, finalize, abort | one run per session, answers kept, records closed by their own run | `ControlPlane` |
| Live evidence (`assurance/live_evidence.py`) | sealed bundle, manifest | seal a cycle, validate, verify a run from outside | valid means: what a completed seal captured, whoever else writes | `LiveEvidence` |
| Checks, verification plan (`assurance/checks.py`, `preflight.py`, `contracts/verification_plan.py`) | frozen plan, reports | compile twice, run required and post-implementation checks, merge | mandatory checks and evaluator inputs cannot be changed by a role | `Contracts`, `LiveEvidence` |
| Preparation: intent gate, strategy, grounding, brief, planner, plan review (`engine/orchestrator.py`, `intent_gate.py`, `intent.py`, `strategy.py`, `roles.py`, `reconciler.py`, `contracts/*`) | the contracts of the run, the owner's worktree | classify, compile, explore, plan, review, validate | risk is reviewed, no requirement is lost, read-only roles leave no trace | `Strategy`, `Contracts`, `Preparation` |
| Skills and domain runtime (`engine/skills.py`, `skill_registry.py`, `domain_runtime.py`) | none | resolve protocols, packs and reference slices | what is loaded fits the tier's token budget | `Skills` |
| Usage (`analysis/usage.py`, `analysis/tokscale.py`, `output_parsers/`) | usage ledger, invocations, reconciliation | observe, account, reconcile, summarize | nothing counts twice, the budget covers what it was charged for | `Usage` |
| Relay, TUI/CLI, project memory, external loop, benchmarks | | | | not modelled, see the end |

How they interact: the orchestrator is one thread. It calls the task loop, which calls
the adapter, which calls the process runner (or an ACP session); every step emits into the
event log, from the orchestrator's and the runner's callbacks. Evidence goes through files of
the run directory: checks, diff guard, seal and review are written by one step and read
again by the proof graph, the assurance report and the truth gate. The MCP server runs each
orchestrator in a thread of its own and reads its files while it works. Followers and
clients are other processes. The owner may edit the original worktree at any time; roles
and checks may change the isolated one.

What is hard here: decisions made on evidence that describes an earlier tree (repair after
review, checks that edit, an index that lags behind its snapshots); a cascade of bounded
retries whose bounds are spread over briefs, tables and modes; reader threads, a bounded
queue and a process tree that are taken down together; files that are read while others write
them; and ends of a run (pause, failure, internal error, kill) that must each leave the
records consistent. The hazards are listed at their lines in `PROJECT.json`.

## The modules

**`Repair`, `TaskExecutor`.** `Repair` holds the pure part: the decision table `Decision`
of `decide_repair`, the evidence delta and the budget tests. `TaskExecutor` is the loop; its
`pc` follows `execute_task` (proof, cycle, invoke, verify, decide, replan). One action stands
for each step that ends in a decision or a host call; the verdicts of checks, diff guard
and the implementer's classification are the inputs. Escalation (`_activate_recovery_protocol`)
and token accounting (`_account_role_budget`) are operators of the invocation. A goal run
differs only by the constant `GoalMode`.

**`ProofGraph`, `TruthGate`, `Delivery`.** `ProofGraph` has the obligations and what
`_record_verification_proof` closes; `TruthGate` the verdict of `build_truth_report` as a
function of what the evidence files say. `Delivery` composes both with the run: a worktree is
the set of its differences from the baseline (edits inside and outside the allowed paths, junk
the ephemeral filter hides, the owner's edits, and what a planner left that broke its read-only contract).
The task loop is one action that may leave any tree (its own module says what it may do).
`Raise` is a failing write, git call or adapter: inside `run`'s try it becomes a system
error, in an except clause it leaves `run`. `Killed` may come at any step.
`DeliveryRecords` lists what each way of ending a run writes, in the order of the code.

**`DeliveryContract`** is the abstract specification: the owner's worktree changes by the
owner, by a planner's leak (then nothing is delivered), or once by a permitted delivery; one
verdict is issued, and a claim needs a delivery. `Delivery` implements it under the
mapping `worktree <- original`, `issued <- files.truth`, `Safe <- InScope` and junk.

**`DiffGuard`** models what Git shows rather than what is there: a snapshot holds the whole
worktree, `git diff <commit>` only paths of the index, and rename detection pairs deletions
with additions of the same or a similar content. Files have contents (`0` absent, `9` weakens a
test). Tasks change the tree one after another, each judged against its snapshot, and the aggregate
against the baseline. Nothing in the code keeps a role from `git add`, `git mv` or `git rm --cached`, so a
task leaves any tree and any index over the files seen so far. The properties say what the guards are
worth then: they bound everything but moves, of which `--name-only` and the parser of `--name-status`
show the new name. Globs are sets of files; line budgets are left out.

**`ProcessRunner`** has the leader and a helper that may leave the process group and may keep
the pipes open, the two readers, the queue, the timers, and `main`, whose two labels are the
ends of a loop iteration of `run`. Termination is SIGTERM, then SIGKILL, then the
release of the pipes.

**`EventLog`** has a line in degrees (a fragment, one that ends inside a character, a whole event
without its newline, a line), so a death or a reader may meet every one of them. Events are written
as raw UTF-8 (`context/events.py:339`), and `_recover_sequence` reads them strictly and splits them
with `str.splitlines`. An event is therefore plain ASCII, or has wider characters (a death inside one leaves a
file no emitter can open), or holds U+0085, U+2028 or U+2029 (its line falls in two for the next
emitter). The follower of `ui/watch.py` splits at newlines only, but its decoder raises as well when a
read ends the file inside a character.

**`HostInvocation`** makes invocations one after another. A line is what the parent can tell of
it (plain, an echo of the prompt's markers, an answer as text or inside a JSON message,
reasoning, a rate limit, a model name, one the parser fails on, which `on_line` contains). The log gets the filtered
line, `on_line` the original, in the order of arrival. After the exit the steps are
redaction and receipt, validation, extraction of the result, classification by `_invoke`;
a hash is the hashed value. `adapter.invoke` may raise at every one of these steps (`HostRaises`): the call is
then over as a system error, whatever it has left. The arguments of each host are left out; what a host reports of
its usage is in `Usage`.

**`ControlPlane`** has the orchestrators the server made, each a thread with its records,
`active-run.json` of each repository, the sessions, and one client per session whose
request reads status, events and outcome in three steps, as `_session_payload` does. What
a run does in between is one choice of a verdict; its records are written one by one in
the order of the finalizers. The server may be killed and restarted, and `abort-run` called.

**`Strategy`, `Contracts`, `Skills`, `Preparation`.** The first three are pure: how the gate's
answer, the wording, an override and the repository's signals make a decision; how clauses
become criteria, criteria a brief, a brief and a planner's answer tasks, and all of them the
verification plan; which skills fit a budget (a pack is loaded once, by its name). `Preparation` is the part of `run` that uses them, from
the intent gate to the isolated worktree, one action for each step that may end the run. It
happens in the owner's worktree, a set of the edits made to it since the start: the owner's, the
classifier's, and a leak of a role that may only read. The plan is compiled before the first
role (`frozen`) and again after the planner, and the guard of each role compares the
tree before and after it. `Prepares` states that all of it together is the one step `Prepare` of
`Delivery` or leaves no trace, under the mapping at the end of the module.

**`LiveEvidence`** seals what two review cycles reported: the files are copied one by one, the
old bundle is removed, the new one renamed into place, and only then the manifest written. A
validation takes several steps, by the run itself or by `verify-run` from another process: it
reads the plain reports and the proof graph, whether there is a manifest, the hashes of the bundle, then
again from the bundle the reports, the source map and the plan (which is compared with its own
digest only), and last the files the map names. Meanwhile somebody else may write a sealed file, any
file of the bundle with its plan and source map, a file that does not belong there, the manifest (or
remove it) and the proof graph, and the run may fail or die between two writes. Each of these writes
is on its own: a forger who rewrites bundle, source and manifest to agree with each other is not in
the model. Neither is a write into the temporary tree, whose name is random. A file is who wrote it, in which cycle, and what it
says; `view` is what a validation has read so far. Commit, tree and policy hashes are the hashed values.

The properties except what nothing guards, each by name: a report replaced between its comparison and
its copy (`raced`), a validation the next seal overtakes (`overtaken`), a source map or a plan rewritten
between the hashing of the bundle and its reading (`swapped`), and, for a run that passes without a manifest,
that others removed it or wrote the graph (`tampered`). Outside them, "a write after capture cannot
silently promote a verdict" (`assurance/live_evidence.py:160`).

**`Usage`** has the ledger of each invocation as a sequence of observations, the lines of four kinds
of host, and two processes that reconcile with tokscale, each with the keys it had read before. A
line is a cumulative or a final figure under an identity: its own, or the name of its event. Antigravity
calls its `usage` lines final, and without ids all of them share the identity `usage`, so that of two
such lines the later figure is dropped (`output_parsers/antigravity.py:36`); `again` marks an invocation that lost its
last figure in this way. An invocation ends in one of four ways: accounted and recorded (`End`), accounted over the
budget, which stops the run before the row is written (`Exhaust`), by an exception of
`adapter.invoke`, which is not charged (`Raise`), and the classifier's, which the intent gate runs outside
`_invoke` (`Classify`). What the host had reported is in the ledger all the same. tokscale knows sessions: an entry goes
to the last invocation that names its session, and what Codex printed is a session of its own (`Entries`).
So the report may show more than the budget was charged, of invocations that raised and of the
classifier, and an invocation whose host was silent may be given the use of others that share its
session; `BudgetCoversReport` and `FiguresAreReal` say what holds nevertheless.

## The runs

| Run | Instance | What it shows |
|---|---|---|
| `task_loop` | 2 tasks, goal run or not, briefs with budgets (3,1) and (1,0), 1 replan, 4 shared cycles, 3 classifications, 2 fingerprints, T0 and T3 (2.58 M states) | the budgets bound every mix of retries, replans and escalations; no third identical attempt; a violation is final; a recovery escalates and stays; tokens and cycles are limited; the loop ends |
| `delivery` | a goal run, one edit inside and one outside the scope, T0 and T2, with and without reviewer, checks that edit, two review cycles (157 078) | only an approved tree is delivered; PROVEN is earned; records never overclaim, whatever fails; the contract is implemented; the run ends |
| `evaluator_unchanged` | evaluator inputs in the plan | violated: see below |
| `diff_guard` | 2 tasks, 5 contracts, 5 files (75 205) | the final guard is sound but for moves, outside the scope files are only moved, budgets add up |
| `second_task`, `staged_rename` | the same | violated: see below |
| `process_runner` | 2 lines, a queue of 1, all timers, a helper in or out of group and pipes (289 320) | all output is delivered, `run` returns and leaves no reader |
| `host_invocation` | 2 calls of 5 kinds, 2 lines each out of 10 (262 985) | completion is evidenced by the call itself, own receipts are accepted, calls end |
| `control_plane` | 1 session, 3 runs, 1 event a run, pages of 1, 1 retained run, a kill during the first run (1.6 M) | one run per session, answers kept, last answers final, records own, sessions settle |
| `preparation` | 4 modes, 2 requests, 5 answers of the gate, 11 plans, 2 catalogs of commands, 3 of skills, 4 wordings, 4 sets of facts, 1 edit of the owner (454 530) | risk is reviewed, requirements reach tasks, the authority is frozen, skills fit, `Delivery`'s first step is refined |
| `live_evidence` | 2 plans (one with an evaluator input), 1 criterion, 2 stray writes, 2 cycles (@LE@) | valid evidence is what a seal captured, verdicts rest on it, undisturbed evidence stays valid |
| `records` | the log: 2 threads, 3 events, 3 deaths; usage: Codex (cache reads are part of its input) and Antigravity, both of which report while they run, 2 models, 2 invocations, 2 model calls, 1 update (@RE@) | text alone spoils the log, published events stay, a follower shows the log; figures are real whoever reconciles, the budget covers what was charged |

Why the bounds are enough: two tasks are the least that share a run (cycles, escalation,
index, snapshots); two attempts repeat and a third would be the identical one; the budgets
leave room for it. Two review cycles are all the code has. Two lines make every order of
answer and echo, on one or two streams; two calls make a
stale result. A queue of one is full as soon as anything is in it. Three runs are two
continuations (the second must still know the first answer) and the least that prunes with
one retained; a page of one event makes full pages. Two sessions of different repositories
share nothing but the process, so one is enough; two in one repository are
excluded by a documented constraint (`docs/MIGRATION_CONSTRAINTS.md:32`), which `mcp_server.py` does not enforce. A kill during the first run meets both the
one run and the ones that follow it. The instance of `Preparation` has for each branch of a
definition a member that takes it: a requirement that is a boundary too, a non-goal that is not
listed, a plan that splits, drops or does not prove a requirement, an attempted injection, a
catalog that is empty and one that exceeds the smallest budget. One stray write is enough to
hit each file between any two steps, and two to hit a report and its copy, or the graph and the
manifest (any number is proved). No task of that instance has post-implementation checks of its own:
they only add commands to the merged report. The event log and the ledger share no state, so `records` explores
one while the other rests; three deaths are one in a write, one in the repair of it and one in the repair of that. Two models are the least for which an invocation
has several entries of tokscale, and two invocations that name one session the least for which one of them is given
the other's; one update before the last figure is enough for an identity that is used twice. The order in which
`Fill` records the entries of a report is any fixed one.

**Fairness.** `TaskExecutor` and `Delivery`: the run thread goes on; roles and checks end
because they run under a total timeout (`_role_time_budget_seconds`; checks have one only
when the plan says so, which is assumed). `ProcessRunner`: the three threads run, SIGKILL works, and time
passes; a command need not do anything, and `Returns` is stated with a total timeout only.
`HostInvocation`: the parent goes
on and its clock runs; nothing is assumed of the host, and nothing is promised of the
ACP handshake, which has no deadline. `ControlPlane`: the threads of the server go on.
The properties of `EventLog`, `DiffGuard`, `Preparation`, `LiveEvidence` and `Usage` are
safety properties and need none.

## Proofs

The theorems hold for every value of the constants the named assumptions allow; the
assumptions are the `ASSUME`s of the modules, which TLC evaluates in the runs, and the
few a theorem names itself. All invariants below were checked by TLC before they were proved.

**`TaskExecutorProofs`**: `TypeCorrect` (`[]TypeOK`), `EscalationIsBounded` (fast attempts at most
`FastCap` plus one per replan, recovery attempts at most `RecoveryCap`), `ViolationIsFinal`,
`TokenLimitIsHard`, `GoalBudgetIsShared`, `RecoveryAlwaysEscalates`, `ThirdAttemptNeverIdentical`.
`TypeInv` adds to `TypeOK` what two program
points guarantee (a replan is only begun below the limit, a decision has an attempt to
decide on). `EscalationInv` adds `Room`: from the decision to the recording of the next attempt the
scheduled role still has room under its cap, by the budget test of the decision table or by
the replan that was counted. `MaskInv` adds that until the loop is done every recorded diff
passed and, except while deciding, every check failed. `AccountInv` adds that a run that goes on has not
overspent, that escalation never lowers the limit (the assumption on `TokenBudget`: T0 and
T1 not above T2), and that recorded invocations plus the one that is `Owed` are at
most the cycles counted. `RecoveryInv` ties the scheduled role to the escalation of the profile, and
`RepeatInv` says which role may follow a failure that was just repeated. Each `Next...` lemma has
one step per action. Two more theorems bound a run. `LoopRunsOut`: every step lowers `StepsLeft`, a
natural number that starts at most at `AllSteps`: a task spends a try of its budgets on each attempt and
each replan, and between two of them passes the program points in a fixed order. `InvocationsAreBounded`: the
roles invoked in a task are at most its tries spent plus one that is `Owing` (`CostInv`), so a run costs
at most `NTasks * (FastCap + RecoveryCap + 2 * MaxReplans)` of them.

**`DeliveryProofs`**: `DeliveryTypes`, `DeliveredAlwaysApproved`, `ProvenAlwaysEarned`,
`NothingOverclaimed` and `RunImplementsContract`, the refinement of `DeliveryContract`.
`ApprovedInv` says at each program point which tree the reports speak of and how it was approved;
`RecordsInv` which records are left to write and what those written claim; `EarnedInv` that
closed obligations have evidence of the tree that is sealed; `LeakInv` that a planner's leak
ends the run. `RunEndsSoon`: every step lowers a number that is at most 41, since the second review cycle
has no repair, and records that fail to be written are given up for an error record, and that for good.

**`PreparationProofs`**: `RiskAlwaysReviewed` (`RiskInv`: what the decision about a risky run can
be and what an accepted plan went through), `AuthorityStaysFrozen` (`AuthorityInv`: no role wrote
before the freeze, and a frozen plan is what was discovered), `RequirementsAlwaysReachTasks`
(`RequirementsInv`: the intent is the request's, the brief of a heavy run has its criteria,
an accepted blueprint covers the brief). `PreparationTypes` is the type invariant, and
`PreparationImplementsPrepare` the refinement of the one action `Delivery` has for all of it: it either
goes on with a profile or stops the run. `SkillsAlwaysFit`: the skills selected for a run cost no more than
the budget of its tier, for any catalog; `FoldLeft` is unfolded by induction over the prefixes it runs
through, from well-foundedness.

**`ControlPlaneProofs`**, for any number of sessions, repositories and runs: `SessionsHaveOneRun`,
`AnswersAlwaysKept`, `LastAnswersAreFinal`, and `RecordsStayOwn` under `OwnRepositories` (sessions work in
different repositories, `docs/MIGRATION_CONSTRAINTS.md`). `SessionInv` says what the thread of
each run and the session that points to it may be doing; `AnswersInv` follows the answers through
continuations; `RecordInv` relates `active-run.json` to the run it names; `FinalInv` what a client has
read in the middle of a request.

**`RuntimeProofs`** is about the two layers under a role. Of `HostInvocation`: `CompletionIsEvidenced`,
`OwnReceiptIsAccepted`. `ReceiptInv` says
where a call is and that nothing the receipt covers changes after sealing; `Heard` that an answer
in a log, redacted or not, was said in this call; `ResultInv` what the result file can hold. Of
`ProcessRunner`, for any number of pipes and writes: `OutputAlwaysDelivered` and `ReadersAlwaysGone` (once
the runner has returned, no reader is left). `RunnerInv` is a conservation law: unless something
failed, the lines taken from a pipe are those delivered, those in the queue and the one its
reader holds (`Conserved`); a reader stops at the end of its pipe (`ReadToEnd`), its end mark is the
last message of its stream, and nothing of the stream is left after it.

**`LogProofs`** is about the event log and the usage ledger. Of `EventLog`: `LogSpoiltByTextOnly`,
`PublishedStays`, `FollowerIsFaithful`. `LogInv`: the file
is orderly, only its last line may be incomplete and belongs to the lock's holder, no
number is behind the file, and what the repair keeps is finished. `PublishedInv`: published events are lines of the
file unless a repair was interrupted. `FollowerInv`: what was shown is a beginning of it, and what ended the follower.
Of `Usage`, for any number of invocations, any sharing of sessions
and any finite set of models: `FiguresAlwaysReal` and `BudgetAlwaysCovers`. In `UsageInv` every
figure of the ledgers is one that was used (`LedgerReal`), tokscale's too (`EntriesReal`), where another
invocation's figure only stands beside what the host said itself; and an
invocation whose last figure came under a new identity has it in its ledger (`FinalsSaid`). `Covered` adds that
every invocation that was charged was charged what its own host said, which the report's sum does not exceed. Sums over models and
invocations are handled by induction over the parts of a finite set.

**`LiveEvidenceProofs`**, for any number of writes by others: `ValidIsSealed`, `JudgedOnlyOnSeal`, `UndisturbedStaysValid`.
`SealedInv`: the graph closes no obligation before the first manifest, others apart. `PapersInv` and `JudgeInv`: plan and map of a
seal are the core's, and so is what a validation reads of them unless they were rewritten after the hashing.
`CapturedInv`: what the seal captured is what the core held. `StrayInv`: a foreign file in the bundle never equals the
one in the run directory that a validation compares it with. `ViewInv`: what a validation has read. For the last
theorem `FilesInv` and `OwnInv`: every file stays what the core made of it while nobody else
wrote, and the run waits for its own validation.

**`DiffGuardProofs`**, for plans of any length and any staging: `FinalGuardIsSound`, `DeliveryOnlyMovesOutside`,
`GuardsCompose`. They rest on a lemma that Git's listing together with the untracked files misses no
change but the old name of a file that was moved (a maximal matching of deletions and additions exists since
there are finitely many files). `ReachedInv` bounds what the first m tasks made of the
baseline by the sums of their budgets, as long as no guard listed a new, renamed or dependency file; sums over a
plan are handled by induction on a set of naturals, from well-foundedness. That allowed paths are not
empty is part of the module's assumption and justified by `engine/roles.py:192`.

**Only model-checked**: liveness (`Termination` of two modules, `Returns`, `DeadlineKept`, `SessionSettles`),
which is out of the prover's reach like ENABLED. The half of the two `Termination`s that is a safety
property is proved (`LoopRunsOut`, `RunEndsSoon`): no run makes more steps than its budgets allow; that it
makes the next one is fairness. Every other invariant and action property of the runs is stated by a theorem.

## Where code and documents disagree

With a run:

* `evaluator_unchanged`: `merge_required_and_post_proof` (`assurance/checks.py:261`) drops the
  key `repository`, without which no evaluator input can be compared, so a repository with a
  `pyproject.toml` or `package.json` has its evidence rejected although nothing changed
  (`tests/deterministic/test_live_evidence.py:412`).
* `second_task`: a file an earlier task created is not in the index, so the guard of a later task sees
  it deleted against its snapshot and fails the task for a file it never touched.

* `staged_rename`: the scope check of the promotion lists a staged rename by its new name only, and its
  patch also deletes the old file, be it protected or outside the allowed paths
  (`context/git_snapshot.py:71`, against `tests/deterministic/test_worktree_sandbox.py:58`).

Seen while modelling, without a run. Delivery and diffs:

* A recovery in a T2 run without a reviewer gets none (`engine/orchestrator.py:1409` against
  `README.md:68`).
* Checks may edit the tree that is then sealed (`engine/orchestrator.py:1580`); ephemeral files are
  part of the promoted patch (`context/worktree_sandbox.py:106`).
* `aggregate_task` drops `permitted_new_artifacts` (`engine/orchestrator.py:130`); a task that protects
  what another may change passes alone and fails in sum.
* Promotion comes before the truth gate, so a run may end `FAILED` or `PARTIAL` after it
  delivered; a rejected seal does not stop it. A provider block ends the run in `NEEDS_INPUT`,
  where documents say `BLOCKED`.

Preparation:

* Audit mode "produces evidence without authorizing source mutation" (`README.md:223`) and
  `docs/CURRENT_ARCHITECTURE_MAP.md:121` names a `_run_audit` that does not exist: the mode skips one
  test (`engine/orchestrator.py:549`) and executes tasks like the others.
* A goal run is never classified: its routes have no `classifier_fast`, the lookup fails and the
  fallback says mutate. What a classifier edits comes before the baseline and is compared with nothing.
* A request with a likely injection becomes a read-only analysis and still reaches implementers.
* The override to a direct change gives a request with risky wording tier T3 without a reviewer
  (`RiskIsReviewed` excepts it by name: the caller fixed the strategy).
* A plain clause without a verification pattern that is not listed is in no contract. Blocking open
  questions of a plan stop nothing. An edit of the owner during a read-only role is blamed on the role.
* The evaluator inputs are "frozen from the Core pre-mutation snapshot"
  (`contracts/verification_plan.py:120`) but read from the live worktree.
* `parents[1]` in `engine/skills.py:13` is `proofloop_core/`, while the catalogs lie beside it in the
  repository and in every installed layout (`scripts/install.py:75`): no skill is ever selected. If
  they were found, experimental packs would be selected too (`README.md:345` says they are not).

Hosts, processes, evidence:

* The code of a silent provider is replaced by `ROLE_RESULT_MISSING`
  (`runtimes/adapters.py:330`), so the run fails where `references/host-capabilities.md:32`
  promises a blocked result. A rate limit and AGY's response timeout are hidden the same way.
* The text of an ACP session becomes events only; the result is searched in logs that do not have
  it, so no ACP role that must return a result can complete (`runtimes/adapters.py:327` against
  `docs/CURRENT_ARCHITECTURE_MAP.md:48`).
* A host that echoes the prompt's markers before its answer loses the answer
  (`runtimes/adapters.py:361`).
* After SIGTERM a helper of the group that ignores it survives if the leader exits and the pipes are closed
  (`runtimes/process_runner.py:148`). Checks have no deadline by default.
* A foreign write between the comparison of a report and its copy (`assurance/live_evidence.py:166`,
  `:200`) is sealed as the core's; a validation overtaken by the next seal may mix two bundles; a plan or a
  source map rewritten between hashing and reading (`:242`, `:247`) is believed. Logs are sealed without
  comparison with the report's hash. `verify-run` without a manifest takes unsealed reports (`assurance/truth.py:48`), so
  whoever removes the manifest of a finished run has it judged by them.
* Lines of Antigravity without an id share that of their event, so later figures, also a last one, are dropped; a Codex
  `last_token_usage` is recorded as a cumulative one; an unknown usage is charged as 0. What an invocation used that
  raised (`engine/orchestrator.py:986`), and the classifier's use, is reported and never charged. A session that several
  invocations name is given to the last of them (`analysis/tokscale.py:83`).

Logs and records:

* A poll that meets a half written line counts it in the cursor and never gives that event
  (`mcp_server.py:80`); the relay stores its cursor before the lines are used (`ui/relay.py:60`).
* The repair of an event log empties it before it is written back (`context/events.py:373`). A log that ends
  inside a character is not repaired, though `_recover_sequence()` "quarantines only an unterminated final
  fragment" (`docs/superpowers/plans/2026-07-14-proofloop-execution-visibility.md:130`): it raises, and so does
  `watch`. A line separator in an event makes the log unusable for the next emitter.
* A run in `NEEDS_INPUT` may be pruned, and its answer then raises (`mcp_server.py:193`).

## Not modelled

* **Relay** (`ui/relay.py`): a reader of the log with a stored cursor; it may lose lines in every poll
  that dies or meets half a line, so only its hazard is listed.
* **TUI, command line, renderers**: presentation; the follower is in `EventLog`, `abort-run` in
  `ControlPlane`, `verify-run` in `LiveEvidence`, `usage --reconcile` in `Usage`.
* **Project memory** (`context/memory.py`, `trace.py`, `io.py`, `redact.py`): file helpers called by one thread.
* **External loop, attempts, chaos** (`engine/external_loop.py`, ...): an older loop the orchestrator does not call.
* **Benchmarks**: measurement of the program, not a part of a run.
* **Prompt rendering and most of the output parsers**: text in, text out. What a line means
  for model, failure, answer and usage is in `HostInvocation` and `Usage`.
* Of the partly modelled parts: the arguments, models and launchers of hosts and the permissions of ACP
  sessions (data and I/O), schema checks of capability, prompt and output contracts, role views and
  the goal contract (written, but decide nothing), the fingerprint of a repository and
  the offline qualification of packs, prices. `PROJECT.json` says what is left out of each.
* Dead code: the pre-invoked branch of `execute_task`, `reclassify_after_diff`, `is_grounding_stale`.

Not stated as a formula: that `TaskExecutor` refines the action `RunTasks` of `Delivery`, and
`HostInvocation` the host step of `TaskExecutor`. `TaskExecutor` has verdicts where `Delivery` has
trees, and endings where `HostInvocation` has lines, so each is composed by hand: the outer module lets its
step have every outcome the inner one can have.
