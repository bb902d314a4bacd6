---------------------------- MODULE LiveEvidence ----------------------------
(***************************************************************************)
(* The sealed Core evidence of a run (assurance/live_evidence.py) between  *)
(* the checks it seals (assurance/checks.py, the two review cycles of      *)
(* orchestrator._final_verification_and_review) and those who judge it:    *)
(* the run itself at the end of a cycle and at its truth gate, and         *)
(* `proofloop verify-run`, another process, at any time, also on the       *)
(* directory of a run that died.  Nothing locks the run directory: a role  *)
(* or a helper a check left behind may write into it meanwhile, also over  *)
(* the seal itself and over the proof graph.                               *)
(***************************************************************************)
EXTENDS Contracts

CONSTANTS
  VerificationPlans, \* plans the preparation may have compiled
  PostChecks,        \* post-implementation checks of the tasks
  Criteria,          \* the run's acceptance criteria
  MaxStrays          \* bound: writes by anybody else

ASSUME LiveEvidenceAssumption ==
  MaxStrays \in Nat /\ \A p \in VerificationPlans : IsFiniteSet(p.mandatory \cup p.candidates)

\* The files of the run directory that are sealed, in the order they are copied.
Order   == <<"checks", "diff", "log">>
Sources == { Order[i] : i \in DOMAIN Order }

\* What the seal says of them, in the bundle with the copies.
Papers == {"plan", "map"}

\* Everything a run has to close.
Obligations == {"checks", "diff"} \cup Criteria

(* What a file holds: who wrote it (the required checks alone, the merged  *)
(* report, another file of the core, a stray writer; torn when the core    *)
(* died over it), in which cycle, the commands that passed, the verdict.   *)
Content(from, n, passed, verdict) ==
  [from |-> from, n |-> n, passed |-> passed, verdict |-> verdict]
Torn   == Content("torn", 0, {}, "none")
Absent == Content("absent", 0, {}, "none")
Core(n) == Content("core", n, {}, "none")
NoFile == << >>

\* Files with one more of them, or with another content of one.
With(files, f, content) ==
  [x \in DOMAIN files \cup {f} |-> IF x = f THEN content ELSE files[x]]

VARIABLES
  plan,     \* verification-plan.json, as the orchestrator holds it
  pc,       \* required, post, diff, require, copy, remove, rename, manifest,
            \* validate, record, review, gate, done, failed
  cycle,    \* review_cycle
  core,     \* the reports of this cycle in memory: checks and diff
  disk,     \* the sealed files of the run directory
  captured, \* the temporary tree and the descriptors made of it
  bundle,   \* core-evidence/
  manifest, \* live-evidence.json
  closed,   \* obligations closed by the checks and the diff guard: "checks" and criteria
  graph,    \* what proof-graph.json says of them
  sealed,   \* history: the reports of every completed seal
  view,     \* the validation in progress
  strays,   \* history: how many stray writes there were
  raced,    \* history: one replaced a report after its comparison, before its copy
  tampered  \* history: which of the manifest and the graph others wrote

vars == <<plan, pc, cycle, core, disk, captured, bundle, manifest, closed, graph, sealed,
          view, strays, raced, tampered>>
runVars  == <<plan, cycle>>
seals    == <<captured, bundle, manifest>>
proofs   == <<closed, graph>>
history  == <<sealed, strays, raced, tampered>>

NoReports == [checks |-> Absent, diff |-> Absent]
NoView    == [by |-> "nobody", stage |-> "idle", plain |-> NoReports, closed |-> {},
              read |-> NoReports, judging |-> {}, map |-> {}, result |-> "none",
              overtaken |-> FALSE, swapped |-> {}]

Init ==
  /\ plan \in VerificationPlans /\ pc = "required" /\ cycle = 1
  /\ core = NoReports /\ disk = [f \in Sources |-> Absent]
  /\ captured = NoFile /\ bundle = NoFile /\ manifest = NoFile
  /\ closed = {} /\ graph = {} /\ sealed = {} /\ view = NoView
  /\ strays = 0 /\ raced = FALSE /\ tampered = {}

-----------------------------------------------------------------------------
(* The checks of a cycle.  run_checks writes the report of the required    *)
(* checks first; the merged report, which has the checks of the tasks'     *)
(* proofs too and no repository, replaces it.                              *)
Required == RequiredChecks([checks |-> plan.candidates], plan)

RunRequired ==
  /\ pc = "required" /\ pc' = "post"
  /\ \E passed \in SUBSET Required :
       /\ core' = [core EXCEPT !.checks =
                     Content("required", cycle, passed,
                             IF passed = Required THEN "PASS" ELSE "FAIL")]
       /\ disk' = [disk EXCEPT !["checks"] = core'.checks, !["log"] = Core(cycle)]
  /\ UNCHANGED <<runVars, seals, proofs, history, view>>

\* merge_required_and_post_proof
Merged(required, passed) ==
  Content("merged", cycle, required.passed \cup passed,
          IF required.verdict = "PASS" /\ passed = PostChecks THEN "PASS" ELSE "FAIL")

RunPostProof ==
  /\ pc = "post" /\ pc' = "diff"
  /\ \E passed \in SUBSET PostChecks :
       /\ core' = [core EXCEPT !.checks = Merged(core.checks, passed)]
       /\ disk' = [disk EXCEPT !["checks"] = core'.checks]
  /\ UNCHANGED <<runVars, seals, proofs, history, view>>

InspectDiff ==
  /\ pc = "diff" /\ pc' = "require"
  /\ \E verdict \in {"PASS", "FAIL"} :
       /\ core' = [core EXCEPT !.diff = Content("core", cycle, {}, verdict)]
       /\ disk' = [disk EXCEPT !["diff"] = core'.diff]
  /\ UNCHANGED <<runVars, seals, proofs, history, view>>

-----------------------------------------------------------------------------
\* A mutant of Unchanged: the reports on disk are not compared.
UnchangedAssumed == TRUE

\* _require_json_matches, for both reports.
Unchanged == disk["checks"] = core.checks /\ disk["diff"] = core.diff

\* seal_core_evidence; an exception ends the run (CORE_EVIDENCE_CAPTURE_FAILED).
Require ==
  /\ pc = "require"
  /\ pc' = IF Unchanged THEN "copy" ELSE "failed"
  /\ UNCHANGED <<runVars, core, disk, seals, proofs, history, view>>

\* A mutant of Described: the source map is left out of the manifest.
DescribedWithoutMap(files) == With(files, "plan", Core(0))

\* The plan and the source map are written beside the copies.
Described(files) == With(With(files, "plan", Core(0)), "map", Core(0))

CopyNext ==
  /\ pc = "copy"
  /\ LET i == Cardinality(DOMAIN captured) + 1
         f == Order[i]
     IN  IF i < Len(Order)
         THEN captured' = With(captured, f, disk[f]) /\ pc' = "copy"
         ELSE captured' = Described(With(captured, f, disk[f])) /\ pc' = "remove"
  /\ UNCHANGED <<runVars, core, disk, bundle, manifest, proofs, history, view>>

\* A validation that has read the manifest goes on with the next bundle.
Overtake ==
  view' = IF view.stage \in {"intact", "read"} THEN [view EXCEPT !.overtaken = TRUE] ELSE view

RemoveBundle ==
  /\ pc = "remove" /\ pc' = "rename"
  /\ bundle' = NoFile /\ Overtake
  /\ UNCHANGED <<runVars, core, disk, captured, manifest, proofs, history>>

\* The tree holds the source map whatever the manifest says of it.
Rename ==
  /\ pc = "rename" /\ pc' = "manifest"
  /\ bundle' = With(captured, "map", Core(0)) /\ Overtake
  /\ UNCHANGED <<runVars, core, disk, captured, manifest, proofs, history>>

WriteManifest ==
  /\ pc = "manifest" /\ pc' = "validate"
  /\ manifest' = captured /\ captured' = NoFile
  /\ sealed' = sealed \cup {core}
  /\ UNCHANGED <<runVars, core, disk, bundle, proofs, strays, raced, tampered, view>>

-----------------------------------------------------------------------------
(* validate_core_evidence, with what build_truth_report reads before it:   *)
(* the reports as they are, which count when there is no manifest, and     *)
(* then the graph.  One validation at a time is followed: the run's own,   *)
(* for which it waits, or an auditor's.                                    *)
Begin(by, stage) ==
  /\ view.stage = "idle"
  /\ view' = [NoView EXCEPT !.by = by, !.stage = stage,
                !.plain = [checks |-> disk["checks"], diff |-> disk["diff"]]]
  /\ UNCHANGED <<runVars, pc, core, disk, seals, proofs, history>>

\* At the end of the seal only the evidence is validated.
BeginOwn  == \/ pc = "validate" /\ Begin(pc, "open")
             \/ pc = "gate" /\ Begin(pc, "begun")
VerifyRun == Begin("auditor", "begun")

ReadGraph ==
  /\ view.stage = "begun"
  /\ view' = [view EXCEPT !.stage = "open", !.closed = graph]
  /\ UNCHANGED <<runVars, pc, core, disk, seals, proofs, history>>

\* Of a refusal nothing is kept but the refusal.
Result(r) ==
  view' = IF r = "REJECTED"
          THEN [NoView EXCEPT !.by = view.by, !.stage = "done", !.result = r]
          ELSE [view EXCEPT !.stage = "done", !.result = r, !.map = {}, !.judging = {}]

\* validate_bundle: exactly the declared files, each with its size and hash.
Intact == bundle = manifest

(* Without a manifest an auditor takes the reports as they are; the run's  *)
(* own gate requires one.                                                  *)
Structure ==
  /\ view.stage = "open"
  /\ IF manifest = NoFile /\ view.by = "auditor" THEN Result("not sealed")
     ELSE IF manifest # NoFile /\ Intact
     THEN view' = [view EXCEPT !.stage = "intact", !.plain = NoReports]
     ELSE Result("REJECTED")
  /\ UNCHANGED <<runVars, pc, core, disk, seals, proofs, history>>

(* The source map and the plan are read again from the bundle.  The map    *)
(* the core wrote names every source and its plan is the run's; what       *)
(* somebody else wrote there may be any of them, or be refused: a plan is  *)
(* compared with nothing but its own digest.                               *)
Maps(file)  == IF file.from = "stray" THEN SUBSET Sources ELSE {Sources}
Plans(file) == IF file.from = "stray" THEN VerificationPlans ELSE {plan}

ReadBundle ==
  /\ view.stage = "intact"
  /\ \/ /\ Sources \cup Papers \subseteq DOMAIN bundle
        /\ \E m \in Maps(bundle["map"]), p \in Plans(bundle["plan"]) :
             view' = [view EXCEPT !.stage = "read", !.map = m, !.judging = {p},
                        !.read = [checks |-> bundle["checks"], diff |-> bundle["diff"]]]
     \/ /\ ~(Sources \cup Papers \subseteq DOMAIN bundle)
           \/ \E f \in Papers \cap DOMAIN bundle : bundle[f].from = "stray"
        /\ Result("REJECTED")
  /\ UNCHANGED <<runVars, pc, core, disk, seals, proofs, history>>

\* A mutant of SourcesMatch: the files of the run directory are not looked at.
SourcesMatchAlways == TRUE

\* _sources_match: the files the map names.
SourcesMatch == \A f \in view.map : f \in DOMAIN bundle /\ bundle[f] = disk[f]

\* _mandatory_checks_passed, _evaluator_inputs_match: the merged report does
\* not say in which repository it was made.
Accepts(p, checks) == /\ p.mandatory # {} /\ p.mandatory \subseteq checks.passed
                      /\ p.inputs = {} \/ checks.from = "required"

Compare ==
  /\ view.stage = "read"
  /\ IF SourcesMatch /\ \A p \in view.judging : Accepts(p, view.read.checks)
     THEN Result("VALID") ELSE Result("REJECTED")
  /\ UNCHANGED <<runVars, pc, core, disk, seals, proofs, history>>

Dismiss ==
  /\ view.stage = "done" /\ view.by = "auditor" /\ view' = NoView
  /\ UNCHANGED <<runVars, pc, core, disk, seals, proofs, history>>

-----------------------------------------------------------------------------
\* A rejected seal is reported and does not stop the run.
Validated ==
  /\ pc = "validate" /\ view.by = pc /\ view.stage = "done"
  /\ pc' = "record" /\ view' = NoView
  /\ UNCHANGED <<runVars, core, disk, seals, proofs, history>>

\* _record_verification_proof: no obligation is ever opened again, and the
\* graph is written over whatever is there.
Record ==
  /\ pc = "record"
  /\ closed' = closed \cup (IF core.checks.verdict # "PASS" THEN {}
                            ELSE {"checks"} \cup PassedCriteria(plan, core.checks.passed))
                      \cup (IF core.diff.verdict # "PASS" THEN {} ELSE {"diff"})
  /\ graph' = closed'
  /\ pc' = IF core.checks.verdict = "PASS" /\ core.diff.verdict = "PASS"
           THEN "review" ELSE "failed"
  /\ UNCHANGED <<runVars, core, disk, seals, history, view>>

Repairable == cycle < 2

\* Approved, or repaired once and verified again.
Review ==
  /\ pc = "review"
  /\ \/ pc' = "gate" /\ UNCHANGED cycle
     \/ Repairable /\ cycle' = cycle + 1 /\ pc' = "required"
     \/ pc' = "failed" /\ UNCHANGED cycle
  /\ UNCHANGED <<plan, core, disk, seals, proofs, history, view>>

\* _finalize_truth
Gate ==
  /\ pc = "gate" /\ view.by = pc /\ view.stage = "done"
  /\ pc' = "done" /\ view' = NoView
  /\ UNCHANGED <<runVars, core, disk, seals, proofs, history>>

-----------------------------------------------------------------------------
Running == pc \notin {"done", "failed"}

\* The validation of a run that stops is given up with it.
GiveUp == view' = IF view.by = "auditor" THEN view ELSE NoView

\* rmtree may stop half way, write_text empties the file before it writes.
Halves(files) == { [f \in kept |-> files[f]] : kept \in SUBSET DOMAIN files }

Interrupted ==
  /\ bundle' \in IF pc = "remove" THEN Halves(bundle) ELSE {bundle}
  /\ manifest' \in IF pc = "manifest" THEN {manifest, With(NoFile, "torn", Torn)} ELSE {manifest}
  /\ disk' \in CASE pc \in {"required", "post"} -> {disk, [disk EXCEPT !["checks"] = Torn]}
                 [] pc = "diff"                 -> {disk, [disk EXCEPT !["diff"] = Torn]}
                 [] OTHER                       -> {disk}

\* A write or a copy fails, or the process dies; the temporary tree is lost.
Stop == /\ Running /\ pc' = "failed"
        /\ Interrupted /\ captured' = NoFile /\ GiveUp
        /\ UNCHANGED <<runVars, core, proofs, history>>

(* Somebody else writes one of the files, or removes the manifest; two     *)
(* such writes never agree.                                                *)
Other == Content("stray", strays + 1, Required, "PASS")

StrayReport ==
  \E f \in Sources :
    /\ disk' = [disk EXCEPT ![f] = Other]
    /\ raced' = (raced \/ (f # "log" /\ pc = "copy" /\ f \notin DOMAIN captured))
    /\ UNCHANGED <<bundle, manifest, graph, tampered, view>>

\* A validation that has found the bundle intact reads what is there now.
StrayBundle ==
  \E f \in DOMAIN bundle \cup {"extra"} :
    /\ bundle # NoFile /\ bundle' = With(bundle, f, Other)
    /\ view' = IF view.stage = "intact"
               THEN [view EXCEPT !.swapped = @ \cup ({f} \cap Papers)] ELSE view
    /\ UNCHANGED <<disk, manifest, graph, raced, tampered>>

StrayManifest ==
  /\ manifest' \in {NoFile, With(NoFile, "extra", Other)}
  /\ tampered' = tampered \cup {"manifest"}
  /\ UNCHANGED <<disk, bundle, graph, raced, view>>

StrayGraph ==
  /\ graph' \in {{}, Obligations}
  /\ tampered' = tampered \cup {"graph"}
  /\ UNCHANGED <<disk, bundle, manifest, raced, view>>

Stray == /\ strays < MaxStrays /\ strays' = strays + 1
         /\ StrayReport \/ StrayBundle \/ StrayManifest \/ StrayGraph
         /\ UNCHANGED <<runVars, pc, core, captured, closed, sealed>>

Ended == ~Running /\ UNCHANGED vars

Seal == Require \/ CopyNext \/ RemoveBundle \/ Rename \/ WriteManifest
Validate == \/ BeginOwn \/ VerifyRun \/ ReadGraph \/ Structure \/ ReadBundle \/ Compare
            \/ Dismiss

Next == \/ RunRequired \/ RunPostProof \/ InspectDiff \/ Seal \/ Validate
        \/ Validated \/ Record \/ Review \/ Gate \/ Stop \/ Stray \/ Ended

Spec == Init /\ [][Next]_vars

-----------------------------------------------------------------------------
(* Two windows nothing guards, which the properties except: between the    *)
(* comparison of a report and its copy, and a validation the next seal     *)
(* overtakes.  A third one they except where it matters: between the       *)
(* hashing of the bundle and the reading of its plan and its map.          *)
Guarded == ~raced /\ ~view.overtaken
Trusted(f) == f \notin view.swapped

(* Evidence is valid only as a completed seal left it, and wherever a      *)
(* later seal was interrupted.  Whatever was written into the directory    *)
(* meanwhile, to the files, their copies, the manifest or the graph, also  *)
(* during the validation: the reports are those of one cycle as the core   *)
(* held them in memory, unless the source map was rewritten after it was   *)
(* hashed, and every mandatory command of the run passed in them, unless   *)
(* the plan was (seal_core_evidence, validate_core_evidence).              *)
SealIsCore ==
  view.result = "VALID" /\ Guarded =>
    /\ Trusted("map") => view.read \in sealed
    /\ Trusted("plan") => plan.mandatory # {} /\ plan.mandatory \subseteq view.read.checks.passed

(* The truth gate and verify-run, on a live, a finished or a dead run, let *)
(* a run pass only on sealed reports that passed.  Without a manifest they *)
(* take the reports of the directory as they are, but a run that closed    *)
(* its obligations has one: such a pass is somebody else's doing, who      *)
(* removed the manifest or wrote the graph (build_truth_report,            *)
(* _record_verification_proof).                                            *)
Judged == IF view.result = "VALID" THEN view.read ELSE view.plain
Passes == /\ view.result \in {"VALID", "not sealed"}
          /\ Judged.checks.verdict = "PASS" /\ Judged.diff.verdict = "PASS"
          /\ view.closed = Obligations
JudgedOnSeal ==
  Passes /\ Guarded =>
    IF view.result = "VALID" THEN Trusted("map") => Judged \in sealed ELSE tampered # {}

(* Nothing but a change invalidates evidence: the run's own validation     *)
(* accepts what it sealed if the mandatory commands passed, the plan has   *)
(* no evaluator inputs and nobody else wrote (the seal describes every     *)
(* file it leaves and no other).                                           *)
UndisturbedIsValid ==
  /\ view.stage = "done" /\ view.by \in {"validate", "gate"} /\ strays = 0
  /\ plan.mandatory # {} /\ plan.mandatory \subseteq core.checks.passed /\ plan.inputs = {}
  => view.result = "VALID"
=============================================================================
