--------------------------- MODULE DeliveryProofs ---------------------------
(***************************************************************************)
(* Proofs about the life of a run, for every set of edits, scope, profile  *)
(* and criterion: its records never claim more than its truth report, what *)
(* it delivers was verified and approved, a proven result is one, and the  *)
(* owner's worktree sees only what DeliveryContract allows.  Its steps     *)
(* are bounded.                                                            *)
(***************************************************************************)
EXTENDS Delivery, TLAPS

-----------------------------------------------------------------------------
(* The type invariant.                                                     *)

GraphOK(g) ==
  /\ DOMAIN g \in {DOMAIN InitialGraph, DOMAIN InitialGraph \cup {Progress}}
  /\ \A o \in DOMAIN g : g[o] \in [rev : Nat, status : {"OPEN", "CLOSED"}, on : SUBSET Edits]

(* Recording a verification and a recovery keep the graph well formed.     *)
LEMMA RecordedOK ==
  ASSUME NEW g, GraphOK(g), NEW r, NEW w, r.checkedOn \subseteq Edits, r.guardedOn \subseteq Edits
  PROVE  GraphOK(RecordVerification(g, r, w))
<1> DEFINE h == RecordVerification(g, r, w)
<1>1. DOMAIN h = DOMAIN g
  BY DEF RecordVerification
<1>2. ASSUME NEW o \in DOMAIN g
      PROVE  h[o] \in [rev : Nat, status : {"OPEN", "CLOSED"}, on : SUBSET Edits]
  <2>1. g[o] \in [rev : Nat, status : {"OPEN", "CLOSED"}, on : SUBSET Edits]
    BY DEF GraphOK
  <2>2. h[o] = g[o] \/ \E on \in {r.checkedOn, r.guardedOn} :
                         h[o] = [g[o] EXCEPT !.status = "CLOSED", !.on = on]
    BY DEF RecordVerification, Recorded
  <2>. QED  BY <2>1, <2>2
<1>. QED  BY <1>1, <1>2 DEF GraphOK

LEMMA RecoveryOK ==
  ASSUME NEW g, GraphOK(g), NEW light
  PROVE  GraphOK(WithRecovery(g, light))
<1>1. DOMAIN WithRecovery(g, light) = DOMAIN InitialGraph \cup {Progress}
  BY DEF WithRecovery, GraphOK
<1>2. \A n \in Nat : Opened(n) \in [rev : Nat, status : {"OPEN", "CLOSED"}, on : SUBSET Edits]
  BY DEF Opened
<1>. QED  BY <1>1, <1>2 DEF WithRecovery, GraphOK

RecordNames == {"input", "truth", "error", "outcome", "run"}

(* However a run ends, what it halts with is typed.                        *)
LEMMA RecordsType == ASSUME NEW v PROVE Records(v) \in Seq(RecordNames)
<1>1. /\ <<"input", "outcome", "run">> \in Seq(RecordNames)
      /\ <<"error", "outcome", "run">> \in Seq(RecordNames)
      /\ <<"truth", "run", "outcome">> \in Seq(RecordNames)
  BY DEF RecordNames
<1>. QED  BY <1>1 DEF Records

LEMMA HaltOK ==
  ASSUME TypeOK, NEW v \in Outcomes, Halt(v)
  PROVE  /\ pc' = "publish" /\ verdict' \in Outcomes /\ files' = files
         /\ todo' \in Seq(RecordNames)
BY RecordsType DEF Halt

LEMMA NextTypeOK == TypeOK /\ [Next]_vars => TypeOK'
<1> SUFFICES ASSUME TypeOK, [Next]_vars PROVE TypeOK'
  OBVIOUS
<1>g. TypeOK => GraphOK(graph)
  BY DEF TypeOK, GraphOK
<1>s. Stops \subseteq Outcomes /\ Truths \subseteq Outcomes /\ "SYSTEM_ERROR" \in Outcomes
  BY DEF Stops, Outcomes, Truths
<1>1. CASE Prepare
  <2>1. profile' \in [tier : Tiers, reviewer : BOOLEAN] \cup {Unclassified}
    BY <1>1, DeliveryAssumption DEF Prepare, TypeOK
  <2>2. original' \subseteq Edits \cup {Junk, Owner, Leak}
    BY <1>1 DEF Prepare, TypeOK
  <2>3. pc' \in {"tasks", "publish"} /\ verdict' \in Outcomes \cup {None}
        /\ todo' \in Seq(RecordNames) /\ files' = files
    BY <1>1, <1>s, HaltOK DEF Prepare, Go, publishVars, TypeOK, RecordNames, Stops
  <2>. QED  BY <1>1, <2>1, <2>2, <2>3 DEF Prepare, promoteVars, TypeOK, RecordNames
<1>2. CASE RunTasks
  <2>1. sandbox' \subseteq Edits \cup {Junk}
    BY <1>2 DEF RunTasks
  <2>2. PICK recovered \in BOOLEAN :
          LET light == profile.tier \in {"T0", "T1"}
          IN  /\ profile'  = IF recovered THEN Escalated(profile) ELSE profile
              /\ wasLight' = (recovered /\ light)
              /\ graph'    = IF recovered THEN WithRecovery(graph, light) ELSE graph
    BY <1>2 DEF RunTasks
  <2>3. profile' \in [tier : Tiers, reviewer : BOOLEAN] \cup {Unclassified} /\ wasLight' \in BOOLEAN
    BY <2>2 DEF TypeOK, Escalated, Tiers
  <2>4. GraphOK(graph')
    BY <2>2, <1>g, RecoveryOK
  <2>5. pc' \in {"verify", "publish"} /\ verdict' \in Outcomes \cup {None}
        /\ todo' \in Seq(RecordNames) /\ files' = files /\ cycle' \in 0..2
    BY <1>2, <1>s, HaltOK DEF RunTasks, Go, publishVars, TypeOK, RecordNames
  <2>. QED  BY <1>2, <2>1, <2>3, <2>4, <2>5 DEF RunTasks, promoteVars, TypeOK, RecordNames, GraphOK
<1>3. CASE RunFinalChecks
  <2>1. sandbox' \subseteq Edits \cup {Junk}
    BY <1>3 DEF RunFinalChecks, TypeOK
  <2>2. report' \in Reports
    <3>1. Source(sandbox) \subseteq Edits
      BY DEF TypeOK, Source
    <3>2. PICK v \in {"PASS", "FAIL"} :
            report' = [NoReport EXCEPT !.checks = v, !.checkedOn = Source(sandbox)]
      BY <1>3 DEF RunFinalChecks
    <3>. QED  BY <3>1, <3>2 DEF NoReport, Reports
  <2>. QED  BY <1>3, <2>1, <2>2 DEF RunFinalChecks, TypeOK, Go, publishVars, promoteVars, strategyVars
<1>4. CASE GuardAndSeal
  <2>1. report' \in Reports
    <3>1. Source(sandbox) \subseteq Edits
      BY DEF TypeOK, Source
    <3>2. PICK v \in Seals(report.checks) :
            report' = [report EXCEPT !.diff = GuardOf(sandbox), !.sealed = v,
                                     !.guardedOn = Source(sandbox)]
      BY <1>4 DEF GuardAndSeal
    <3>3. v \in {"VALID", "REJECTED"} /\ GuardOf(sandbox) \in {"PASS", "FAIL"}
      BY DEF Seals, GuardOf
    <3>. QED  BY <3>1, <3>2, <3>3 DEF TypeOK, Reports
  <2>2. GraphOK(graph')
    <3>1. GraphOK(RecordVerification(graph, report', NoReview))
      BY <1>g, <2>1, RecordedOK DEF Reports
    <3>2. GraphOK(RecordVerification(RecordVerification(graph, report', NoReview), report', FastLane))
      BY <2>1, <3>1, RecordedOK DEF Reports
    <3>. QED  BY <1>4, <3>1, <3>2 DEF GuardAndSeal
  <2>3. review' \in Reviews \cup {NoReview}
    BY <1>4 DEF GuardAndSeal, TypeOK, FastLane, Reviews, Verdicts, Simplicities
  <2>4. pc' \in {"review", "promote", "publish"} /\ verdict' \in Outcomes \cup {None}
        /\ todo' \in Seq(RecordNames) /\ files' = files
    BY <1>4, HaltOK DEF GuardAndSeal, Go, publishVars, TypeOK, RecordNames, Outcomes, Truths
  <2>. QED  BY <1>4, <2>1, <2>2, <2>3, <2>4
            DEF GuardAndSeal, TypeOK, GraphOK, promoteVars, strategyVars, RecordNames
<1>5. CASE Review
  <2>1. sandbox' \subseteq Edits \cup {Junk}
    BY <1>5 DEF Review, TypeOK
  <2>2. GraphOK(graph') /\ review' \in Reviews \cup {NoReview}
        /\ pc' \in {"repair", "promote", "publish"} /\ verdict' \in Outcomes \cup {None}
        /\ todo' \in Seq(RecordNames) /\ files' = files
    <3>1. CASE \E v \in Stops : Halt(v) /\ UNCHANGED <<graph, review>>
      BY <3>1, <1>g, <1>s, HaltOK DEF TypeOK, RecordNames
    <3>2. CASE \E v \in Verdicts, sm \in Simplicities, satisfied \in BOOLEAN :
                 LET r    == [verdict |-> Effective(v, satisfied), simplicity |-> sm, mode |-> "MODEL"]
                     next == AfterReview(r)
                 IN  /\ review' = r
                     /\ graph' = IF next = "promote" THEN RecordVerification(graph, report, r)
                                                     ELSE graph
                     /\ IF next = "rejected" THEN Halt("FAILED") ELSE Go(next)
      <4>1. PICK r : /\ r \in Reviews /\ review' = r
                     /\ graph' = IF AfterReview(r) = "promote" THEN RecordVerification(graph, report, r)
                                                               ELSE graph
                     /\ IF AfterReview(r) = "rejected" THEN Halt("FAILED") ELSE Go(AfterReview(r))
        BY <3>2 DEF Effective, Reviews, Verdicts
      <4>2. GraphOK(graph')
        BY <4>1, <1>g, RecordedOK DEF TypeOK, Reports
      <4>3. AfterReview(r) \in {"promote", "repair", "rejected"}
        BY DEF AfterReview
      <4>. QED  BY <4>1, <4>2, <4>3, HaltOK DEF Go, publishVars, TypeOK, RecordNames, Outcomes, Truths
    <3>. QED  BY <1>5, <3>1, <3>2 DEF Review
  <2>. QED  BY <1>5, <2>1, <2>2 DEF Review, TypeOK, GraphOK, promoteVars, strategyVars, RecordNames
<1>6. CASE RepairReview
  <2>1. pc' \in {"verify", "publish"} /\ verdict' \in Outcomes \cup {None}
        /\ todo' \in Seq(RecordNames) /\ files' = files /\ cycle' \in 0..2
    BY <1>6, <1>s, HaltOK DEF RepairReview, Go, publishVars, TypeOK, RecordNames
  <2>. QED  BY <1>6, <2>1 DEF RepairReview, TypeOK, promoteVars, strategyVars, RecordNames
<1>7. CASE CheckPromotion
  <2>1. pc' \in {"apply", "publish"} /\ verdict' \in Outcomes \cup {None}
        /\ todo' \in Seq(RecordNames) /\ files' = files
    BY <1>7, <1>s, HaltOK DEF CheckPromotion, Go, publishVars, TypeOK, RecordNames
  <2>2. patch' \in (SUBSET (Edits \cup {Junk})) \cup {Nothing}
        /\ (pc' = "apply" => patch' # Nothing)
    <3>1. sandbox # Nothing
      BY DeliveryAssumption DEF Nothing, TypeOK, Junk
    <3>. QED  BY <1>7, <3>1 DEF CheckPromotion, Halt, TypeOK
  <2>. QED  BY <1>7, <2>1, <2>2 DEF CheckPromotion, TypeOK, strategyVars, RecordNames
<1>8. CASE ApplyPatch
  <2>1. pc' \in {"gate", "publish"} /\ verdict' \in Outcomes \cup {None}
        /\ todo' \in Seq(RecordNames) /\ files' = files
    BY <1>8, <1>s, HaltOK DEF ApplyPatch, Go, publishVars, TypeOK, RecordNames
  <2>2. original' \subseteq Edits \cup {Junk, Owner, Leak}
        /\ delivered' \in (SUBSET (Edits \cup {Junk})) \cup {Nothing}
    <3>1. patch \subseteq Edits \cup {Junk}
      <4>1. pc = "apply"
        BY <1>8 DEF ApplyPatch
      <4>2. patch \in (SUBSET (Edits \cup {Junk})) \cup {Nothing} /\ patch # Nothing
        BY <4>1 DEF TypeOK
      <4>. QED  BY <4>2
    <3>. QED  BY <1>8, <3>1 DEF ApplyPatch, Applied, TypeOK
  <2>. QED  BY <1>8, <2>1, <2>2 DEF ApplyPatch, TypeOK, strategyVars, RecordNames
<1>9. CASE Gate
  <2>1. \E v \in Truths : Halt(v)
    BY <1>9 DEF Gate, TruthVerdict, Truths
  <2>2. pc' = "publish" /\ verdict' \in Outcomes /\ todo' \in Seq(RecordNames) /\ files' = files
    BY <1>s, <2>1, HaltOK
  <2>. QED  BY <1>9, <2>2 DEF Gate, TypeOK, strategyVars, promoteVars, RecordNames
<1>10. CASE Publish
  <2>1. Head(todo) \in RecordNames /\ todo' \in Seq(RecordNames)
    BY <1>10 DEF Publish, TypeOK, RecordNames
  <2>2. files' \in [input : BOOLEAN, truth : Outcomes \cup {None}, error : BOOLEAN,
                    outcome : Outcomes \cup {None}, run : Outcomes \cup {None, "ACTIVE"}]
    BY <1>10, <2>1 DEF Publish, Written, TypeOK, RecordNames
  <2>. QED  BY <1>10, <2>1, <2>2 DEF Publish, TypeOK, strategyVars, promoteVars, RecordNames
<1>11. CASE Return \/ Killed \/ OwnerEdits \/ Ended \/ UNCHANGED vars
  BY <1>11 DEF Return, Killed, OwnerEdits, Ended, vars, TypeOK, strategyVars, promoteVars, publishVars
<1>12. CASE Raise
  <2>1. pc' \in {"publish", "crashed"} /\ verdict' \in Outcomes \cup {None}
        /\ todo' \in Seq(RecordNames) /\ files' = files
    BY <1>12, <1>s, HaltOK DEF Raise, publishVars, TypeOK, RecordNames
  <2>. QED  BY <1>12, <2>1 DEF Raise, TypeOK, strategyVars, promoteVars, RecordNames
<1>. QED  BY <1>1, <1>2, <1>3, <1>4, <1>5, <1>6, <1>7, <1>8, <1>9, <1>10, <1>11, <1>12
             DEF Next, Step

(* Every variable of a run keeps its type, and what is about to be applied *)
(* is a patch.                                                             *)
THEOREM DeliveryTypes == Spec => []TypeOK
<1>1. Init => TypeOK
  <2> SUFFICES ASSUME Init PROVE TypeOK
    OBVIOUS
  <2>1. todo \in Seq({"input", "truth", "error", "outcome", "run"}) /\ cycle \in 0..2
    BY DEF Init
  <2>2. /\ DOMAIN graph \in {DOMAIN InitialGraph, DOMAIN InitialGraph \cup {Progress}}
        /\ \A o \in DOMAIN graph :
             graph[o] \in [rev : Nat, status : {"OPEN", "CLOSED"}, on : SUBSET Edits]
    BY DEF Init, InitialGraph, Opened
  <2>3. /\ report \in Reports
        /\ files \in [input : BOOLEAN, truth : Outcomes \cup {None}, error : BOOLEAN,
                     outcome : Outcomes \cup {None}, run : Outcomes \cup {None, "ACTIVE"}]
    BY DEF Init, NoReport, NoFiles, Reports
  <2>4. /\ pc = "prepare" /\ profile = Unclassified /\ wasLight \in BOOLEAN
        /\ sandbox = {} /\ original = {} /\ review = NoReview
        /\ patch = Nothing /\ delivered = Nothing /\ verdict = None
    BY DEF Init
  <2>. QED  BY <2>1, <2>2, <2>3, <2>4 DEF TypeOK
<1>. QED  BY <1>1, NextTypeOK, PTL DEF Spec

-----------------------------------------------------------------------------
(* What is delivered was approved.  Every step on the way to the promotion *)
(* vouches for the sandbox as it is, and nothing changes a run's reports   *)
(* after the promotion.                                                    *)
Unpromoted == {"prepare", "tasks", "verify", "guard", "review", "repair", "promote", "apply"}

Verified(tree) ==
  report.checks = "PASS" /\ report.diff = "PASS" /\ Source(tree) = report.guardedOn

Approved ==
  /\ review.verdict = "APPROVED" /\ review.simplicity = "MINIMAL"
  /\ wasLight => review.mode = "MODEL"

ApprovedInv ==
  /\ pc = "prepare" => ~wasLight
  /\ wasLight => profile.reviewer
  /\ pc \in {"review", "promote", "apply"} => Verified(sandbox)
  /\ pc \in {"promote", "apply"} => Approved
  /\ pc = "apply" => patch = sandbox /\ Source(patch) \subseteq InScope
  /\ pc \in Unpromoted => delivered = Nothing
  /\ delivered # Nothing =>
       Verified(delivered) /\ Approved /\ Source(delivered) \subseteq InScope

LEMMA NextApprovedInv == TypeOK /\ ApprovedInv /\ [Next]_vars => ApprovedInv'
<1> SUFFICES ASSUME TypeOK, ApprovedInv, [Next]_vars PROVE ApprovedInv'
  OBVIOUS
<1> USE DEF ApprovedInv, Unpromoted, Verified, Approved
<1>1. CASE Prepare
  BY <1>1 DEF Prepare, Go, Halt, promoteVars
<1>2. CASE RunTasks
  <2>1. wasLight' => profile'.reviewer
    <3>1. PICK recovered \in BOOLEAN :
            LET light == profile.tier \in {"T0", "T1"}
            IN  /\ profile'  = IF recovered THEN Escalated(profile) ELSE profile
                /\ wasLight' = (recovered /\ light)
      BY <1>2 DEF RunTasks
    <3>. QED  BY <3>1 DEF Escalated
  <2>2. pc' \in {"verify", "publish"} /\ pc = "tasks" /\ UNCHANGED promoteVars
    BY <1>2 DEF RunTasks, Go, Halt
  <2>. QED  BY <2>1, <2>2 DEF promoteVars
<1>3. CASE RunFinalChecks
  BY <1>3 DEF RunFinalChecks, Go, promoteVars, strategyVars
<1>4. CASE GuardAndSeal
  <2>1. pc = "guard" /\ UNCHANGED <<strategyVars, sandbox, promoteVars>>
        /\ pc' \in {"review", "promote", "publish"}
    BY <1>4 DEF GuardAndSeal, Go, Halt
  <2>2. ASSUME pc' \in {"review", "promote"}
        PROVE  report'.checks = "PASS" /\ report'.diff = "PASS"
    BY <1>4, <2>2 DEF GuardAndSeal, Halt
  <2>3. report'.guardedOn = Source(sandbox)
    <3>1. PICK v \in Seals(report.checks) :
            report' = [report EXCEPT !.diff = GuardOf(sandbox), !.sealed = v,
                                     !.guardedOn = Source(sandbox)]
      BY <1>4 DEF GuardAndSeal
    <3>. QED  BY <3>1 DEF TypeOK, Reports
  <2>4. ASSUME pc' = "promote"
        PROVE  review' = FastLane /\ ~profile.reviewer
    BY <1>4, <2>4 DEF GuardAndSeal, Halt, Go
  <2>. QED  BY <2>1, <2>2, <2>3, <2>4 DEF FastLane, promoteVars, strategyVars
<1>5. CASE Review
  <2>1. pc = "review" /\ UNCHANGED <<strategyVars, report, promoteVars>>
        /\ Source(sandbox') = Source(sandbox)
    BY <1>5 DEF Review, Source
  <2>2. pc' \in {"promote", "repair", "publish"}
        /\ (pc' = "promote" => /\ review'.verdict = "APPROVED" /\ review'.simplicity = "MINIMAL"
                               /\ review'.mode = "MODEL")
    <3>1. CASE \E v \in Stops : Halt(v)
      BY <3>1 DEF Halt
    <3>2. CASE ~\E v \in Stops : Halt(v)
      <4>1. PICK r : /\ r.mode = "MODEL" /\ review' = r
                     /\ IF AfterReview(r) = "rejected" THEN Halt("FAILED") ELSE Go(AfterReview(r))
        BY <1>5, <3>2 DEF Review
      <4>. QED  BY <4>1 DEF AfterReview, Go, Halt
    <3>. QED  BY <3>1, <3>2
  <2>. QED  BY <2>1, <2>2 DEF promoteVars, strategyVars
<1>6. CASE RepairReview
  BY <1>6 DEF RepairReview, Go, Halt, promoteVars, strategyVars
<1>7. CASE CheckPromotion
  BY <1>7 DEF CheckPromotion, Go, Halt, strategyVars
<1>8. CASE ApplyPatch
  BY <1>8 DEF ApplyPatch, Go, Halt, strategyVars
<1>9. CASE Gate
  BY <1>9 DEF Gate, Halt, strategyVars, promoteVars
<1>10. CASE Publish \/ Return \/ Killed \/ OwnerEdits \/ Ended \/ UNCHANGED vars
  BY <1>10 DEF Publish, Return, Killed, OwnerEdits, Ended, vars, strategyVars, promoteVars
<1>11. CASE Raise
  BY <1>11 DEF Raise, Halt, strategyVars, promoteVars
<1>. QED  BY <1>1, <1>2, <1>3, <1>4, <1>5, <1>6, <1>7, <1>8, <1>9, <1>10, <1>11 DEF Next, Step

LEMMA InitApprovedInv == Init => ApprovedInv
BY DEF Init, ApprovedInv, Unpromoted, Verified, Approved

(* What reaches the owner's worktree passed the final checks and the diff  *)
(* guard, was approved as minimal, and by a model reviewer when a light    *)
(* run had needed a recovery.                                              *)
THEOREM DeliveredAlwaysApproved == Spec => []DeliveredWasApproved
<1>1. TypeOK /\ ApprovedInv => DeliveredWasApproved
  BY DEF ApprovedInv, DeliveredWasApproved, Verified, Approved
<1>2. Init /\ [][Next]_vars /\ []TypeOK => []ApprovedInv
  BY InitApprovedInv, NextApprovedInv, PTL
<1>. QED  BY <1>1, <1>2, DeliveryTypes, PTL DEF Spec

-----------------------------------------------------------------------------
(* The records.  While a run works it has written none; a truth report is  *)
(* the first record of the endings that have one; a second ending, after a *)
(* failure of the truth gate's own finalizer, writes no truth report.      *)
Truthless == {"NEEDS_INPUT", "SYSTEM_ERROR"}
Working   == Unpromoted \cup {"gate"}

RecordsInv ==
  /\ pc \in Working => files = NoFiles
  /\ pc = "publish" /\ verdict \in Truthless =>
       todo \in {Records(verdict), <<"outcome", "run">>, <<"run">>, <<>>}
  /\ pc = "publish" /\ verdict \notin Truthless =>
       \/ todo = Records(verdict) /\ files.truth = None
       \/ todo \in {<<"run", "outcome">>, <<"outcome">>, <<>>} /\ files.truth = verdict
  /\ NeverOverclaimed

(* What is left to be written after the head of a list of records.         *)
LEMMA TailOfTruth ==
  ASSUME NEW t \in {<<"run", "outcome">>, <<"outcome">>}
  PROVE  Tail(t) \in {<<"outcome">>, <<>>} /\ Head(t) \in {"run", "outcome"}
<1>1. CASE t = <<"run", "outcome">>
  BY <1>1
<1>2. CASE t = <<"outcome">>
  BY <1>2
<1>. QED  BY <1>1, <1>2

LEMMA TailOfOthers ==
  ASSUME NEW t \in {<<"input", "outcome", "run">>, <<"error", "outcome", "run">>,
                    <<"outcome", "run">>, <<"run">>}
  PROVE  /\ Tail(t) \in {<<"outcome", "run">>, <<"run">>, <<>>}
         /\ Head(t) \in {"input", "error", "outcome", "run"}
         /\ t \notin {<<"truth", "run", "outcome">>, <<"run", "outcome">>, <<"outcome">>, <<>>}
<1>1. CASE t = <<"input", "outcome", "run">>
  BY <1>1
<1>2. CASE t = <<"error", "outcome", "run">>
  BY <1>2
<1>3. CASE t = <<"outcome", "run">>
  BY <1>3
<1>4. CASE t = <<"run">>
  BY <1>4
<1>. QED  BY <1>1, <1>2, <1>3, <1>4

(* Only the record of the truth report changes what it says.               *)
LEMMA WrittenLater ==
  ASSUME TypeOK, NEW record \in {"input", "error", "outcome", "run"}
  PROVE  LET f == Written(record)
         IN  /\ f.truth = files.truth
             /\ {f.run, f.outcome} \subseteq {verdict, files.run, files.outcome}
<1> DEFINE F == [input : BOOLEAN, truth : Outcomes \cup {None}, error : BOOLEAN,
                 outcome : Outcomes \cup {None}, run : Outcomes \cup {None, "ACTIVE"}]
<1>1. files \in F
  BY DEF TypeOK
<1>2. CASE record = "input"
  BY <1>1, <1>2 DEF Written
<1>3. CASE record = "error"
  BY <1>1, <1>3 DEF Written
<1>4. CASE record = "outcome"
  BY <1>1, <1>4 DEF Written
<1>5. CASE record = "run"
  BY <1>1, <1>5 DEF Written
<1>. QED  BY <1>2, <1>3, <1>4, <1>5

LEMMA NextRecordsInv == TypeOK /\ RecordsInv /\ [Next]_vars => RecordsInv'
<1> SUFFICES ASSUME TypeOK, RecordsInv, [Next]_vars PROVE RecordsInv'
  OBVIOUS
<1> USE DEF RecordsInv, NeverOverclaimed, Truthless, Working, Unpromoted
<1>h. ASSUME NEW v, Halt(v), pc \in Working \/ v = "SYSTEM_ERROR" PROVE RecordsInv'
  BY <1>h DEF Halt, Records, NoFiles
<1>g. ASSUME NEW next \in Working, Go(next), pc \in Working PROVE RecordsInv'
  BY <1>g DEF Go, publishVars
<1>1. CASE Step /\ pc \in Working
  <2>1. CASE Prepare \/ RunTasks \/ RunFinalChecks \/ RepairReview
    BY <1>1, <2>1, <1>h, <1>g DEF Prepare, RunTasks, RunFinalChecks, RepairReview
  <2>2. CASE GuardAndSeal
    BY <1>1, <2>2, <1>h, <1>g DEF GuardAndSeal
  <2>3. CASE Review
    <3>1. CASE \E v \in Stops : Halt(v)
      BY <1>1, <3>1, <1>h
    <3>2. CASE ~\E v \in Stops : Halt(v)
      <4>1. PICK r : IF AfterReview(r) = "rejected" THEN Halt("FAILED") ELSE Go(AfterReview(r))
        BY <2>3, <3>2 DEF Review
      <4>2. AfterReview(r) \in {"promote", "repair", "rejected"}
        BY DEF AfterReview
      <4>. QED  BY <1>1, <4>1, <4>2, <1>h, <1>g
    <3>. QED  BY <3>1, <3>2
  <2>4. CASE CheckPromotion \/ ApplyPatch \/ Gate
    BY <1>1, <2>4, <1>h, <1>g DEF CheckPromotion, ApplyPatch, Gate
  <2>5. CASE Publish \/ Return
    BY <1>1, <2>5 DEF Publish, Return
  <2>. QED  BY <1>1, <2>1, <2>2, <2>3, <2>4, <2>5 DEF Step
<1>2. CASE Step /\ pc \notin Working
  <2>1. Publish \/ Return
    BY <1>2 DEF Step, Prepare, RunTasks, RunFinalChecks, RepairReview, GuardAndSeal, Review,
                CheckPromotion, ApplyPatch, Gate
  <2>2. CASE Return
    BY <2>2 DEF Return, publishVars
  <2>3. CASE Publish
    <3>1. pc = "publish" /\ pc' = pc /\ todo # <<>> /\ UNCHANGED verdict
          /\ files' = Written(Head(todo)) /\ todo' = Tail(todo)
      BY <2>3 DEF Publish
    <3>2. CASE todo = <<"truth", "run", "outcome">>
      <4>1. verdict \notin Truthless /\ files.truth = None
        BY <3>1, <3>2 DEF Records
      <4>2. todo' = <<"run", "outcome">> /\ files' = [files EXCEPT !.truth = verdict]
        BY <3>1, <3>2 DEF Written
      <4>. QED  BY <3>1, <4>1, <4>2 DEF TypeOK, None
    <3>3. CASE todo \in {<<"run", "outcome">>, <<"outcome">>}
      <4>1. verdict \notin Truthless /\ files.truth = verdict
        BY <3>1, <3>3 DEF Records
      <4>2. todo' \in {<<"outcome">>, <<>>} /\ Head(todo) \in {"run", "outcome"}
        BY <3>1, <3>3, TailOfTruth
      <4>3. files'.truth = verdict /\ {files'.run, files'.outcome} \subseteq
                                        {verdict, files.run, files.outcome}
        BY <3>1, <4>1, <4>2, WrittenLater
      <4>. QED  BY <3>1, <4>1, <4>2, <4>3
    <3>4. CASE todo \in {<<"input", "outcome", "run">>, <<"error", "outcome", "run">>,
                         <<"outcome", "run">>, <<"run">>}
      <4>1. verdict \in Truthless
        BY <3>1, <3>4, TailOfOthers DEF Records
      <4>2. /\ todo' \in {<<"outcome", "run">>, <<"run">>, <<>>}
            /\ Head(todo) \in {"input", "error", "outcome", "run"}
        BY <3>1, <3>4, TailOfOthers
      <4>3. files'.truth = files.truth /\ {files'.run, files'.outcome} \subseteq
                                            {verdict, files.run, files.outcome}
        BY <3>1, <4>2, WrittenLater
      <4>. QED  BY <3>1, <4>1, <4>2, <4>3
    <3>. QED  BY <3>1, <3>2, <3>3, <3>4 DEF Records
  <2>. QED  BY <2>1, <2>2, <2>3
<1>3. CASE Raise
  BY <1>3, <1>h DEF Raise, publishVars
<1>4. CASE Killed \/ OwnerEdits \/ Ended \/ UNCHANGED vars
  BY <1>4 DEF Killed, OwnerEdits, Ended, vars, publishVars
<1>. QED  BY <1>1, <1>2, <1>3, <1>4 DEF Next

LEMMA InitRecordsInv == Init => RecordsInv
BY DEF Init, RecordsInv, NeverOverclaimed, Working, Unpromoted, NoFiles

(* No failure and no kill between two writes leaves an outcome or run.json *)
(* that claims PROVEN without a truth report that does.                    *)
THEOREM NothingOverclaimed == Spec => []NeverOverclaimed
<1>1. RecordsInv => NeverOverclaimed
  BY DEF RecordsInv
<1>2. Init /\ [][Next]_vars /\ []TypeOK => []RecordsInv
  BY InitRecordsInv, NextRecordsInv, PTL
<1>. QED  BY <1>1, <1>2, DeliveryTypes, PTL DEF Spec

-----------------------------------------------------------------------------
(* What the evidence of a verification does to the graph: only a review by *)
(* a model closes a semantic obligation, and what is closed rests on the   *)
(* tree the guard looked at.                                               *)
LEMMA SemanticKept ==
  ASSUME NEW g, NEW r, NEW w, w.mode # "MODEL", NEW o \in Semantic \cap DOMAIN g
  PROVE  RecordVerification(g, r, w)[o] = g[o]
<1>1. Authority(o, w) = "DIFF_GUARD" /\ Claim(o) = o
  BY DEF Authority, Claim
<1>2. ~CanClose(o, "DIFF_GUARD")
  BY DEF CanClose, Origin, AllowedOrigins, Semantic, Intent, Simplicity, Scope
<1>. QED  BY <1>1, <1>2 DEF RecordVerification, Recorded

LEMMA ClosedOnGuarded ==
  ASSUME NEW g, GraphOK(g), NEW r, NEW w, NEW o \in (Semantic \cup {Scope}) \cap DOMAIN g
  PROVE  LET h == RecordVerification(g, r, w)
         IN  h[o] = g[o] \/ h[o].on = r.guardedOn
<1>1. g[o] \in [rev : Nat, status : {"OPEN", "CLOSED"}, on : SUBSET Edits]
  BY DEF GraphOK
<1>. QED  BY <1>1 DEF RecordVerification, Recorded

LEMMA ScopeOnGuarded ==
  ASSUME NEW g, GraphOK(g), Scope \in DOMAIN g, NEW r, r.diff = "PASS", NEW w
  PROVE  RecordVerification(g, r, w)[Scope].on = r.guardedOn
<1>1. g[Scope] \in [rev : Nat, status : {"OPEN", "CLOSED"}, on : SUBSET Edits]
  BY DEF GraphOK
<1>2. Scope \notin Criteria /\ Scope \notin Semantic
  BY CriteriaAssumption DEF Standing, Semantic, Scope, Intent, Simplicity
<1>3. Verdict(Scope, r, w) = "PASS" /\ Authority(Scope, w) = "DIFF_GUARD" /\ Claim(Scope) = Scope
  BY <1>2 DEF Verdict, Authority, Claim
<1>4. CanClose(Scope, "DIFF_GUARD")
  BY <1>2 DEF CanClose, Origin, AllowedOrigins, AuthorityMinimum, Scope
<1>. QED  BY <1>1, <1>2, <1>3, <1>4 DEF RecordVerification, Recorded

LEMMA StandingHeld == ASSUME NEW g, GraphOK(g) PROVE Standing \subseteq DOMAIN g
BY DEF GraphOK, InitialGraph

(* ProvenIsEarned and the contract's conclusions are inductive with: the   *)
(* semantic obligations stay open up to the last review, what is closed at *)
(* the gate rests on the guarded tree, and only the gate concludes.        *)
Earned ==
  /\ delivered # Nothing /\ Source(delivered) \subseteq InScope
  /\ Unclosed(graph) = {}
  /\ \A o \in Semantic \cup {Scope} : graph[o].on = Source(delivered)
  /\ review.mode = "MODEL"

EarnedInv ==
  /\ pc \in {"prepare", "tasks", "verify", "guard", "review", "repair"} =>
       \A o \in Semantic : graph[o].status = "OPEN"
  /\ pc \in {"review", "promote", "apply", "gate"} => graph[Scope].on = report.guardedOn
  /\ pc \in {"promote", "apply", "gate"} =>
       \A o \in Semantic :
         graph[o].status = "OPEN" \/ (graph[o].on = report.guardedOn /\ review.mode = "MODEL")
  /\ pc = "gate" => delivered # Nothing
  /\ pc = "publish" =>
       /\ verdict # None
       /\ verdict = "PROVEN" => Earned
       /\ verdict = "PARTIAL" => delivered # Nothing
       /\ verdict = "BLOCKED" => delivered = Nothing
  /\ ProvenIsEarned

LEMMA NextEarnedInv ==
  TypeOK /\ ApprovedInv /\ RecordsInv /\ EarnedInv /\ [Next]_vars => EarnedInv'
<1> SUFFICES ASSUME TypeOK, ApprovedInv, RecordsInv, EarnedInv, [Next]_vars PROVE EarnedInv'
  OBVIOUS
<1> USE DEF EarnedInv, ProvenIsEarned, Earned, None
<1>g. GraphOK(graph) /\ Standing \subseteq DOMAIN graph
  BY StandingHeld DEF TypeOK, GraphOK
<1>f. pc \in Working => files.truth # "PROVEN" /\ (pc # "gate" => delivered = Nothing)
  BY DEF RecordsInv, ApprovedInv, Working, NoFiles, None
<1>h. ASSUME NEW v \in Stops, Halt(v), UNCHANGED delivered, pc \in Working \ {"gate"}
      PROVE  EarnedInv'
  BY <1>h, <1>f DEF Halt, Stops
<1>1. CASE Prepare
  <2>1. CASE \E v \in Stops : Halt(v)
    BY <1>1, <1>h, <2>1 DEF Prepare, promoteVars, Working, Unpromoted
  <2>2. CASE ~\E v \in Stops : Halt(v)
    BY <1>1, <1>f, <2>2 DEF Prepare, Go, promoteVars, publishVars, Working, Unpromoted, Stops
  <2>. QED  BY <2>1, <2>2
<1>2. CASE RunTasks
  <2>1. CASE \E v \in Stops : Halt(v)
    BY <1>2, <1>h, <2>1 DEF RunTasks, promoteVars, Working, Unpromoted
  <2>2. CASE ~\E v \in Stops : Halt(v)
    <3>1. \A o \in Semantic : graph'[o].status = "OPEN"
      <4>1. PICK light : graph' \in {graph, WithRecovery(graph, light)}
        BY <1>2 DEF RunTasks
      <4>. QED  BY <1>2, <1>g, <4>1 DEF RunTasks, WithRecovery, Opened, Standing
    <3>. QED  BY <1>2, <1>f, <2>2, <3>1 DEF RunTasks, Go, promoteVars, publishVars, Working, Unpromoted
  <2>. QED  BY <2>1, <2>2
<1>3. CASE RunFinalChecks
  BY <1>3, <1>f DEF RunFinalChecks, Go, promoteVars, publishVars, Working, Unpromoted
<1>4. CASE GuardAndSeal
  <2>0. pc = "guard" /\ UNCHANGED promoteVars
    BY <1>4 DEF GuardAndSeal
  <2>1. CASE Halt("FAILED")
    BY <1>h, <2>0, <2>1 DEF Stops, promoteVars, Working, Unpromoted
  <2>2. CASE ~Halt("FAILED")
    <3> DEFINE first == RecordVerification(graph, report', NoReview)
    <3>1. /\ report'.diff = "PASS" /\ UNCHANGED files
          /\ \/ graph' = first /\ pc' = "review"
             \/ graph' = RecordVerification(first, report', FastLane) /\ pc' = "promote"
      BY <1>4, <2>2 DEF GuardAndSeal, Go, publishVars
    <3>2. report' \in Reports
      BY <1>4, NextTypeOK DEF TypeOK, Next, Step
    <3>3. GraphOK(first) /\ Standing \subseteq DOMAIN first
      BY <1>g, <3>2, RecordedOK, StandingHeld DEF Reports
    <3>4. first[Scope].on = report'.guardedOn
      BY <1>g, <3>1, ScopeOnGuarded DEF Standing
    <3>5. RecordVerification(first, report', FastLane)[Scope].on = report'.guardedOn
      BY <3>1, <3>3, ScopeOnGuarded DEF Standing
    <3>6. \A o \in Semantic : first[o] = graph[o]
                              /\ RecordVerification(first, report', FastLane)[o] = first[o]
      BY <1>g, <3>3, SemanticKept DEF NoReview, None, FastLane, Standing
    <3>. QED  BY <2>0, <1>f, <3>1, <3>4, <3>5, <3>6 DEF Working, Unpromoted
  <2>. QED  BY <2>1, <2>2
<1>5. CASE Review
  <2>0. pc = "review" /\ UNCHANGED <<promoteVars, report>>
    BY <1>5 DEF Review
  <2>1. CASE \E v \in Stops : Halt(v)
    BY <1>h, <2>0, <2>1 DEF promoteVars, Working, Unpromoted
  <2>2. CASE ~\E v \in Stops : Halt(v)
    <3>1. PICK r : /\ r.mode = "MODEL" /\ review' = r
                   /\ graph' = IF AfterReview(r) = "promote" THEN RecordVerification(graph, report, r)
                                                             ELSE graph
                   /\ IF AfterReview(r) = "rejected" THEN Halt("FAILED") ELSE Go(AfterReview(r))
      BY <1>5, <2>2 DEF Review
    <3>2. AfterReview(r) # "rejected"
      BY <2>2, <3>1 DEF Stops
    <3>3. CASE AfterReview(r) = "repair"
      BY <2>0, <1>f, <3>1, <3>3 DEF Go, publishVars, Working, Unpromoted
    <3>4. CASE AfterReview(r) = "promote"
      <4>1. graph' = RecordVerification(graph, report, r) /\ pc' = "promote" /\ UNCHANGED files
        BY <3>1, <3>4 DEF Go, publishVars
      <4>2. graph'[Scope] = graph[Scope] \/ graph'[Scope].on = report.guardedOn
        BY <1>g, <4>1, ClosedOnGuarded DEF Standing
      <4>3. \A o \in Semantic : graph'[o] = graph[o] \/ graph'[o].on = report.guardedOn
        BY <1>g, <4>1, ClosedOnGuarded DEF Standing
      <4>. QED  BY <2>0, <1>f, <3>1, <4>1, <4>2, <4>3 DEF Working, Unpromoted
    <3>. QED  BY <3>2, <3>3, <3>4 DEF AfterReview
  <2>. QED  BY <2>1, <2>2
<1>6. CASE RepairReview
  <2>1. CASE \E v \in Stops : Halt(v)
    BY <1>6, <1>h, <2>1 DEF RepairReview, promoteVars, Working, Unpromoted
  <2>2. CASE ~\E v \in Stops : Halt(v)
    BY <1>6, <1>f, <2>2 DEF RepairReview, Go, promoteVars, publishVars, Working, Unpromoted
  <2>. QED  BY <2>1, <2>2
<1>7. CASE CheckPromotion
  <2>1. CASE Halt("SYSTEM_ERROR")
    BY <1>7, <1>h, <2>1 DEF CheckPromotion, Stops, Working, Unpromoted
  <2>2. CASE ~Halt("SYSTEM_ERROR")
    BY <1>7, <1>f, <2>2 DEF CheckPromotion, Go, publishVars, Working, Unpromoted
  <2>. QED  BY <2>1, <2>2
<1>8. CASE ApplyPatch
  <2>1. CASE Halt("SYSTEM_ERROR")
    BY <1>8, <1>h, <1>f, <2>1 DEF ApplyPatch, Go, Halt, Stops, Working, Unpromoted
  <2>2. CASE ~Halt("SYSTEM_ERROR")
    BY <1>8, <1>f, <2>2 DEF ApplyPatch, TypeOK, Go, publishVars, Working, Unpromoted
  <2>. QED  BY <2>1, <2>2
<1>9. CASE Gate
  <2>1. PICK a : /\ a.graph = graph /\ a.review = review /\ Halt(TruthVerdict(a))
    BY <1>9 DEF Gate
  <2>2. pc = "gate" /\ UNCHANGED <<graph, report, review, promoteVars>> /\ delivered # Nothing
    BY <1>9 DEF Gate
  <2>3. ASSUME TruthVerdict(a) = "PROVEN" PROVE Earned
    <3>1. Unclosed(graph) = {}
      BY <2>1, <2>3 DEF TruthVerdict, Blocked, Unproven
    <3>2. \A o \in Semantic : graph[o].status # "OPEN"
      BY <1>g, <3>1 DEF Unclosed, Standing
    <3>3. Source(delivered) = report.guardedOn /\ Source(delivered) \subseteq InScope
      BY <2>2 DEF ApprovedInv, Verified
    <3>. QED  BY <2>2, <3>1, <3>2, <3>3 DEF Semantic
  <2>4. TruthVerdict(a) \in {"FAILED", "PARTIAL", "PROVEN"}
    BY DEF TruthVerdict
  <2>. QED  BY <1>f, <2>1, <2>2, <2>3, <2>4 DEF Halt, promoteVars, Working
<1>10. CASE Publish
  <2>1. /\ pc = "publish" /\ UNCHANGED <<pc, graph, report, review, promoteVars, verdict>>
        /\ files' = Written(Head(todo)) /\ Head(todo) \in RecordNames
    BY <1>10 DEF Publish, TypeOK, RecordNames
  <2>2. files'.truth \in {files.truth, verdict}
    BY <2>1, WrittenLater DEF Written, TypeOK, RecordNames
  <2>. QED  BY <2>1, <2>2 DEF promoteVars
<1>11. CASE Raise
  BY <1>11, <1>f DEF Raise, Halt, promoteVars, publishVars
<1>12. CASE Return \/ Killed \/ OwnerEdits \/ Ended \/ UNCHANGED vars
  BY <1>12 DEF Return, Killed, OwnerEdits, Ended, vars, promoteVars, publishVars
<1>. QED  BY <1>1, <1>2, <1>3, <1>4, <1>5, <1>6, <1>7, <1>8, <1>9, <1>10, <1>11, <1>12
             DEF Next, Step

LEMMA InitEarnedInv == Init => EarnedInv
<1> SUFFICES ASSUME Init PROVE EarnedInv
  OBVIOUS
<1>1. \A o \in Semantic : graph[o].status = "OPEN"
  BY DEF Init, InitialGraph, Opened, Standing
<1>. QED  BY <1>1 DEF Init, EarnedInv, ProvenIsEarned, NoFiles, None

LEMMA RunInvariants == Spec => [](TypeOK /\ ApprovedInv /\ RecordsInv /\ EarnedInv)
<1>1. Init /\ [][Next]_vars /\ []TypeOK => []ApprovedInv
  BY InitApprovedInv, NextApprovedInv, PTL
<1>2. Init /\ [][Next]_vars /\ []TypeOK => []RecordsInv
  BY InitRecordsInv, NextRecordsInv, PTL
<1>3. Init /\ [][Next]_vars /\ []TypeOK /\ []ApprovedInv /\ []RecordsInv => []EarnedInv
  BY InitEarnedInv, NextEarnedInv, PTL
<1>. QED  BY <1>1, <1>2, <1>3, DeliveryTypes, PTL DEF Spec

(* A PROVEN truth report speaks of the tree that was delivered, with every *)
(* obligation closed by evidence on exactly that tree and a model review.  *)
THEOREM ProvenAlwaysEarned == Spec => []ProvenIsEarned
<1>1. EarnedInv => ProvenIsEarned
  BY DEF EarnedInv
<1>. QED  BY <1>1, RunInvariants, PTL

-----------------------------------------------------------------------------
(* The run implements the contract with the owner.  What is missing is     *)
(* that a planner's leak ends the run.                                     *)
LeakInv == Leak \in original => pc \notin Working

LEMMA NextLeakInv == TypeOK /\ ApprovedInv /\ LeakInv /\ [Next]_vars => LeakInv'
<1> SUFFICES ASSUME TypeOK, ApprovedInv, LeakInv, [Next]_vars, Leak \in original'
             PROVE  pc' \notin Working
  BY DEF LeakInv
<1> USE DEF LeakInv, Working, Unpromoted
<1>1. CASE Prepare
  BY <1>1 DEF Prepare, Go, Halt
<1>2. CASE ApplyPatch
  <2>1. pc = "apply" /\ Leak \notin original /\ Leak \notin patch
    BY <1>2, DeliveryAssumption DEF ApplyPatch, ApprovedInv, TypeOK, Junk, Leak
  <2>. QED  BY <1>2, <2>1 DEF ApplyPatch, Applied, Halt
<1>3. CASE OwnerEdits
  BY <1>3 DEF OwnerEdits, Owner, Leak
<1>4. CASE UNCHANGED original /\ pc \notin Working
  <2>1. Publish \/ Return \/ Raise \/ Killed \/ Ended \/ OwnerEdits \/ UNCHANGED vars
    BY <1>4 DEF Next, Step, Prepare, RunTasks, RunFinalChecks, GuardAndSeal, Review, RepairReview,
                CheckPromotion, ApplyPatch, Gate
  <2>. QED  BY <1>4, <2>1 DEF Publish, Return, Raise, Halt, Killed, Ended, OwnerEdits, vars
<1>5. CASE UNCHANGED original /\ pc \in Working
  BY <1>5
<1>6. UNCHANGED original \/ Prepare \/ ApplyPatch \/ OwnerEdits
  BY DEF Next, Step, Prepare, RunTasks, RunFinalChecks, GuardAndSeal, Review, RepairReview,
         CheckPromotion, ApplyPatch, Gate, Publish, Return, Raise, Killed, OwnerEdits, Ended, vars
<1>. QED  BY <1>1, <1>2, <1>3, <1>4, <1>5, <1>6

LEMMA ContractStep ==
  TypeOK /\ ApprovedInv /\ RecordsInv /\ EarnedInv /\ LeakInv /\ [Next]_vars
    => [Contract!Next]_(Contract!vars)
<1> SUFFICES ASSUME TypeOK, ApprovedInv, RecordsInv, EarnedInv, LeakInv, [Next]_vars
             PROVE  Contract!Next \/ UNCHANGED <<original, delivered, files.truth>>
  BY DEF Contract!vars
<1>w. ASSUME pc \in Working PROVE files.truth = Contract!None
  BY <1>w DEF RecordsInv, NoFiles, None, Contract!None
<1>1. CASE Prepare
  <2>1. pc = "prepare" /\ UNCHANGED <<delivered, files>>
    BY <1>1 DEF Prepare, promoteVars, Go, Halt, publishVars
  <2>2. delivered = Contract!Nothing
    BY <2>1 DEF ApprovedInv, Unpromoted, Nothing, Contract!Nothing
  <2>3. CASE original' = original
    BY <2>1, <2>3
  <2>4. CASE original' = original \cup {Leak}
    BY <2>1, <2>2, <2>4, <1>w DEF Contract!Next, Contract!PlannerLeaks, Working, Unpromoted
  <2>. QED  BY <1>1, <2>3, <2>4 DEF Prepare
<1>2. CASE ApplyPatch
  <2>1. pc = "apply" /\ UNCHANGED files
    BY <1>2 DEF ApplyPatch, Go, Halt, publishVars
  <2>2. /\ delivered = Contract!Nothing /\ files.truth = Contract!None /\ Leak \notin original
        /\ patch \in SUBSET (InScope \cup {Junk})
    BY <2>1, <1>w DEF ApprovedInv, LeakInv, Unpromoted, Working, Source, Nothing, Contract!Nothing
  <2>3. CASE original' = Applied(original) /\ delivered' = patch
    BY <2>1, <2>2, <2>3 DEF Applied, Contract!Next, Contract!Deliver
  <2>4. CASE UNCHANGED <<original, delivered>>
    BY <2>1, <2>4
  <2>. QED  BY <1>2, <2>3, <2>4 DEF ApplyPatch
<1>3. CASE OwnerEdits
  BY <1>3 DEF OwnerEdits, promoteVars, publishVars, Contract!Next, Contract!OwnerEdits
<1>4. CASE Publish
  <2>1. /\ pc = "publish" /\ todo # <<>> /\ UNCHANGED <<original, delivered>>
        /\ files' = Written(Head(todo)) /\ Head(todo) \in RecordNames
    BY <1>4 DEF Publish, promoteVars, TypeOK, RecordNames
  <2>2. CASE Head(todo) # "truth"
    BY <2>1, <2>2, WrittenLater DEF RecordNames
  <2>3. CASE Head(todo) = "truth"
    <3>1. todo = <<"truth", "run", "outcome">>
      BY <2>1, <2>3, TailOfTruth, TailOfOthers DEF RecordsInv, Records, Truthless
    <3>2. files'.truth = verdict
      BY <2>1, <2>3 DEF Written, TypeOK
    <3>3. verdict \in Truths /\ files.truth = Contract!None
      <4>1. verdict \notin Truthless
        BY <2>1, <3>1, TailOfOthers DEF RecordsInv, Records, Truthless
      <4>2. files.truth = None
        BY <2>1, <2>3, <4>1, TailOfTruth DEF RecordsInv
      <4>3. verdict # None
        BY <2>1 DEF EarnedInv
      <4>. QED  BY <4>1, <4>2, <4>3 DEF TypeOK, Outcomes, Truthless, None, Contract!None
    <3>. QED  BY <2>1, <3>2, <3>3
              DEF EarnedInv, Earned, Truths, Nothing, Contract!Nothing, Contract!Next,
                  Contract!Conclude, Contract!Claims
  <2>. QED  BY <2>2, <2>3
<1>5. CASE ~(Prepare \/ ApplyPatch \/ OwnerEdits \/ Publish)
  <2>1. UNCHANGED <<original, delivered, files>>
    BY <1>5 DEF Next, Step, RunTasks, RunFinalChecks, GuardAndSeal, Review, RepairReview,
                CheckPromotion, Gate, Return, Raise, Killed, Ended, vars, promoteVars,
                publishVars, Go, Halt
  <2>. QED  BY <2>1
<1>. QED  BY <1>1, <1>2, <1>3, <1>4, <1>5

(* Whatever the run does inside, the owner sees a behaviour of             *)
(* DeliveryContract: own edits, at most one delivery, as a whole and       *)
(* inside the allowed paths, and at most one verdict that fits it.         *)
THEOREM RunImplementsContract == Spec => ImplementsContract
<1>1. Init => Contract!Init /\ LeakInv
  BY DEF Init, LeakInv, NoFiles, Nothing, None, Contract!Init, Contract!Nothing, Contract!None
<1>2. Init /\ [][Next]_vars /\ []TypeOK /\ []ApprovedInv => []LeakInv
  BY <1>1, NextLeakInv, PTL
<1>. QED  BY <1>1, <1>2, RunInvariants, ContractStep, PTL
          DEF Spec, ImplementsContract, Contract!Spec

-----------------------------------------------------------------------------
(* The run ends.  Its program points have an order in which no step goes   *)
(* back: the second review cycle has no repair, and records that fail to   *)
(* be written are given up for those of a system error, and those for good.*)
PointsLeft ==
  CASE pc = "prepare" -> 20
    [] pc = "tasks"   -> 19
    [] pc = "verify"  -> IF cycle = 1 THEN 18 ELSE 14
    [] pc = "guard"   -> IF cycle = 1 THEN 17 ELSE 13
    [] pc = "review"  -> IF cycle = 1 THEN 16 ELSE 12
    [] pc = "repair"  -> 15
    [] pc = "promote" -> 11
    [] pc = "apply"   -> 10
    [] pc = "gate"    -> 9
    [] pc = "publish" -> (IF Guarded THEN 5 ELSE 1) + Len(todo)
    [] OTHER          -> 0

StepsLeft == 2 * PointsLeft + (IF Owner \in original THEN 0 ELSE 1)

RouteInv ==
  /\ pc = "repair" => cycle = 1
  /\ Len(todo) <= 3

LEMMA TodoShort == TypeOK /\ RouteInv => Len(todo) \in 0..3
<1> SUFFICES ASSUME TypeOK, RouteInv PROVE Len(todo) \in 0..3
  OBVIOUS
<1>1. todo \in Seq(RecordNames)
  BY DEF TypeOK, RecordNames
<1>2. Len(todo) \in Nat
  BY <1>1
<1>3. Len(todo) <= 3
  BY DEF RouteInv
<1>. DEFINE n == Len(todo)
<1>4. n \in Nat /\ n <= 3
  BY <1>2, <1>3
<1>. HIDE DEF n
<1>5. n \in 0..3
  BY <1>4
<1>. QED  BY <1>5 DEF n

LEMMA PointsTyped == TypeOK /\ RouteInv => PointsLeft \in 0..20
<1> SUFFICES ASSUME TypeOK, RouteInv PROVE PointsLeft \in 0..20
  OBVIOUS
<1>1. Len(todo) \in 0..3
  BY TodoShort
<1>2. CASE pc = "publish"
  <2>1. PointsLeft = 5 + Len(todo) \/ PointsLeft = 1 + Len(todo)
    BY <1>2 DEF PointsLeft
  <2>. DEFINE n == Len(todo)
  <2>2. n \in 0..3 /\ (PointsLeft = 5 + n \/ PointsLeft = 1 + n)
    BY <1>1, <2>1
  <2>. HIDE DEF n
  <2>. QED  BY <2>2
<1>3. CASE pc # "publish"
  BY <1>3 DEF PointsLeft, TypeOK
<1>. QED  BY <1>2, <1>3

(* Wherever the run halts, few points are left, and the fewest after a     *)
(* system error.                                                           *)
LEMMA HaltPoints ==
  ASSUME NEW v, Halt(v)
  PROVE  /\ pc' = "publish" /\ Len(todo') = 3 /\ PointsLeft' \in {4, 8}
         /\ v = "SYSTEM_ERROR" => PointsLeft' = 4
<1>1. pc' = "publish" /\ verdict' = v /\ todo' = Records(v)
  BY DEF Halt
<1>2. Len(todo') = 3
  BY <1>1 DEF Records
<1>3. PointsLeft' = (IF Guarded' THEN 5 ELSE 1) + 3
  BY <1>1, <1>2 DEF PointsLeft
<1>4. v = "SYSTEM_ERROR" => ~Guarded'
  BY <1>1 DEF Guarded
<1>. QED  BY <1>1, <1>2, <1>3, <1>4

LEMMA OwnerStays == [Next]_vars => original \subseteq original'
<1> SUFFICES ASSUME [Next]_vars PROVE original \subseteq original'
  OBVIOUS
<1>1. CASE Prepare
  BY <1>1 DEF Prepare
<1>2. CASE ApplyPatch
  BY <1>2 DEF ApplyPatch, Applied
<1>3. CASE OwnerEdits
  BY <1>3 DEF OwnerEdits
<1>4. CASE RunTasks \/ RunFinalChecks \/ RepairReview \/ CheckPromotion
  BY <1>4 DEF RunTasks, RunFinalChecks, RepairReview, CheckPromotion
<1>6. CASE GuardAndSeal
  BY <1>6 DEF GuardAndSeal
<1>7. CASE Review
  BY <1>7 DEF Review
<1>5. CASE Gate \/ Publish \/ Return \/ Raise \/ Killed \/ UNCHANGED vars
  BY <1>5 DEF Gate, Publish, Return, Raise, Killed, vars
<1>. QED  BY <1>1, <1>2, <1>3, <1>4, <1>5, <1>6, <1>7 DEF Next, Step, Ended

\* The program points a run that has not been stopped may go to from here.
Ahead ==
  CASE pc = "prepare" -> {"tasks"}
    [] pc = "tasks"   -> {"verify"}
    [] pc = "verify"  -> {"guard"}
    [] pc = "guard"   -> {"review", "promote"}
    [] pc = "review"  -> IF cycle = 1 THEN {"repair", "promote"} ELSE {"promote"}
    [] pc = "repair"  -> {"verify"}
    [] pc = "promote" -> {"apply"}
    [] pc = "apply"   -> {"gate"}
    [] OTHER          -> {}

WorkPoints == {"prepare", "tasks", "verify", "guard", "review", "repair", "promote", "apply", "gate"}

LEMMA WorkGoesOn ==
  ASSUME TypeOK, RouteInv, Step, pc \in WorkPoints
  PROVE  \/ \E v : Halt(v) /\ cycle' = cycle
         \/ /\ pc' \in Ahead /\ todo' = todo
            /\ cycle' = IF pc = "tasks" THEN 1 ELSE IF pc = "repair" THEN 2 ELSE cycle
<1> USE DEF Ahead, Go, publishVars
<1>1. CASE Prepare
  BY <1>1 DEF Prepare
<1>2. CASE RunTasks
  BY <1>2 DEF RunTasks
<1>3. CASE RunFinalChecks
  BY <1>3 DEF RunFinalChecks
<1>4. CASE GuardAndSeal
  BY <1>4 DEF GuardAndSeal
<1>5. CASE Review
  <2>1. CASE \E v \in Stops : Halt(v)
    BY <1>5, <2>1 DEF Review
  <2>2. CASE \E r : LET next == AfterReview(r)
                    IN  IF next = "rejected" THEN Halt("FAILED") ELSE Go(next)
    <3>1. PICK r : LET next == AfterReview(r)
                   IN  IF next = "rejected" THEN Halt("FAILED") ELSE Go(next)
      BY <2>2
    <3>2. AfterReview(r) \in {"promote", "rejected"} \/ (AfterReview(r) = "repair" /\ cycle = 1)
      BY DEF AfterReview
    <3>3. pc = "review" /\ cycle' = cycle
      BY <1>5 DEF Review
    <3>. QED  BY <3>1, <3>2, <3>3
  <2>. QED  BY <1>5, <2>1, <2>2 DEF Review
<1>6. CASE RepairReview
  BY <1>6 DEF RepairReview
<1>7. CASE CheckPromotion
  BY <1>7 DEF CheckPromotion
<1>8. CASE ApplyPatch
  BY <1>8 DEF ApplyPatch
<1>9. CASE Gate
  BY <1>9 DEF Gate
<1>10. ~Publish /\ ~Return
  BY DEF Publish, Return, WorkPoints
<1>. QED  BY <1>1, <1>2, <1>3, <1>4, <1>5, <1>6, <1>7, <1>8, <1>9, <1>10 DEF Step

LEMMA PointsMove ==
  ASSUME TypeOK, RouteInv, [Next]_vars
  PROVE  /\ RouteInv'
         /\ \/ UNCHANGED vars
            \/ PointsLeft' = PointsLeft /\ Owner \notin original /\ Owner \in original'
            \/ PointsLeft' \in Nat /\ PointsLeft' < PointsLeft
<1>t. PointsLeft \in 0..20 /\ Len(todo) \in 0..3 /\ pc \in WorkPoints \cup {"publish", "done", "crashed"}
  BY PointsTyped, TodoShort DEF TypeOK, WorkPoints
<1>1. CASE Step /\ pc \in WorkPoints
  <2>1. CASE \E v : Halt(v) /\ cycle' = cycle
    <3>1. PointsLeft > 8
      BY <1>1 DEF PointsLeft, WorkPoints
    <3>2. pc' = "publish" /\ Len(todo') = 3 /\ PointsLeft' \in {4, 8}
      BY <2>1, HaltPoints
    <3>. QED  BY <1>t, <3>1, <3>2 DEF RouteInv
  <2>2. CASE /\ pc' \in Ahead /\ todo' = todo
             /\ cycle' = IF pc = "tasks" THEN 1 ELSE IF pc = "repair" THEN 2 ELSE cycle
    <3>1. RouteInv'
      BY <1>1, <2>2 DEF RouteInv, Ahead, WorkPoints
    <3>2. PointsLeft' \in Nat /\ PointsLeft' < PointsLeft
      BY <1>1, <2>2 DEF PointsLeft, Ahead, WorkPoints
    <3>. QED  BY <3>1, <3>2
  <2>. QED  BY <1>1, <2>1, <2>2, WorkGoesOn
<1>2. CASE Publish
  <2>1. /\ pc = "publish" /\ pc' = "publish" /\ todo # <<>> /\ todo' = Tail(todo)
        /\ UNCHANGED <<cycle, delivered, verdict>>
    BY <1>2 DEF Publish, promoteVars
  <2>2. Len(todo') = Len(todo) - 1 /\ Len(todo) > 0
    BY <2>1 DEF TypeOK
  <2>3. Guarded' = Guarded
    BY <2>1 DEF Guarded
  <2>4. /\ PointsLeft = (IF Guarded THEN 5 ELSE 1) + Len(todo)
        /\ PointsLeft' = (IF Guarded THEN 5 ELSE 1) + Len(todo')
    BY <2>1, <2>3 DEF PointsLeft
  <2>5. PointsLeft' \in Nat /\ PointsLeft' < PointsLeft
    <3>1. CASE Guarded
      BY <1>t, <2>2, <2>4, <3>1
    <3>2. CASE ~Guarded
      BY <1>t, <2>2, <2>4, <3>2
    <3>. QED  BY <3>1, <3>2
  <2>. QED  BY <1>t, <2>1, <2>2, <2>5 DEF RouteInv
<1>3. CASE Return \/ Killed \/ (Raise /\ ~Guarded)
  <2>1. pc \notin {"done", "crashed"} /\ pc' \in {"done", "crashed"} /\ todo' = todo
    BY <1>3 DEF Return, Killed, Raise, publishVars
  <2>2. PointsLeft' = 0 /\ PointsLeft > 0
    <3>1. CASE pc = "publish"
      BY <1>t, <2>1, <3>1 DEF PointsLeft
    <3>2. CASE pc \in WorkPoints
      BY <2>1, <3>2 DEF PointsLeft, WorkPoints
    <3>. QED  BY <1>t, <2>1, <3>1, <3>2 DEF PointsLeft
  <2>. QED  BY <2>1, <2>2 DEF RouteInv
<1>4. CASE Raise /\ Guarded
  <2>1. pc' = "publish" /\ Len(todo') = 3 /\ PointsLeft' = 4
    BY <1>4, HaltPoints DEF Raise
  <2>2. PointsLeft > 4
    <3>1. CASE pc = "publish"
      BY <1>4, <1>t, <3>1 DEF PointsLeft
    <3>2. CASE pc \in WorkPoints
      BY <3>2 DEF PointsLeft, WorkPoints
    <3>. QED  BY <1>4, <1>t, <3>1, <3>2 DEF Raise
  <2>. QED  BY <2>1, <2>2 DEF RouteInv
<1>5. CASE OwnerEdits
  <2>1. /\ UNCHANGED <<pc, cycle, delivered, verdict, todo>>
        /\ Owner \notin original /\ Owner \in original'
    BY <1>5 DEF OwnerEdits, promoteVars, publishVars
  <2>2. Guarded' = Guarded
    BY <2>1 DEF Guarded
  <2>3. PointsLeft' = PointsLeft
    BY <2>1, <2>2 DEF PointsLeft
  <2>. QED  BY <2>1, <2>3 DEF RouteInv
<1>6. CASE UNCHANGED vars
  BY <1>6 DEF vars, RouteInv
<1>7. Step => pc \in WorkPoints \/ Publish \/ Return
  <2>1. Prepare \/ RunTasks \/ RunFinalChecks => pc \in WorkPoints
    BY DEF Prepare, RunTasks, RunFinalChecks, WorkPoints
  <2>2. RepairReview \/ CheckPromotion => pc \in WorkPoints
    BY DEF RepairReview, CheckPromotion, WorkPoints
  <2>3. ApplyPatch \/ Gate => pc \in WorkPoints
    BY DEF ApplyPatch, Gate, WorkPoints
  <2>4. GuardAndSeal => pc = "guard"
    BY Zenon DEF GuardAndSeal
  <2>5. Review => pc = "review"
    BY Zenon DEF Review
  <2>. QED  BY <2>1, <2>2, <2>3, <2>4, <2>5 DEF Step, WorkPoints
<1>. QED  BY <1>1, <1>2, <1>3, <1>4, <1>5, <1>6, <1>7 DEF Next, Ended

LEMMA FewerPoints ==
  ASSUME NEW p \in Nat, NEW q \in Nat, q < p, NEW o \in Nat, NEW u \in Nat, u <= o
  PROVE  2 * q + u < 2 * p + o
OBVIOUS

(* However a run is repaired, halted, killed or edited under, each of its  *)
(* steps leaves it fewer to make, and it makes at most 41: neither the     *)
(* review cycles nor the error records that replace records go on for ever *)
(* (_final_verification_and_review, run and its except clauses).           *)
THEOREM RunEndsSoon ==
  Spec => [](StepsLeft \in 0..41) /\ [][StepsLeft' < StepsLeft]_vars
<1>1. Init => RouteInv
  BY DEF Init, RouteInv
<1>2. TypeOK /\ RouteInv /\ [Next]_vars => RouteInv'
  BY PointsMove
<1>3. TypeOK /\ RouteInv => StepsLeft \in 0..41
  BY PointsTyped DEF StepsLeft
<1>4. TypeOK /\ RouteInv /\ [Next]_vars => [StepsLeft' < StepsLeft]_vars
  <2> SUFFICES ASSUME TypeOK, RouteInv, [Next]_vars PROVE StepsLeft' < StepsLeft \/ UNCHANGED vars
    OBVIOUS
  <2>1. Owner \in original => Owner \in original'
    BY OwnerStays
  <2>2. PointsLeft \in Nat
    BY PointsTyped
  <2>3. CASE PointsLeft' = PointsLeft /\ Owner \notin original /\ Owner \in original'
    BY <2>2, <2>3 DEF StepsLeft
  <2>4. CASE PointsLeft' \in Nat /\ PointsLeft' < PointsLeft
    <3>. DEFINE own == IF Owner \in original THEN 0 ELSE 1
                later == IF Owner \in original' THEN 0 ELSE 1
    <3>1. own \in Nat /\ later \in Nat /\ later <= own
      BY <2>1
    <3>2. StepsLeft = 2 * PointsLeft + own /\ StepsLeft' = 2 * PointsLeft' + later
      BY DEF StepsLeft
    <3>. HIDE DEF own, later
    <3>3. 2 * PointsLeft' + later < 2 * PointsLeft + own
      BY <2>2, <2>4, <3>1, FewerPoints
    <3>. QED  BY <3>2, <3>3
  <2>. QED  BY <2>3, <2>4, PointsMove
<1>5. Init /\ [][Next]_vars /\ []TypeOK => []RouteInv
  BY <1>1, <1>2, PTL
<1>. QED  BY <1>3, <1>4, <1>5, DeliveryTypes, PTL DEF Spec
=============================================================================
