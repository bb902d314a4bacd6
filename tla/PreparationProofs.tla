------------------------- MODULE PreparationProofs --------------------------
(***************************************************************************)
(* Proofs about the preparation of a run, for every request, every answer  *)
(* of a classifier, every plan, catalog and edit of the owner: a risky run *)
(* is reviewed, no listed requirement is lost, the authority is frozen.    *)
(***************************************************************************)
EXTENDS Preparation, WellFoundedInduction, TLAPS

Early    == {"gate", "preflight", "capability", "classify", "ground", "compile", "freeze"}
Accepted == {"contract", "blueprint", "tasks", "implement"}

-----------------------------------------------------------------------------
(* Facts about the operators.                                              *)

(* A critical path, and a risky request no override touches, gives a       *)
(* decision with a planner and a reviewer at the highest strategy.         *)
LEMMA RiskyDecision ==
  ASSUME NEW text, NEW override, NEW s, NEW g, NEW m,
         s.critical \/ (override = None /\ StrategyOf(text, g) = "HIGH_RISK_ENGINEERING")
  PROVE  LET d == ForMode(ClassifyRequest(text, override, s, g), m)
         IN  d.strategy = "HIGH_RISK_ENGINEERING" /\ d.planner /\ d.reviewer
<1> DEFINE strategy == IF override \in Strategies THEN override ELSE StrategyOf(text, g)
           first == DecisionFor(strategy, text)
           d == ApplyRepositorySignals(first, s)
<1>1. first \in [strategy : {strategy}, tier : {TierFor(strategy, Score(text))},
                 planner : BOOLEAN, reviewer : BOOLEAN, explorer : BOOLEAN, context : BOOLEAN]
  BY DEF DecisionFor
<1>2. d.strategy = "HIGH_RISK_ENGINEERING" /\ d.planner /\ d.reviewer
  <2>1. CASE s.critical
    BY <1>1, <2>1 DEF ApplyRepositorySignals, SignalTier, Heavy
  <2>2. CASE ~s.critical
    <3>1. strategy = "HIGH_RISK_ENGINEERING"
      BY <2>2 DEF None, Strategies
    <3>2. first.tier = "T3" /\ first.planner /\ first.reviewer /\ first.strategy = strategy
      BY <3>1 DEF DecisionFor, TierFor
    <3>3. SignalTier(first, s) \in {"same", "T3"}
      BY <2>2, <3>2 DEF SignalTier
    <3>. QED  BY <1>1, <3>1, <3>2, <3>3 DEF ApplyRepositorySignals, Heavy
  <2>. QED  BY <2>1, <2>2
<1>3. ClassifyRequest(text, override, s, g) = d
  BY DEF ClassifyRequest
<1>4. ForMode(d, m) = d
  BY <1>2 DEF ForMode
<1>. QED  BY <1>2, <1>3, <1>4

(* Every listed clause becomes a criterion of the intent contract.         *)
LEMMA ListedIsCriterion ==
  ASSUME NEW r, NEW i \in DOMAIN r, r[i].listed
  PROVE  r[i].text \in CompileIntent(r).criteria
<1>1. CASE i = Objective(r)
  BY <1>1 DEF CompileIntent
<1>2. CASE i # Objective(r)
  BY <1>2 DEF CompileIntent, Others, IsCriterion
<1>. QED  BY <1>1, <1>2

(* A brief that compiles while the compiler is active is the reconciled    *)
(* one and has the criteria of the intent contract.                        *)
LEMMA ActiveBrief ==
  ASSUME NEW i, NEW targets, NEW sound,
         CompileBrief(i, targets, sound, TRUE) # NoBrief
  PROVE  /\ CompileBrief(i, targets, sound, TRUE).kind = "EXECUTION_BRIEF"
         /\ CompileBrief(i, targets, sound, TRUE).criteria = i.criteria
BY DEF CompileBrief, Proposal, ShadowBrief

-----------------------------------------------------------------------------
(* Types.                                                                  *)

(* A classification gives a decision with known values, and never a light  *)
(* T0 run with a reviewer: the profiles Delivery starts from.              *)
Profiled(d) ==
  d \in Decisions /\ (d.tier = "T0" => d.strategy = "DIRECT_VERIFIED_CHANGE" /\ ~d.reviewer)

LEMMA DecisionProfiled ==
  ASSUME NEW strategy \in Strategies, NEW text \in Texts
  PROVE  Profiled(DecisionFor(strategy, text))
<1> DEFINE d == DecisionFor(strategy, text)
           tier == TierFor(strategy, Score(text))
<1>1. tier \in Tiers
  BY DEF TierFor, Tiers
<1>2. /\ d.strategy = strategy /\ d.tier = tier
      /\ {d.planner, d.reviewer, d.explorer, d.context} \subseteq BOOLEAN
      /\ d \in Decisions
  BY <1>1 DEF DecisionFor, Decisions, Heavy
<1>3. tier = "T0" => strategy = "DIRECT_VERIFIED_CHANGE"
  BY DEF TierFor
<1>4. strategy = "DIRECT_VERIFIED_CHANGE" => ~d.reviewer
  BY DEF DecisionFor
<1>. QED  BY <1>2, <1>3, <1>4 DEF Profiled

LEMMA SignalsProfiled ==
  ASSUME NEW d, Profiled(d), NEW s
  PROVE  Profiled(ApplyRepositorySignals(d, s))
<1> DEFINE tier == SignalTier(d, s)
<1>1. tier \in Tiers \cup {"same"} /\ tier # "T0"
  BY DEF SignalTier, Profiled, Decisions, Tiers
<1>2. CASE tier = "same"
  BY <1>2 DEF ApplyRepositorySignals
<1>3. CASE tier # "same"
  <2> DEFINE new == ApplyRepositorySignals(d, s)
             strategy == IF tier = "T3" THEN "HIGH_RISK_ENGINEERING" ELSE "PLANNED_IMPLEMENTATION"
             explorer == tier = "T3" \/ (s.untested /\ tier = "T2")
  <2>1. new = [d EXCEPT !.tier = tier, !.strategy = strategy, !.planner = Heavy(tier),
                        !.reviewer = Heavy(tier), !.explorer = explorer]
    BY <1>3 DEF ApplyRepositorySignals
  <2>2. strategy \in Strategies /\ Heavy(tier) \in BOOLEAN /\ explorer \in BOOLEAN
    BY DEF Strategies, Heavy
  <2>3. d \in Decisions /\ tier \in Tiers
    BY <1>1, <1>3 DEF Profiled
  <2>. HIDE DEF tier, strategy, explorer
  <2>4. new \in Decisions /\ new.tier = tier
    BY <2>1, <2>2, <2>3 DEF Decisions
  <2>. QED  BY <1>1, <2>4 DEF Profiled
<1>. QED  BY <1>2, <1>3

LEMMA ModeProfiled ==
  ASSUME NEW d, Profiled(d), NEW m
  PROVE  Profiled(ForMode(d, m))
BY DEF ForMode, Profiled, Decisions

LEMMA ClassifyProfiled ==
  ASSUME NEW text \in Texts, NEW override, NEW s, NEW g, NEW m
  PROVE  Profiled(ForMode(ClassifyRequest(text, override, s, g), m))
<1> DEFINE strategy == IF override \in Strategies THEN override ELSE StrategyOf(text, g)
<1>1. strategy \in Strategies
  BY DEF StrategyOf, Strategies
<1>2. Profiled(ApplyRepositorySignals(DecisionFor(strategy, text), s))
  BY <1>1, DecisionProfiled, SignalsProfiled
<1>. QED  BY <1>2, ModeProfiled DEF ClassifyRequest

LEMMA GateKnown ==
  ASSUME NEW a \in Answers
  PROVE  GateOf(a) \in Gates
BY PreparationAssumption DEF GateOf, Field, Gates, Kinds, Clarities, Authorities

LEMMA EvaluatedKnown == Evaluated \subseteq Gates
<1>1. Fallback \in Gates
  BY DEF Fallback, Gates, Kinds, Clarities, Authorities
<1>. QED  BY <1>1, GateKnown DEF Evaluated

LEMMA NextTypeOK == TypeOK /\ [Next]_vars => TypeOK'
<1> SUFFICES ASSUME TypeOK, [Next]_vars PROVE TypeOK'
  OBVIOUS
<1> USE DEF TypeOK, Roles, None
<1>1. CASE IntentGate
  <2>1. /\ tree' \in {tree, tree \cup {Classifier}} /\ gate' \in Gates \cup {NoGate}
        /\ pc' \in {"preflight", "stopped"}
        /\ verdict' \in {verdict, "NEEDS_INPUT", "SYSTEM_ERROR"}
    BY <1>1, EvaluatedKnown DEF IntentGate, Go, Stop, intentVars
  <2>2. UNCHANGED <<askVars, baseline, strategyVars, planVars, roleVars, taskVars>>
    BY <1>1 DEF IntentGate
  <2>. QED  BY <2>1, <2>2 DEF askVars, strategyVars, planVars, roleVars, taskVars
<1>2. CASE Preflight
  BY <1>2 DEF Preflight, Go, Stop, askVars, intentVars, strategyVars, planVars, roleVars,
              taskVars
<1>3. CASE Probe
  BY <1>3 DEF Probe, Go, Stop, askVars, intentVars, strategyVars, planVars, roleVars, taskVars
<1>4. CASE Classify
  <2>1. /\ pc' \in {"ground", "stopped"} /\ verdict' \in {verdict, "NEEDS_INPUT", "SYSTEM_ERROR"}
        /\ UNCHANGED <<askVars, intentVars, tree, baseline, planVars, roleVars, taskVars>>
    BY <1>4 DEF Classify, Go, Stop
  <2>2. decision' \in Decisions \cup {NoDecision} /\ risky' \in BOOLEAN
    <3>1. CASE UNCHANGED strategyVars
      BY <3>1 DEF strategyVars
    <3>2. CASE ~UNCHANGED strategyVars
      <4>1. PICK text \in Wordings, s \in Facts, override \in Strategies \cup {None} :
              /\ decision' = ForMode(ClassifyRequest(text, override, s, gate), mode)
              /\ risky' = \/ s.critical
                          \/ /\ override = None
                             /\ StrategyOf(text, gate) = "HIGH_RISK_ENGINEERING"
        BY <1>4, <3>2 DEF Classify
      <4>2. text \in Texts /\ s.critical \in BOOLEAN
        BY PreparationAssumption DEF Signals
      <4>. QED  BY <4>1, <4>2, ClassifyProfiled DEF Profiled
    <3>. QED  BY <3>1, <3>2
  <2>. QED  BY <2>1, <2>2 DEF askVars, intentVars, planVars, roleVars, taskVars
<1>5. CASE Ground
  BY <1>5 DEF Ground, Go, askVars, intentVars, strategyVars, roleVars, taskVars
<1>6. CASE Compile
  <2>. pc' \in {"freeze", "stopped"} /\ verdict' \in {verdict, "BLOCKED"}
    BY <1>6 DEF Compile, Go, Stop
  <2>. QED  BY <1>6 DEF Compile, askVars, intentVars, strategyVars, roleVars, taskVars
<1>7. CASE Freeze
  <2>. pc' \in Roles /\ UNCHANGED verdict /\ frozen'.inputs = tree
    BY <1>7 DEF Freeze, Go, BaselinePlan, Compiled
  <2>. QED  BY <1>7 DEF Freeze, askVars, intentVars, strategyVars, roleVars, taskVars
<1>8. CASE StartRole
  BY <1>8 DEF StartRole, Go, Stop, askVars, intentVars, strategyVars, planVars, roleVars,
              taskVars
<1>9. CASE EndRole
  <2>1. /\ tree' \in {tree, tree \cup {Leak}} /\ before' = NoSnapshot /\ UNCHANGED called
        /\ UNCHANGED <<askVars, intentVars, baseline, strategyVars, planVars>>
    BY <1>9 DEF EndRole
  <2>2. /\ pc' \in {"planner_deep", "reviewer_deep", "contract", "stopped"}
        /\ verdict' \in {verdict, "FAILED", "NEEDS_INPUT", "BLOCKED", "SYSTEM_ERROR"}
        /\ approved' \in BOOLEAN
    <3>1. CASE UNCHANGED taskVars /\ \E v \in {"FAILED", "NEEDS_INPUT", "BLOCKED", "SYSTEM_ERROR"} :
                                       Stop(v)
      BY <3>1 DEF Stop, taskVars
    <3>2. CASE Explored
      BY <3>2 DEF Explored, Go, taskVars
    <3>3. CASE \E p \in Plans : Planned(p)
      BY <3>3 DEF Planned, PlanFault, Go, Stop, taskVars
    <3>4. CASE \E a \in {"APPROVED", "refused", "malformed"} : Reviewed(a)
      BY <3>4 DEF Reviewed, Go, Stop
    <3>. QED  BY <1>9, <3>1, <3>2, <3>3, <3>4 DEF EndRole, Answered
  <2>. QED  BY <2>1, <2>2 DEF askVars, intentVars, strategyVars, planVars
<1>10. CASE Contract
  <2>. plan'.inputs = frozen.inputs
    BY <1>10 DEF Contract, TaskPlan, Compiled
  <2>. QED  BY <1>10 DEF Contract, Go, askVars, intentVars, strategyVars, roleVars, taskVars
<1>11. CASE Blueprint
  BY <1>11 DEF Blueprint, Go, Stop, askVars, intentVars, strategyVars, planVars, roleVars,
               taskVars
<1>12. CASE ExecuteTasks
  BY <1>12 DEF ExecuteTasks, Go, askVars, intentVars, strategyVars, planVars, taskVars
<1>13. CASE Raise
  BY <1>13 DEF Raise, Stop, askVars, intentVars, strategyVars, planVars, roleVars, taskVars
<1>14. CASE OwnerWorks
  BY <1>14 DEF OwnerWorks, askVars, intentVars, strategyVars, planVars, roleVars, taskVars
<1>15. CASE Ended \/ UNCHANGED vars
  BY <1>15 DEF Ended, vars, askVars, intentVars, strategyVars, planVars, roleVars, taskVars
<1>. QED  BY <1>1, <1>2, <1>3, <1>4, <1>5, <1>6, <1>7, <1>8, <1>9, <1>10, <1>11, <1>12,
             <1>13, <1>14, <1>15 DEF Next, Step

LEMMA InitTypeOK == Init => TypeOK
<1> SUFFICES ASSUME Init PROVE TypeOK
  OBVIOUS
<1>1. NoPlan.inputs = {} /\ NoSnapshot \ NoSnapshot = {}
  BY DEF NoPlan
<1>2. {tree, baseline \ NoSnapshot, before \ NoSnapshot, frozen.inputs, plan.inputs}
        \subseteq SUBSET (OwnerChanges \cup {Classifier, Leak})
  BY <1>1 DEF Init
<1>. QED  BY <1>2 DEF Init, TypeOK, None

(* Every variable of the preparation keeps its type: whatever a classifier *)
(* answers, gate and decision have known values, and no tree, snapshot or  *)
(* evaluator input holds anything but edits of the owner, the classifier   *)
(* and a role that misbehaved.                                             *)
THEOREM PreparationTypes == Spec => []TypeOK
BY InitTypeOK, NextTypeOK, PTL DEF Spec

-----------------------------------------------------------------------------
(* Induction and folds.                                                    *)

(* A set of numbers with zero and every successor holds all of them.       *)
LEMMA Induction ==
  ASSUME NEW S, 0 \in S, \A n \in Nat : n \in S => n + 1 \in S
  PROVE  Nat \subseteq S
<1> DEFINE less == { p \in Nat \X Nat : p[1] < p[2] }
<1>1. IsWellFoundedOn(less, Nat)
  BY NatLessThanWellFounded DEF OpToRel
<1>2. ASSUME Nat \ S # {} PROVE FALSE
  <2>1. PICK m \in Nat \ S : \A n \in Nat \ S : <<n, m>> \notin less
    <3>1. Nat \ S \subseteq Nat
      OBVIOUS
    <3>. HIDE DEF less
    <3>. QED  BY <1>1, <1>2, <3>1, WFMin
  <2>2. m # 0 /\ m - 1 \in Nat
    BY <2>1
  <2>3. <<m - 1, m>> \in less
    BY <2>2
  <2>4. m - 1 \in S
    BY <2>1, <2>2, <2>3
  <2>. QED  BY <2>1, <2>2, <2>4
<1>. QED  BY <1>2

(* A set of positions of a sequence has a last one.                        *)
LEMMA MaxOf ==
  ASSUME NEW N \in Nat, NEW s \in SUBSET (1..N), s # {}
  PROVE  Max(s) \in s /\ \A x \in s : Max(s) >= x
<1> DEFINE S == { n \in Nat : \A t \in SUBSET (1..n) : t # {} => \E x \in t : \A y \in t : x >= y }
<1>1. 0 \in S
  <2>. 1..0 = {}
    OBVIOUS
  <2>. QED  OBVIOUS
<1>2. ASSUME NEW n \in Nat, n \in S PROVE n + 1 \in S
  <2> SUFFICES ASSUME NEW t \in SUBSET (1..(n + 1)), t # {}
               PROVE  \E x \in t : \A y \in t : x >= y
    OBVIOUS
  <2>1. CASE n + 1 \in t
    BY <2>1
  <2>2. CASE n + 1 \notin t
    <3>1. t \in SUBSET (1..n)
      BY <2>2
    <3>. QED  BY <1>2, <3>1
  <2>. QED  BY <2>1, <2>2
<1>3. N \in S
  <2>. HIDE DEF S
  <2>. QED  BY <1>1, <1>2, Induction
<1>4. \E x \in s : \A y \in s : x >= y
  BY <1>3
<1>. QED  BY <1>4 DEF Max

LEMMA MaxIsLast ==
  ASSUME NEW n \in Nat, NEW s \in SUBSET (1..(n + 1)), n + 1 \in s
  PROVE  Max(s) = n + 1 /\ s \ {n + 1} \in SUBSET (1..n)
<1>1. n + 1 \in Nat /\ s # {}
  OBVIOUS
<1>2. Max(s) \in s /\ \A x \in s : Max(s) >= x
  BY <1>1, MaxOf
<1>3. Max(s) \in 1..(n + 1) /\ Max(s) >= n + 1
  BY <1>2
<1>4. s \ {n + 1} \in SUBSET (1..n)
  OBVIOUS
<1>. QED  BY <1>3, <1>4

LEMMA NotLast ==
  ASSUME NEW n \in Nat, NEW s \in SUBSET (1..(n + 1)), n + 1 \notin s
  PROVE  s \in SUBSET (1..n)
OBVIOUS

\* Induction over the sets a fold runs through.
LEMMA PrefixInduction ==
  ASSUME NEW N \in Nat, NEW T, {} \in T,
         \A s \in SUBSET (1..N) : s # {} /\ s \ {Max(s)} \in T => s \in T
  PROVE  SUBSET (1..N) \subseteq T
<1> DEFINE S == { n \in Nat : n <= N => SUBSET (1..n) \subseteq T }
<1>1. 0 \in S
  <2>1. 1..0 = {} /\ SUBSET {} = {{}}
    OBVIOUS
  <2>2. SUBSET (1..0) \subseteq T
    BY <2>1
  <2>. QED  BY <2>2
<1>2. ASSUME NEW n \in Nat, n \in S PROVE n + 1 \in S
  <2> SUFFICES ASSUME n + 1 <= N, NEW t \in SUBSET (1..(n + 1)) PROVE t \in T
    OBVIOUS
  <2>0. SUBSET (1..n) \subseteq T
    BY <1>2
  <2>1. CASE n + 1 \in t
    <3>1. t \in SUBSET (1..N) /\ t # {}
      BY <2>1
    <3>2. t \ {Max(t)} \in SUBSET (1..n)
      BY <2>1, MaxIsLast
    <3>. QED  BY <2>0, <3>1, <3>2
  <2>2. CASE n + 1 \notin t
    BY <2>0, <2>2, NotLast
  <2>. QED  BY <2>1, <2>2
<1>3. N \in S
  <2>. HIDE DEF S
  <2>. QED  BY <1>1, <1>2, Induction
<1>. QED  BY <1>3

\* A fold of a step function over the indices 1..N exists and stays in V.
Folded(f, N, base, step) ==
  f = [s \in SUBSET (1..N) |-> IF s = {} THEN base ELSE step[<<Max(s), f[s \ {Max(s)}]>>]]

LEMMA FoldExists ==
  ASSUME NEW N \in Nat, NEW V, NEW base \in V, NEW step \in [(1..N) \X V -> V]
  PROVE  \E f \in [SUBSET (1..N) -> V] : Folded(f, N, base, step)
<1> DEFINE Upto(f, n) == /\ f \in [SUBSET (1..n) -> V] /\ f[{}] = base
                         /\ \A s \in SUBSET (1..n) :
                              s # {} => f[s] = step[<<Max(s), f[s \ {Max(s)}]>>]
           S == { n \in Nat : n <= N => \E f : Upto(f, n) }
<1>1. 0 \in S
  <2>0. 1..0 = {}
    OBVIOUS
  <2>1. Upto([s \in SUBSET (1..0) |-> base], 0)
    BY <2>0
  <2>. QED  BY <2>1
<1>2. ASSUME NEW n \in Nat, n \in S PROVE n + 1 \in S
  <2> SUFFICES ASSUME n + 1 <= N PROVE \E f : Upto(f, n + 1)
    <3>. HIDE DEF Upto
    <3>. QED  OBVIOUS
  <2>0. n <= N
    OBVIOUS
  <2>1. PICK f : Upto(f, n)
    BY <1>2, <2>0
  <2> DEFINE g == [s \in SUBSET (1..(n + 1)) |->
                     IF n + 1 \in s THEN step[<<n + 1, f[s \ {n + 1}]>>] ELSE f[s]]
  <2>2. n + 1 \in 1..N /\ f \in [SUBSET (1..n) -> V]
    BY <2>1
  <2>3. ASSUME NEW s \in SUBSET (1..(n + 1)) PROVE g[s] \in V
    <3>1. CASE n + 1 \in s
      BY <2>2, <3>1, MaxIsLast
    <3>2. CASE n + 1 \notin s
      BY <2>2, <3>2, NotLast
    <3>. QED  BY <3>1, <3>2
  <2>4. g[{}] = base
    BY <2>1
  <2>5. ASSUME NEW s \in SUBSET (1..(n + 1)), s # {}
        PROVE  g[s] = step[<<Max(s), g[s \ {Max(s)}]>>]
    <3>1. CASE n + 1 \in s
      <4>1. Max(s) = n + 1
        BY <3>1, MaxIsLast
      <4>2. s \ {n + 1} \in SUBSET (1..(n + 1)) /\ n + 1 \notin s \ {n + 1}
        OBVIOUS
      <4>3. g[s \ {n + 1}] = f[s \ {n + 1}]
        BY <4>2
      <4>. QED  BY <3>1, <4>1, <4>3
    <3>2. CASE n + 1 \notin s
      <4>1. s \in SUBSET (1..n) /\ s \ {Max(s)} \in SUBSET (1..n)
        BY <3>2, NotLast
      <4>2. g[s] = f[s] /\ g[s \ {Max(s)}] = f[s \ {Max(s)}]
        BY <3>2, <4>1
      <4>. QED  BY <2>1, <2>5, <4>1, <4>2
    <3>. QED  BY <3>1, <3>2
  <2>6. g \in [SUBSET (1..(n + 1)) -> V]
    BY <2>3
  <2>7. Upto(g, n + 1)
    <3>. HIDE DEF g
    <3>. QED  BY <2>4, <2>5, <2>6
  <2>. HIDE DEF Upto
  <2>. QED  BY <2>7
<1>3. N \in S
  <2>. HIDE DEF S
  <2>. QED  BY <1>1, <1>2, Induction
<1>4. PICK f : Upto(f, N)
  <2>. HIDE DEF Upto
  <2>. QED  BY <1>3
<1>5. f = [s \in SUBSET (1..N) |-> f[s]]
  BY <1>4
<1>6. Folded(f, N, base, step)
  <2>1. \A s \in SUBSET (1..N) : f[s] = IF s = {} THEN base ELSE step[<<Max(s), f[s \ {Max(s)}]>>]
    BY <1>4
  <2>. QED  BY <1>5, <2>1 DEF Folded
<1>. QED  BY <1>4, <1>6

\* What a fold from left to right of a sequence keeps.
LEMMA FoldsAgree ==
  ASSUME NEW N \in Nat, NEW M \in Nat, N <= M, NEW f, NEW g,
         f[{}] = g[{}],
         \A s \in SUBSET (1..N) : s # {} /\ f[s \ {Max(s)}] = g[s \ {Max(s)}] => f[s] = g[s]
  PROVE  f[1..N] = g[1..N]
<1> DEFINE T == { s \in SUBSET (1..N) : f[s] = g[s] }
<1>1. {} \in T
  OBVIOUS
<1>2. \A s \in SUBSET (1..N) : s # {} /\ s \ {Max(s)} \in T => s \in T
  OBVIOUS
<1>3. SUBSET (1..N) \subseteq T
  <2>. HIDE DEF T
  <2>. QED  BY <1>1, <1>2, PrefixInduction
<1>4. 1..N \in T
  BY <1>3
<1>. QED  BY <1>4

LEMMA FoldStays ==
  ASSUME NEW N \in Nat, NEW V, NEW f, f[{}] \in V,
         \A s \in SUBSET (1..N) : s # {} /\ f[s \ {Max(s)}] \in V => f[s] \in V
  PROVE  \A s \in SUBSET (1..N) : f[s] \in V
<1> DEFINE T == { s \in SUBSET (1..N) : f[s] \in V }
<1>1. {} \in T
  OBVIOUS
<1>2. \A s \in SUBSET (1..N) : s # {} /\ s \ {Max(s)} \in T => s \in T
  OBVIOUS
<1>3. SUBSET (1..N) \subseteq T
  <2>. HIDE DEF T
  <2>. QED  BY <1>1, <1>2, PrefixInduction
<1>. QED  BY <1>3

-----------------------------------------------------------------------------
(* What a resolution of skills costs.                                      *)

(* The cost is the fold it is defined as.                                  *)
LEMMA CostFold ==
  ASSUME NEW loaded \in Seq(SkillContracts)
  PROVE  \E f \in [SUBSET (1..Len(loaded)) -> Int] :
           /\ Cost(loaded) = f[1..Len(loaded)] /\ f[{}] = 0
           /\ \A s \in SUBSET (1..Len(loaded)) :
                s # {} => f[s] = f[s \ {Max(s)}] + loaded[Max(s)].cost
<1> DEFINE N == Len(loaded)
           P(f) == f = [s \in SUBSET DOMAIN loaded |->
                          IF s = {} THEN 0 ELSE f[s \ {Max(s)}] + loaded[Max(s)].cost]
           iter == CHOOSE f : P(f)
           step == [p \in (1..N) \X Int |-> p[2] + loaded[p[1]].cost]
<1>1. Cost(loaded) = iter[DOMAIN loaded]
  BY DEF Cost, FoldLeft, MapThenFoldSet
<1>2. /\ N \in Nat /\ DOMAIN loaded = 1..N /\ 0 \in Int
      /\ \A i \in 1..N : loaded[i].cost \in Int
  <2>1. N \in Nat /\ DOMAIN loaded = 1..N /\ \A i \in 1..N : loaded[i] \in SkillContracts
    OBVIOUS
  <2>. HIDE DEF N
  <2>. QED  BY <2>1 DEF SkillContracts
<1>3. step \in [(1..N) \X Int -> Int]
  BY <1>2
<1>4. PICK g \in [SUBSET (1..N) -> Int] : Folded(g, N, 0, step)
  <2>. HIDE DEF step, N
  <2>. QED  BY <1>2, <1>3, FoldExists
<1>5. P(g)
  <2>1. ASSUME NEW s \in SUBSET (1..N), s # {}
        PROVE  step[<<Max(s), g[s \ {Max(s)}]>>] = g[s \ {Max(s)}] + loaded[Max(s)].cost
    <3>1. Max(s) \in 1..N /\ g[s \ {Max(s)}] \in Int
      BY <1>2, <1>4, <2>1, MaxOf
    <3>. QED  BY <3>1
  <2>2. [s \in SUBSET (1..N) |-> IF s = {} THEN 0 ELSE step[<<Max(s), g[s \ {Max(s)}]>>]]
          = [s \in SUBSET (1..N) |-> IF s = {} THEN 0 ELSE g[s \ {Max(s)}] + loaded[Max(s)].cost]
    <3>. HIDE DEF step, N
    <3>. QED  BY <2>1
  <2>. HIDE DEF step, N
  <2>. QED  BY <1>2, <1>4, <2>2 DEF Folded
<1>6. P(iter)
  <2>. HIDE DEF P
  <2>. QED  BY <1>5
<1>. HIDE DEF iter, N
<1>7. /\ iter = [s \in SUBSET (1..N) |-> iter[s]] /\ iter[{}] = 0
      /\ \A s \in SUBSET (1..N) : s # {} => iter[s] = iter[s \ {Max(s)}] + loaded[Max(s)].cost
  BY <1>2, <1>6
<1>8. \A s \in SUBSET (1..N) : iter[s] \in Int
  <2>1. ASSUME NEW s \in SUBSET (1..N), s # {} /\ iter[s \ {Max(s)}] \in Int
        PROVE  iter[s] \in Int
    <3>1. Max(s) \in 1..N
      BY <1>2, <2>1, MaxOf
    <3>2. iter[s] = iter[s \ {Max(s)}] + loaded[Max(s)].cost
      BY <1>7, <2>1
    <3>. QED  BY <1>2, <2>1, <3>1, <3>2
  <2>. QED  BY <1>2, <1>7, <2>1, FoldStays
<1>9. iter \in [SUBSET (1..N) -> Int]
  BY <1>7, <1>8
<1>. QED  BY <1>1, <1>2, <1>7, <1>9 DEF N

LEMMA CostType == ASSUME NEW loaded \in Seq(SkillContracts) PROVE Cost(loaded) \in Int
<1>1. PICK f \in [SUBSET (1..Len(loaded)) -> Int] : Cost(loaded) = f[1..Len(loaded)]
  BY CostFold
<1>2. 1..Len(loaded) \in SUBSET (1..Len(loaded))
  OBVIOUS
<1>. QED  BY <1>1, <1>2

LEMMA CostOfNone == Cost(<<>>) = 0
<1>1. <<>> \in Seq(SkillContracts) /\ Len(<<>>) = 0 /\ 1..0 = {}
  OBVIOUS
<1>. QED  BY <1>1, CostFold

LEMMA CostOfAppend ==
  ASSUME NEW loaded \in Seq(SkillContracts), NEW skill \in SkillContracts
  PROVE  /\ Cost(loaded) \in Int
         /\ Cost(Append(loaded, skill)) = Cost(loaded) + skill.cost
<1> DEFINE N == Len(loaded)
           more == Append(loaded, skill)
           M == Len(more)
<1>0. /\ N \in Nat /\ M \in Nat /\ M = N + 1 /\ more \in Seq(SkillContracts)
      /\ more[M] = skill /\ \A i \in 1..N : more[i] = loaded[i]
  OBVIOUS
<1>1. PICK f \in [SUBSET (1..N) -> Int] :
        /\ Cost(loaded) = f[1..N] /\ f[{}] = 0
        /\ \A s \in SUBSET (1..N) : s # {} => f[s] = f[s \ {Max(s)}] + loaded[Max(s)].cost
  BY CostFold
<1>2. PICK g \in [SUBSET (1..M) -> Int] :
        /\ Cost(more) = g[1..M] /\ g[{}] = 0
        /\ \A s \in SUBSET (1..M) : s # {} => g[s] = g[s \ {Max(s)}] + more[Max(s)].cost
  <2>. HIDE DEF more
  <2>. QED  BY <1>0, CostFold
<1>. HIDE DEF more, N, M
<1>3. f[1..N] = g[1..N]
  <2>1. ASSUME NEW s \in SUBSET (1..N), s # {} /\ f[s \ {Max(s)}] = g[s \ {Max(s)}]
        PROVE  f[s] = g[s]
    <3>1. Max(s) \in 1..N
      BY <1>0, <2>1, MaxOf
    <3>2. s \in SUBSET (1..M)
      BY <1>0
    <3>3. f[s] = f[s \ {Max(s)}] + loaded[Max(s)].cost
      BY <1>1, <2>1
    <3>4. g[s] = g[s \ {Max(s)}] + more[Max(s)].cost
      BY <1>2, <2>1, <3>2
    <3>. QED  BY <1>0, <2>1, <3>1, <3>3, <3>4
  <2>2. f[{}] = g[{}] /\ N <= M
    BY <1>0, <1>1, <1>2
  <2>. QED  BY <1>0, <2>1, <2>2, FoldsAgree
<1>4. g[1..M] = g[1..N] + skill.cost
  <2>1. Max(1..M) = M
    BY <1>0, MaxIsLast
  <2>2. (1..M) \ {M} = 1..N
    BY <1>0
  <2>3. 1..M # {} /\ 1..M \in SUBSET (1..M)
    <3>1. M \in 1..M
      BY <1>0
    <3>. QED  BY <3>1
  <2>4. g[1..M] = g[(1..M) \ {Max(1..M)}] + more[Max(1..M)].cost
    BY <1>2, <2>3
  <2>. QED  BY <1>0, <2>1, <2>2, <2>4
<1>5. Cost(loaded) \in Int
  BY <1>0, <1>1
<1>. QED  BY <1>1, <1>2, <1>3, <1>4, <1>5 DEF more

\* The skills of a tier, and the choices of them that cost no more than room.
OfTier(tier)         == { x \in SkillContracts : tier \in x.tiers }
Affordable(tier, room) == { c \in Seq(OfTier(tier)) : Cost(c) <= room }

LEMMA OneMoreFits ==
  ASSUME NEW tier, NEW room, NEW chosen \in Affordable(tier, room), NEW x \in OfTier(tier),
         Fits(chosen, x, room)
  PROVE  Append(chosen, x) \in Affordable(tier, room)
<1>1. chosen \in Seq(SkillContracts) /\ x \in SkillContracts
  BY DEF Affordable, OfTier
<1>2. Append(chosen, x) \in Seq(OfTier(tier))
  BY DEF Affordable
<1>. QED  BY <1>1, <1>2, CostOfAppend DEF Affordable, Fits

LEMMA ResolveAffordable ==
  ASSUME NEW available \in Seq(SkillContracts), NEW kind, NEW tier, NEW task, NEW room \in Nat
  PROVE  Resolve(available, kind, tier, task, room) \in Affordable(tier, room)
<1> DEFINE N == Len(available)
           V == Affordable(tier, room)
           op(c, x) == IF x.kind = kind /\ Eligible(x, tier, task) /\ Fits(c, x, room)
                       THEN Append(c, x) ELSE c
           P(f) == f = [s \in SUBSET DOMAIN available |->
                          IF s = {} THEN <<>> ELSE op(f[s \ {Max(s)}], available[Max(s)])]
           iter == CHOOSE f : P(f)
           step == [p \in (1..N) \X V |-> op(p[2], available[p[1]])]
<1>1. Resolve(available, kind, tier, task, room) = iter[DOMAIN available]
  BY DEF Resolve, FoldLeft, MapThenFoldSet
<1>2. N \in Nat /\ DOMAIN available = 1..N /\ \A i \in 1..N : available[i] \in SkillContracts
  OBVIOUS
<1>3. <<>> \in V
  BY CostOfNone DEF Affordable
<1>4. ASSUME NEW c \in V, NEW i \in 1..N PROVE op(c, available[i]) \in V
  <2>1. Eligible(available[i], tier, task) => available[i] \in OfTier(tier)
    BY <1>2 DEF Eligible, OfTier
  <2>. HIDE DEF V
  <2>. QED  BY <2>1, OneMoreFits DEF V
<1>5. step \in [(1..N) \X V -> V]
  <2>. HIDE DEF op, V
  <2>. QED  BY <1>4
<1>. HIDE DEF V, op, N
<1>6. PICK g \in [SUBSET (1..N) -> V] : Folded(g, N, <<>>, step)
  <2>. HIDE DEF step
  <2>. QED  BY <1>2, <1>3, <1>5, FoldExists
<1>7. P(g)
  <2>1. ASSUME NEW s \in SUBSET (1..N), s # {}
        PROVE  step[<<Max(s), g[s \ {Max(s)}]>>] = op(g[s \ {Max(s)}], available[Max(s)])
    <3>1. Max(s) \in 1..N /\ g[s \ {Max(s)}] \in V
      BY <1>2, <1>6, <2>1, MaxOf
    <3>. QED  BY <3>1
  <2>2. [s \in SUBSET (1..N) |-> IF s = {} THEN <<>> ELSE step[<<Max(s), g[s \ {Max(s)}]>>]]
          = [s \in SUBSET (1..N) |-> IF s = {} THEN <<>> ELSE op(g[s \ {Max(s)}], available[Max(s)])]
    <3>. HIDE DEF step
    <3>. QED  BY <2>1
  <2>. HIDE DEF step
  <2>. QED  BY <1>2, <1>6, <2>2 DEF Folded
<1>8. P(iter)
  <2>. HIDE DEF P
  <2>. QED  BY <1>7
<1>. HIDE DEF iter
<1>9. /\ iter[{}] = <<>>
      /\ \A s \in SUBSET (1..N) : s # {} => iter[s] = op(iter[s \ {Max(s)}], available[Max(s)])
  BY <1>2, <1>8
<1>10. ASSUME NEW s \in SUBSET (1..N), s # {} /\ iter[s \ {Max(s)}] \in V PROVE iter[s] \in V
  <2>1. Max(s) \in 1..N
    BY <1>2, <1>10, MaxOf
  <2>2. op(iter[s \ {Max(s)}], available[Max(s)]) \in V
    BY <1>4, <1>10, <2>1
  <2>. QED  BY <1>9, <1>10, <2>2
<1>11. iter[1..N] \in V
  BY <1>2, <1>3, <1>9, <1>10, FoldStays
<1>. QED  BY <1>1, <1>2, <1>11 DEF V

LEMMA AddPacksAffordable ==
  ASSUME NEW available \in Seq(SkillContracts), NEW tier, NEW budget \in Nat,
         NEW chosen \in Affordable(tier, budget), NEW task
  PROVE  AddPacks(available, tier, budget, chosen, task) \in Affordable(tier, budget)
<1> DEFINE room == IF Cost(chosen) >= budget THEN 0 ELSE budget - Cost(chosen)
           packs == Resolve(available, "DOMAIN_PACK", tier, task, room)
           N == Len(packs)
           V == Affordable(tier, budget)
           op(c, x) == IF Loaded(c, x) \/ ~Fits(c, x, budget) THEN c ELSE Append(c, x)
           P(f) == f = [s \in SUBSET DOMAIN packs |->
                          IF s = {} THEN chosen ELSE op(f[s \ {Max(s)}], packs[Max(s)])]
           iter == CHOOSE f : P(f)
           step == [p \in (1..N) \X V |-> op(p[2], packs[p[1]])]
<1>1. AddPacks(available, tier, budget, chosen, task) = iter[DOMAIN packs]
  BY DEF AddPacks, FoldLeft, MapThenFoldSet
<1>r. packs \in Seq(OfTier(tier))
  <2>1. chosen \in Seq(SkillContracts)
    BY DEF Affordable, OfTier
  <2>2. Cost(chosen) \in Int
    BY <2>1, CostType
  <2>3. room \in Nat
    BY <2>2
  <2>. HIDE DEF room
  <2>. QED  BY <2>3, ResolveAffordable DEF Affordable
<1>. HIDE DEF packs
<1>2. N \in Nat /\ DOMAIN packs = 1..N /\ \A i \in 1..N : packs[i] \in OfTier(tier)
  BY <1>r
<1>3. chosen \in V
  OBVIOUS
<1>4. ASSUME NEW c \in V, NEW i \in 1..N PROVE op(c, packs[i]) \in V
  <2>. HIDE DEF V
  <2>. QED  BY <1>2, OneMoreFits DEF V
<1>5. step \in [(1..N) \X V -> V]
  <2>. HIDE DEF op, V
  <2>. QED  BY <1>4
<1>. HIDE DEF V, op, N
<1>6. PICK g \in [SUBSET (1..N) -> V] : Folded(g, N, chosen, step)
  <2>. HIDE DEF step
  <2>. QED  BY <1>2, <1>3, <1>5, FoldExists
<1>7. P(g)
  <2>1. ASSUME NEW s \in SUBSET (1..N), s # {}
        PROVE  step[<<Max(s), g[s \ {Max(s)}]>>] = op(g[s \ {Max(s)}], packs[Max(s)])
    <3>1. Max(s) \in 1..N /\ g[s \ {Max(s)}] \in V
      BY <1>2, <1>6, <2>1, MaxOf
    <3>. QED  BY <3>1
  <2>2. [s \in SUBSET (1..N) |-> IF s = {} THEN chosen ELSE step[<<Max(s), g[s \ {Max(s)}]>>]]
          = [s \in SUBSET (1..N) |-> IF s = {} THEN chosen ELSE op(g[s \ {Max(s)}], packs[Max(s)])]
    <3>. HIDE DEF step
    <3>. QED  BY <2>1
  <2>. HIDE DEF step
  <2>. QED  BY <1>2, <1>6, <2>2 DEF Folded
<1>8. P(iter)
  <2>. HIDE DEF P
  <2>. QED  BY <1>7
<1>. HIDE DEF iter
<1>9. /\ iter[{}] = chosen
      /\ \A s \in SUBSET (1..N) : s # {} => iter[s] = op(iter[s \ {Max(s)}], packs[Max(s)])
  BY <1>2, <1>8
<1>10. ASSUME NEW s \in SUBSET (1..N), s # {} /\ iter[s \ {Max(s)}] \in V PROVE iter[s] \in V
  <2>1. Max(s) \in 1..N
    BY <1>2, <1>10, MaxOf
  <2>2. op(iter[s \ {Max(s)}], packs[Max(s)]) \in V
    BY <1>4, <1>10, <2>1
  <2>. QED  BY <1>9, <1>10, <2>2
<1>11. iter[1..N] \in V
  BY <1>2, <1>3, <1>9, <1>10, FoldStays
<1>. QED  BY <1>1, <1>2, <1>11 DEF V

(* What is resolved fits the budget of the tier and is meant for it.       *)
LEMMA ResolvedAffordable ==
  ASSUME NEW available \in Seq(SkillContracts), NEW tier \in Tiers, NEW S, NEW types \in Seq(S)
  PROVE  ResolveSkills(available, tier, types) \in Affordable(tier, TokenBudget[tier])
<1> DEFINE first == SubSeq(types, 1, IF Len(types) < 3 THEN Len(types) ELSE 3)
           budget == TokenBudget[tier]
           protocols == Resolve(available, "PROCESS_PROTOCOL", tier, "none", budget)
           N == Len(first)
           V == Affordable(tier, budget)
           op(c, task) == AddPacks(available, tier, budget, c, task)
           P(f) == f = [s \in SUBSET DOMAIN first |->
                          IF s = {} THEN protocols ELSE op(f[s \ {Max(s)}], first[Max(s)])]
           iter == CHOOSE f : P(f)
           step == [p \in (1..N) \X V |-> op(p[2], first[p[1]])]
<1>1. ResolveSkills(available, tier, types) = iter[DOMAIN first]
  BY DEF ResolveSkills, FoldLeft, MapThenFoldSet
<1>b. budget \in Nat
  BY DEF TokenBudget, Tiers
<1>. HIDE DEF budget
<1>2. N \in Nat /\ DOMAIN first = 1..N
  <2>. first \in Seq(S)
    OBVIOUS
  <2>. QED  OBVIOUS
<1>. HIDE DEF first
<1>3. protocols \in V
  BY <1>b, ResolveAffordable
<1>4. ASSUME NEW c \in V, NEW i \in 1..N PROVE op(c, first[i]) \in V
  BY <1>b, <1>4, AddPacksAffordable
<1>. HIDE DEF protocols
<1>5. step \in [(1..N) \X V -> V]
  <2>. HIDE DEF op, V
  <2>. QED  BY <1>4
<1>. HIDE DEF V, op, N
<1>6. PICK g \in [SUBSET (1..N) -> V] : Folded(g, N, protocols, step)
  <2>. HIDE DEF step
  <2>. QED  BY <1>2, <1>3, <1>5, FoldExists
<1>7. P(g)
  <2>1. ASSUME NEW s \in SUBSET (1..N), s # {}
        PROVE  step[<<Max(s), g[s \ {Max(s)}]>>] = op(g[s \ {Max(s)}], first[Max(s)])
    <3>1. Max(s) \in 1..N /\ g[s \ {Max(s)}] \in V
      BY <1>2, <1>6, <2>1, MaxOf
    <3>. QED  BY <3>1
  <2>2. [s \in SUBSET (1..N) |-> IF s = {} THEN protocols ELSE step[<<Max(s), g[s \ {Max(s)}]>>]]
          = [s \in SUBSET (1..N) |->
               IF s = {} THEN protocols ELSE op(g[s \ {Max(s)}], first[Max(s)])]
    <3>. HIDE DEF step
    <3>. QED  BY <2>1
  <2>. HIDE DEF step
  <2>. QED  BY <1>2, <1>6, <2>2 DEF Folded
<1>8. P(iter)
  <2>. HIDE DEF P
  <2>. QED  BY <1>7
<1>. HIDE DEF iter
<1>9. /\ iter[{}] = protocols
      /\ \A s \in SUBSET (1..N) : s # {} => iter[s] = op(iter[s \ {Max(s)}], first[Max(s)])
  BY <1>2, <1>8
<1>10. ASSUME NEW s \in SUBSET (1..N), s # {} /\ iter[s \ {Max(s)}] \in V PROVE iter[s] \in V
  <2>1. Max(s) \in 1..N
    BY <1>2, <1>10, MaxOf
  <2>2. op(iter[s \ {Max(s)}], first[Max(s)]) \in V
    BY <1>4, <1>10, <2>1
  <2>. QED  BY <1>9, <1>10, <2>2
<1>11. iter[1..N] \in V
  BY <1>2, <1>3, <1>9, <1>10, FoldStays
<1>. QED  BY <1>1, <1>2, <1>11 DEF V, budget

-----------------------------------------------------------------------------
(* SkillsFit is inductive: only a classification writes skills, and it     *)
(* resolves them for the decision it writes.                               *)
LEMMA NextSkillsFit == SkillsFit /\ [Next]_vars => SkillsFit'
<1> SUFFICES ASSUME SkillsFit, [Next]_vars PROVE SkillsFit'
  OBVIOUS
<1>1. CASE UNCHANGED strategyVars
  BY <1>1 DEF strategyVars, SkillsFit
<1>2. CASE Classify /\ ~UNCHANGED strategyVars
  <2>1. PICK text \in Wordings, s \in Facts, override \in Strategies \cup {None},
             installed \in SkillSets :
          /\ decision' = ForMode(ClassifyRequest(text, override, s, gate), mode)
          /\ skills' = ResolveSkills(installed, decision'.tier, TaskTypes)
    BY <1>2 DEF Classify
  <2>2. decision'.tier \in Tiers
    BY <2>1, ClassifyProfiled, PreparationAssumption DEF Profiled, Decisions
  <2>3. skills' \in Affordable(decision'.tier, TokenBudget[decision'.tier])
    BY <2>1, <2>2, ResolvedAffordable, PreparationAssumption
  <2>. QED  BY <2>3 DEF SkillsFit, Affordable, OfTier
<1>3. CASE ~Classify
  BY <1>1, <1>3 DEF Next, Step, IntentGate, Preflight, Probe, Ground, Compile, Freeze, StartRole,
     EndRole, Contract, Blueprint, ExecuteTasks, Raise, OwnerWorks, Ended, vars, strategyVars
<1>. QED  BY <1>1, <1>2, <1>3

(* Whatever skills are installed and whatever they declare to cost, what a *)
(* run loads fits the budget of its tier and is meant for that tier.       *)
THEOREM SkillsAlwaysFit == Spec => []SkillsFit
<1>1. Init => SkillsFit
  BY DEF Init, SkillsFit
<1>. QED  BY <1>1, NextSkillsFit, PTL DEF Spec

-----------------------------------------------------------------------------
(* RiskIsReviewed is inductive with what the decision of a risky run is    *)
(* and what a plan that was accepted for it went through.                  *)
RiskInv ==
  /\ risky => /\ decision.strategy = "HIGH_RISK_ENGINEERING"
              /\ decision.planner /\ decision.reviewer
  /\ /\ pc \in Accepted /\ decision.planner
     /\ decision.strategy = "HIGH_RISK_ENGINEERING"
     => approved

LEMMA NextRiskInv == RiskInv /\ [Next]_vars => RiskInv'
<1> SUFFICES ASSUME RiskInv, [Next]_vars PROVE RiskInv'
  OBVIOUS
<1> USE DEF RiskInv, Accepted
<1>1. CASE Classify
  <2>0. pc' \in {"ground", "stopped"}
    BY <1>1 DEF Classify, Go, Stop
  <2>1. CASE UNCHANGED strategyVars
    BY <2>0, <2>1 DEF strategyVars
  <2>2. CASE ~UNCHANGED strategyVars
    <3>1. PICK text \in Wordings, s \in Facts, override \in Strategies \cup {None} :
            LET d == ForMode(ClassifyRequest(text, override, s, gate), mode)
            IN  /\ decision' = d
                /\ risky' = \/ s.critical
                            \/ /\ override = None
                               /\ StrategyOf(text, gate) = "HIGH_RISK_ENGINEERING"
      BY <1>1, <2>2 DEF Classify
    <3>. QED  BY <2>0, <3>1, RiskyDecision
  <2>. QED  BY <2>1, <2>2
<1>2. CASE EndRole
  <2>1. CASE pc' = "stopped"
    BY <1>2, <2>1 DEF EndRole, strategyVars
  <2>2. CASE pc' # "stopped"
    <3>1. Answered /\ UNCHANGED strategyVars
      BY <1>2, <2>2 DEF EndRole, Stop
    <3>2. CASE pc = "explorer_fast" /\ Explored
      BY <3>1, <3>2 DEF Explored, Go, strategyVars
    <3>3. CASE pc = "planner_deep" /\ \E p \in Plans : Planned(p)
      BY <2>2, <3>1, <3>3 DEF Planned, Go, Stop, strategyVars
    <3>4. CASE pc = "reviewer_deep" /\ \E a \in {"APPROVED", "refused", "malformed"} : Reviewed(a)
      BY <2>2, <3>1, <3>4 DEF Reviewed, Go, Stop, strategyVars
    <3>. QED  BY <3>1, <3>2, <3>3, <3>4 DEF Answered
  <2>. QED  BY <2>1, <2>2
<1>3. CASE Contract \/ Blueprint \/ ExecuteTasks
  BY <1>3 DEF Contract, Blueprint, ExecuteTasks, Go, Stop, strategyVars, taskVars
<1>4. CASE IntentGate \/ Preflight \/ Probe \/ Ground \/ Compile \/ Freeze
  BY <1>4 DEF IntentGate, Preflight, Probe, Ground, Compile, Freeze, Go, Stop,
              strategyVars, taskVars
<1>5. CASE StartRole
  BY <1>5 DEF StartRole, Roles, Go, Stop, strategyVars, taskVars
<1>6. CASE Raise \/ OwnerWorks \/ Ended \/ UNCHANGED vars
  BY <1>6 DEF Raise, OwnerWorks, Ended, Stop, vars, strategyVars, taskVars
<1>. QED  BY <1>1, <1>2, <1>3, <1>4, <1>5, <1>6 DEF Next, Step

(* No risky run reaches an implementer without an approved plan and a      *)
(* reviewer of its result.                                                 *)
THEOREM RiskAlwaysReviewed == Spec => []RiskIsReviewed
<1>1. Init => RiskInv
  BY DEF Init, RiskInv, Accepted
<1>2. RiskInv => RiskIsReviewed
  BY DEF RiskInv, RiskIsReviewed, Ready, Accepted
<1>. QED  BY <1>1, <1>2, NextRiskInv, PTL DEF Spec

-----------------------------------------------------------------------------
(* FrozenAuthority is inductive with: no role has written before the plan  *)
(* is frozen, and a frozen plan stays what was discovered.                 *)
AuthorityInv ==
  /\ pc \in Early => Leak \notin tree
  /\ pc \in Early \cup Roles \cup {"contract"} => plan = NoPlan
  /\ pc \in Roles \cup Accepted => frozen.mandatory = catalog /\ Leak \notin frozen.inputs
  /\ FrozenAuthority

LEMMA NextAuthorityInv == AuthorityInv /\ [Next]_vars => AuthorityInv'
<1> SUFFICES ASSUME AuthorityInv, [Next]_vars PROVE AuthorityInv'
  OBVIOUS
<1> USE DEF AuthorityInv, FrozenAuthority, Early, Roles, Accepted
<1>1. CASE IntentGate
  BY <1>1 DEF IntentGate, Go, Stop, Leak, Classifier, planVars
<1>2. CASE Preflight \/ Probe \/ Compile
  BY <1>2 DEF Preflight, Probe, Compile, Go, Stop, planVars
<1>3. CASE Classify
  <2>1. pc' \in {"ground", "stopped"} /\ pc = "classify" /\ UNCHANGED <<tree, planVars>>
    BY <1>3 DEF Classify, Go, Stop
  <2>. QED  BY <2>1 DEF planVars
<1>4. CASE Ground
  BY <1>4 DEF Ground, Go
<1>5. CASE Freeze
  BY <1>5 DEF Freeze, Go, BaselinePlan, Compiled
<1>6. CASE StartRole
  BY <1>6 DEF StartRole, Go, Stop, planVars
<1>7. CASE EndRole
  <2>1. UNCHANGED planVars /\ pc \in Roles
    BY <1>7 DEF EndRole
  <2>2. pc' \in Roles \cup {"contract", "stopped"}
    BY <1>7 DEF EndRole, Answered, Explored, Planned, Reviewed, Go, Stop
  <2>. QED  BY <2>1, <2>2 DEF planVars
<1>8. CASE Contract
  BY <1>8 DEF Contract, Go, TaskPlan, Compiled
<1>9. CASE Blueprint \/ ExecuteTasks
  BY <1>9 DEF Blueprint, ExecuteTasks, Go, Stop, planVars
<1>10. CASE Raise \/ Ended \/ UNCHANGED vars
  BY <1>10 DEF Raise, Ended, Stop, vars, planVars
<1>11. CASE OwnerWorks
  <2>1. PICK e \in OwnerChanges : tree' = tree \cup {e}
    BY <1>11 DEF OwnerWorks
  <2>2. e # Leak
    BY PreparationAssumption
  <2>. QED  BY <1>11, <2>1, <2>2 DEF OwnerWorks, planVars
<1>. QED  BY <1>1, <1>2, <1>3, <1>4, <1>5, <1>6, <1>7, <1>8, <1>9, <1>10, <1>11
             DEF Next, Step

(* The tasks of every run are judged by the commands and the evaluator     *)
(* inputs frozen before the first role was started, whatever the planner   *)
(* proposes and the owner edits meanwhile.                                 *)
THEOREM AuthorityStaysFrozen == Spec => []FrozenAuthority
<1>1. Init => AuthorityInv
  BY DEF Init, AuthorityInv, FrozenAuthority, Early, Roles, Accepted
<1>2. AuthorityInv => FrozenAuthority
  BY DEF AuthorityInv
<1>. QED  BY <1>1, <1>2, NextAuthorityInv, PTL DEF Spec

-----------------------------------------------------------------------------
(* A blueprint that covers a brief links every criterion to a proved task. *)
LEMMA CoveredIsLinked ==
  ASSUME NEW b, NEW ts, ValidBlueprint(b, ts), NEW criterion \in b.criteria
  PROVE  \E i \in DOMAIN ts : criterion \in ts[i].links /\ ts[i].proof = "post"
BY DEF ValidBlueprint, Linked

(* RequirementsReachTasks is inductive with: the intent contract is the    *)
(* request's, a heavy run's brief has its criteria, and an accepted        *)
(* blueprint covers the brief.                                             *)
RequirementsInv ==
  /\ pc \notin {"gate", "stopped"} => intent = CompileIntent(request)
  /\ pc \in {"freeze"} \cup Roles \cup Accepted /\ Heavy(decision.tier) =>
       brief.kind = "EXECUTION_BRIEF" /\ brief.criteria = intent.criteria
  /\ Ready /\ brief.kind = "EXECUTION_BRIEF" => ValidBlueprint(brief, tasks)

LEMMA NextRequirementsInv == RequirementsInv /\ [Next]_vars => RequirementsInv'
<1> SUFFICES ASSUME RequirementsInv, [Next]_vars PROVE RequirementsInv'
  OBVIOUS
<1> USE DEF RequirementsInv, Ready, Roles, Accepted
<1>1. CASE IntentGate
  BY <1>1 DEF IntentGate, Go, Stop, askVars
<1>2. CASE Preflight \/ Probe \/ Ground
  BY <1>2 DEF Preflight, Probe, Ground, Go, Stop, askVars, intentVars
<1>3. CASE Classify
  <2>1. /\ pc' \in {"ground", "stopped"} /\ pc = "classify"
        /\ UNCHANGED <<askVars, intentVars>>
    BY <1>3 DEF Classify, Go, Stop
  <2>. QED  BY <2>1 DEF askVars, intentVars
<1>4. CASE Compile
  <2>1. /\ pc = "compile" /\ pc' \in {"freeze", "stopped"}
        /\ UNCHANGED <<askVars, intentVars, strategyVars>>
    BY <1>4 DEF Compile, Go, Stop
  <2>2. ASSUME pc' = "freeze", Heavy(decision.tier)
        PROVE  brief'.kind = "EXECUTION_BRIEF" /\ brief'.criteria = intent.criteria
    <3>1. brief' = CompileBrief(intent, Targets, gate.sound, TRUE) /\ brief' # NoBrief
      BY <1>4, <2>2 DEF Compile, Stop, Heavy
    <3>. QED  BY <3>1, ActiveBrief
  <2>. QED  BY <2>1, <2>2 DEF askVars, intentVars, strategyVars
<1>5. CASE Freeze
  BY <1>5 DEF Freeze, Go, askVars, intentVars, strategyVars
<1>6. CASE StartRole
  BY <1>6 DEF StartRole, Go, Stop, askVars, intentVars, strategyVars, planVars, taskVars
<1>7. CASE EndRole
  <2>1. pc \in Roles /\ UNCHANGED <<askVars, intentVars, strategyVars, planVars>>
    BY <1>7 DEF EndRole
  <2>2. pc' \in Roles \cup {"contract", "stopped"}
    BY <1>7 DEF EndRole, Answered, Explored, Planned, Reviewed, Go, Stop
  <2>. QED  BY <2>1, <2>2 DEF askVars, intentVars, strategyVars, planVars
<1>8. CASE Contract
  BY <1>8 DEF Contract, Go, askVars, intentVars, strategyVars
<1>9. CASE Blueprint \/ ExecuteTasks
  BY <1>9 DEF Blueprint, ExecuteTasks, Go, Stop, askVars, intentVars, strategyVars, planVars,
              taskVars
<1>10. CASE Raise \/ OwnerWorks \/ Ended \/ UNCHANGED vars
  BY <1>10 DEF Raise, OwnerWorks, Ended, Stop, vars, askVars, intentVars, strategyVars,
               planVars, taskVars
<1>. QED  BY <1>1, <1>2, <1>3, <1>4, <1>5, <1>6, <1>7, <1>8, <1>9, <1>10 DEF Next, Step

(* Every requirement a request lists reaches a task of a heavy run that is *)
(* proved after its implementation.                                        *)
THEOREM RequirementsAlwaysReachTasks == Spec => []RequirementsReachTasks
<1>1. Init => RequirementsInv
  BY DEF Init, RequirementsInv, Ready, Roles, Accepted
<1>2. RequirementsInv => RequirementsReachTasks
  <2> SUFFICES ASSUME RequirementsInv, Ready, Heavy(decision.tier),
                      NEW k \in DOMAIN request, request[k].listed
               PROVE  \E i \in DOMAIN tasks :
                        request[k].text \in tasks[i].links /\ tasks[i].proof = "post"
    BY DEF RequirementsReachTasks
  <2>1. request[k].text \in intent.criteria
    BY ListedIsCriterion DEF RequirementsInv, Ready
  <2>2. request[k].text \in brief.criteria /\ ValidBlueprint(brief, tasks)
    BY <2>1 DEF RequirementsInv, Ready, Accepted
  <2>. QED  BY <2>2, CoveredIsLinked
<1>. QED  BY <1>1, <1>2, NextRequirementsInv, PTL DEF Spec
-----------------------------------------------------------------------------
(* Preparation implements the step Prepare of Delivery.  The refinement    *)
(* needs: what a misbehaving role wrote is in no snapshot and in the tree  *)
(* only once the run has stopped; the snapshot a run starts from exists    *)
(* after the preflight and is part of the tree; what was classified has a  *)
(* profile Delivery knows.                                                 *)
Classified == {"ground", "compile", "freeze"} \cup Roles \cup Accepted

PreparesInv ==
  /\ Leak \notin baseline /\ Leak \notin before
  /\ pc # "stopped" => Leak \notin tree /\ verdict = None
  /\ pc \in {"gate", "preflight"} => baseline = NoSnapshot
  /\ pc \in {"capability", "classify"} \cup Classified => baseline # NoSnapshot
  /\ baseline # NoSnapshot => baseline \subseteq tree
  /\ pc \in Classified => Profiled(decision)

LEMMA NextPreparesInv == TypeOK /\ PreparesInv /\ [Next]_vars => PreparesInv'
<1> SUFFICES ASSUME TypeOK, PreparesInv, [Next]_vars PROVE PreparesInv'
  OBVIOUS
<1> USE DEF PreparesInv, Classified, Accepted, Roles
<1>1. CASE IntentGate
  <2>. pc' \in {"preflight", "stopped"} /\ tree' \in {tree, tree \cup {Classifier}}
    BY <1>1 DEF IntentGate, Go, Stop
  <2>. QED  BY <1>1 DEF IntentGate, Go, Stop, Classifier, Leak, roleVars
<1>2. CASE Preflight
  <2>. "no snapshot" \notin tree
    BY PreparationAssumption DEF TypeOK, Classifier, Leak
  <2>. QED  BY <1>2 DEF Preflight, Go, Stop, NoSnapshot, roleVars
<1>3. CASE Probe
  BY <1>3 DEF Probe, Go, Stop, roleVars
<1>4. CASE Classify
  <2>1. /\ pc = "classify" /\ pc' \in {"ground", "stopped"}
        /\ UNCHANGED <<tree, baseline, roleVars>> /\ (pc' = "stopped" \/ UNCHANGED verdict)
    BY <1>4 DEF Classify, Go, Stop
  <2>2. pc' = "ground" => Profiled(decision')
    <3> SUFFICES ASSUME pc' = "ground" PROVE Profiled(decision')
      OBVIOUS
    <3>1. PICK text \in Wordings, s \in Facts, override \in Strategies \cup {None} :
            decision' = ForMode(ClassifyRequest(text, override, s, gate), mode)
      BY <1>4 DEF Classify, Stop
    <3>2. text \in Texts
      BY PreparationAssumption
    <3>. QED  BY <3>1, <3>2, ClassifyProfiled
  <2>. QED  BY <2>1, <2>2 DEF roleVars
<1>5. CASE Ground \/ Compile \/ Freeze
  BY <1>5 DEF Ground, Compile, Freeze, Go, Stop, strategyVars, roleVars
<1>6. CASE StartRole
  BY <1>6 DEF StartRole, Go, Stop, strategyVars, roleVars
<1>7. CASE EndRole
  <2>1. /\ pc \in Roles /\ before # NoSnapshot /\ before' = NoSnapshot
        /\ tree' \in {tree, tree \cup {Leak}} /\ UNCHANGED <<baseline, strategyVars>>
    BY <1>7 DEF EndRole
  <2>2. \/ pc' = "stopped"
        \/ tree' = before /\ pc' \in Roles \cup {"contract"} /\ UNCHANGED verdict
    BY <1>7 DEF EndRole, Mutated, Answered, Explored, Planned, Reviewed, Go, Stop
  <2>. QED  BY <2>1, <2>2 DEF strategyVars, NoSnapshot, Leak
<1>8. CASE Contract \/ Blueprint \/ ExecuteTasks
  BY <1>8 DEF Contract, Blueprint, ExecuteTasks, Go, Stop, strategyVars, roleVars
<1>9. CASE Raise \/ Ended \/ UNCHANGED vars
  BY <1>9 DEF Raise, Ended, Stop, vars, strategyVars, roleVars
<1>10. CASE OwnerWorks
  <2>1. PICK e \in OwnerChanges : tree' = tree \cup {e}
    BY <1>10 DEF OwnerWorks
  <2>2. e # Leak
    BY PreparationAssumption
  <2>. QED  BY <1>10, <2>1, <2>2 DEF OwnerWorks, strategyVars, roleVars
<1>. QED  BY <1>1, <1>2, <1>3, <1>4, <1>5, <1>6, <1>7, <1>8, <1>9, <1>10 DEF Next, Step

\* What of a run's state Delivery sees, and what it sees when the run goes
\* on, stops, is done preparing, or when its owner edits the worktree.
Seen == <<Point, Profile, Original, verdict, ToWrite>>

LEMMA UnseenStutters == UNCHANGED Seen => UNCHANGED D!vars
BY DEF Seen, D!vars, R!InitialGraph, R!NoReport, R!NoReview, R!Nothing, R!NoFiles

LEMMA StopIsHalt ==
  ~Ready /\ pc # "stopped" /\ pc' = "stopped" /\ verdict' \in D!Stops
  /\ (Original' = Original \/ (Original' = Original \cup {Leak} /\ verdict' # "NEEDS_INPUT"))
  => D!Prepare
BY DEF Ready, Point, Profile, ToWrite, Leak, D!Stops, D!Prepare, D!Halt, D!Leak, D!Records,
       R!Records, D!promoteVars, R!InitialGraph, R!NoReport, R!NoReview, R!Nothing, R!NoFiles

LEMMA DoneIsGo ==
  pc = "blueprint" /\ pc' = "tasks" /\ UNCHANGED <<verdict, Original, decision>>
  /\ Profiled(decision)
  => D!Prepare
BY DEF Ready, Point, Profile, ToWrite, Profiled, Decisions, D!Prepare, D!Go, D!publishVars,
       D!promoteVars, R!InitialGraph, R!NoReport, R!NoReview, R!Nothing, R!NoFiles

LEMMA OwnerIsOwner ==
  pc # "stopped" /\ UNCHANGED <<Point, Profile, verdict, ToWrite>>
  /\ "owner" \notin Original /\ Original' = Original \cup {"owner"}
  => D!OwnerEdits
BY DEF Ready, Point, D!OwnerEdits, D!Owner, D!strategyVars, D!publishVars,
       D!promoteVars, R!InitialGraph, R!NoReport, R!NoReview, R!Nothing, R!NoFiles

LEMMA PreparesStep ==
  TypeOK /\ PreparesInv /\ PreparesInv' /\ [Next]_vars => [D!Prepare \/ D!OwnerEdits]_(D!vars)
<1> SUFFICES ASSUME TypeOK, PreparesInv, PreparesInv', [Next]_vars
             PROVE  D!Prepare \/ D!OwnerEdits \/ UNCHANGED D!vars
  OBVIOUS
<1>a. ASSUME UNCHANGED <<tree, baseline>> PROVE Original' = Original
  BY <1>a DEF Original, Since
<1>b. ASSUME baseline = NoSnapshot PROVE Original = {}
  BY <1>b DEF Original, Since
<1>c. ASSUME ~Ready, ~Ready', pc # "stopped", pc' # "stopped", UNCHANGED <<Original, verdict>>
      PROVE  UNCHANGED D!vars
  BY <1>c, UnseenStutters DEF Seen, Point, Profile, ToWrite
<1> DEFINE Halts(v) == ~Ready /\ pc # "stopped" /\ Stop(v) /\ v \in D!Stops
<1>d. ASSUME NEW v, Halts(v), Original' = Original PROVE D!Prepare
  BY <1>d, StopIsHalt DEF Stop
<1>1. CASE IntentGate
  <2>1. baseline = NoSnapshot /\ baseline' = NoSnapshot /\ pc = "gate"
    BY <1>1 DEF IntentGate, PreparesInv
  <2>2. Original' = Original
    BY <2>1 DEF Original, Since
  <2>3. CASE \E v \in {"NEEDS_INPUT", "SYSTEM_ERROR"} : Stop(v)
    BY <2>1, <2>2, <2>3, <1>d DEF Ready, D!Stops
  <2>4. CASE Go("preflight")
    BY <2>1, <2>2, <2>4, <1>c DEF Go, Ready
  <2>. QED  BY <1>1, <2>3, <2>4 DEF IntentGate
<1>2. CASE Preflight
  <2>1. baseline = NoSnapshot /\ pc = "preflight" /\ UNCHANGED tree
    BY <1>2 DEF Preflight, PreparesInv
  <2>2. baseline' \in {baseline, tree}
    BY <1>2 DEF Preflight
  <2>3. Original' = Original
    BY <2>1, <2>2 DEF Original, Since
  <2>4. CASE Stop("NEEDS_INPUT")
    BY <2>1, <2>3, <2>4, <1>d DEF Ready, D!Stops
  <2>5. CASE Go("capability")
    BY <2>1, <2>3, <2>5, <1>c DEF Go, Ready
  <2>. QED  BY <1>2, <2>4, <2>5 DEF Preflight
<1>3. CASE Probe \/ Classify \/ Ground \/ Compile \/ Freeze \/ StartRole \/ Contract \/ Raise
  <2>1. UNCHANGED <<tree, baseline>> /\ ~Ready /\ pc # "stopped"
    BY <1>3 DEF Probe, Classify, Ground, Compile, Freeze, StartRole, Contract, Raise, Ready, Roles
  <2>2. \/ \E v \in D!Stops : Stop(v)
        \/ ~Ready' /\ pc' # "stopped" /\ UNCHANGED verdict
    BY <1>3 DEF Probe, Classify, Ground, Compile, Freeze, StartRole, Contract, Raise, Go,
                Ready, Roles, D!Stops
  <2>. QED  BY <2>1, <2>2, <1>a, <1>c, <1>d
<1>4. CASE EndRole
  <2>1. /\ pc \in Roles /\ UNCHANGED baseline /\ baseline # NoSnapshot
        /\ tree' \in {tree, tree \cup {Leak}}
    BY <1>4 DEF EndRole, PreparesInv, Classified
  <2>2. ~Ready /\ pc # "stopped"
    BY <2>1 DEF Ready, Roles
  <2>3. \/ \E v \in D!Stops : Stop(v) /\ (tree' = tree \/ v # "NEEDS_INPUT")
        \/ tree' = tree /\ ~Ready' /\ pc' # "stopped" /\ UNCHANGED verdict
    <3>1. tree' = before => tree' = tree
      BY <2>1 DEF PreparesInv
    <3>2. Answered => \/ \E v \in D!Stops : Stop(v)
                      \/ ~Ready' /\ pc' # "stopped" /\ UNCHANGED verdict
      BY DEF Answered, Explored, Planned, PlanFault, Reviewed, Go, Ready, D!Stops
    <3>. QED  BY <1>4, <3>1, <3>2 DEF EndRole, Mutated, D!Stops
  <2>4. CASE tree' = tree
    BY <2>1, <2>2, <2>3, <2>4, <1>a, <1>c, <1>d
  <2>5. CASE tree' # tree
    <3>1. Original' = Original \cup {Leak}
      <4>1. Since' = Since \cup {Leak} /\ Leak \notin OwnerChanges
        BY <2>1, <2>5, PreparationAssumption DEF Since, PreparesInv
      <4>. QED  BY <4>1 DEF Original
    <3>. QED  BY <2>2, <2>3, <2>5, <3>1, StopIsHalt DEF Stop
  <2>. QED  BY <2>4, <2>5
<1>5. CASE Blueprint
  <2>1. UNCHANGED <<tree, baseline, decision>> /\ pc = "blueprint" /\ Profiled(decision)
    BY <1>5 DEF Blueprint, strategyVars, PreparesInv, Classified, Accepted
  <2>2. CASE Stop("BLOCKED")
    BY <2>1, <2>2, <1>a, <1>d DEF Ready, D!Stops
  <2>3. CASE Go("tasks")
    BY <2>1, <2>3, <1>a, DoneIsGo DEF Go
  <2>. QED  BY <1>5, <2>2, <2>3 DEF Blueprint
<1>6. CASE ExecuteTasks
  <2>1. UNCHANGED <<tree, baseline, decision, verdict>> /\ pc = "tasks" /\ pc' = "implement"
    BY <1>6 DEF ExecuteTasks, Go, strategyVars
  <2>. QED  BY <2>1, <1>a, UnseenStutters DEF Seen, Point, Profile, ToWrite, Ready
<1>7. CASE OwnerWorks
  <2>1. /\ UNCHANGED <<pc, baseline, decision, verdict>> /\ pc # "stopped"
    BY <1>7 DEF OwnerWorks, strategyVars
  <2>2. PICK e \in OwnerChanges \ tree : tree' = tree \cup {e}
    BY <1>7 DEF OwnerWorks
  <2>3. UNCHANGED <<Point, Profile, verdict, ToWrite>>
    BY <2>1 DEF Point, Profile, ToWrite, Ready
  <2>4. Original' = Original \/ ("owner" \notin Original /\ Original' = Original \cup {"owner"})
    <3>1. e # Leak /\ Leak # "owner"
      BY PreparationAssumption DEF Leak
    <3>2. Since' \in {Since, Since \cup {e}}
      BY <2>1, <2>2 DEF Since
    <3>. QED  BY <3>1, <3>2 DEF Original
  <2>. QED  BY <2>1, <2>3, <2>4, OwnerIsOwner, UnseenStutters DEF Seen
<1>8. CASE Ended \/ UNCHANGED vars
  <2>1. UNCHANGED <<pc, tree, baseline, decision, verdict>>
    BY <1>8 DEF Ended, vars
  <2>. QED  BY <2>1, <1>a, UnseenStutters DEF Seen, Point, Profile, ToWrite, Ready
<1>. QED  BY <1>1, <1>2, <1>3, <1>4, <1>5, <1>6, <1>7, <1>8 DEF Next, Step

(* Every behaviour of the preparation is one the step Prepare of Delivery  *)
(* allows, the owner's edits apart: it ends in a known profile or stops    *)
(* with a verdict, and only a run that stops without asking its owner      *)
(* leaves the work of a role in the owner's worktree.                      *)
THEOREM PreparationImplementsPrepare == Spec => Prepares
<1>1. Init => PreparesInv /\ D!Init
  <2> SUFFICES ASSUME Init PROVE PreparesInv /\ D!Init
    OBVIOUS
  <2>1. PreparesInv
    BY DEF Init, PreparesInv, Classified, Accepted, Roles, NoSnapshot, Leak
  <2>2. Original = {} /\ ~Ready /\ pc = "gate" /\ verdict = "none"
    BY DEF Init, Original, Since, Ready, None
  <2>3. Point = "prepare" /\ Profile = R!Unclassified /\ ToWrite = <<>>
    BY <2>2 DEF Point, Profile, ToWrite
  <2>4. D!InitialGraph = R!InitialGraph
    BY DEF D!InitialGraph, R!InitialGraph, D!Standing, R!Standing, D!Opened, R!Opened,
           D!Semantic, R!Semantic, D!Scope, R!Scope, D!Checks, R!Checks, D!Intent, R!Intent,
           D!Simplicity, R!Simplicity
  <2>5. D!NoReport = R!NoReport /\ D!NoReview = R!NoReview /\ D!NoFiles = R!NoFiles
    BY DEF D!NoReport, R!NoReport, D!NoReview, R!NoReview, D!NoFiles, R!NoFiles, D!None, R!None
  <2>6. D!Init
    BY <2>2, <2>3, <2>4, <2>5 DEF D!Init, D!Unclassified, R!Unclassified, D!Nothing, R!Nothing,
       D!None, R!None
  <2>. QED  BY <2>1, <2>6
<1>2. Init => TypeOK
  BY InitTypeOK
<1>. QED  BY <1>1, <1>2, NextTypeOK, NextPreparesInv, PreparesStep, PTL DEF Spec, Prepares
=============================================================================
