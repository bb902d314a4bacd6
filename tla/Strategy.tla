------------------------------ MODULE Strategy ------------------------------
(***************************************************************************)
(* How much care a request gets: the intent gate's answer, the wording of  *)
(* the request and what its targets are in the repository decide the       *)
(* strategy, the tier and which roles must take part                       *)
(* (engine/strategy.py, engine/intent_gate.py, analysis/workload.py).      *)
(***************************************************************************)
EXTENDS Integers

Tiers      == {"T0", "T1", "T2", "T3"}
Strategies == {"DIRECT_VERIFIED_CHANGE", "PLANNED_IMPLEMENTATION",
               "HIGH_RISK_ENGINEERING", "REPOSITORY_ANALYSIS"}
Kinds      == {"answer", "investigate", "plan", "mutate", "audit", "operate_external"}
Authorities == {"read_only", "repository_mutation", "git_local", "git_remote",
                "external_side_effect"}
Clarities  == {"clear", "groundable", "owner_decision_required", "blocked"}

\* Which of the patterns the wording matches; short is len(text) < 500.
Texts == [risk : BOOLEAN, direct : BOOLEAN, short : BOOLEAN, complex : BOOLEAN,
          uncertain : BOOLEAN]

\* Facts about the files the request names: broad is four or more of them,
\* untested none of them with a test of its name.
Signals == [critical : BOOLEAN, contract : BOOLEAN, broad : BOOLEAN, untested : BOOLEAN]

\* sound says that every signal the gate reports is a non-empty string.
Gates == [kind : Kinds, clarity : Clarities, authority : Authorities, sound : BOOLEAN]

Decisions == [strategy : Strategies, tier : Tiers, planner : BOOLEAN,
              reviewer : BOOLEAN, explorer : BOOLEAN, context : BOOLEAN]

Heavy(tier) == tier \in {"T2", "T3"}

-----------------------------------------------------------------------------
(* The intent gate.  An answer is a record of the fields a classifier may  *)
(* give, a field it leaves out or fills with anything else is "?".         *)
Fallback == [kind |-> "mutate", clarity |-> "clear", authority |-> "repository_mutation",
             sound |-> TRUE]

\* A mutant of Field: what the classifier wrote is taken as it is.
FieldUnchecked(value, allowed, default) == value

Field(value, allowed, default) == IF value \in allowed THEN value ELSE default

GateOf(answer) ==
  [kind      |-> IF answer.injection THEN "answer" ELSE Field(answer.kind, Kinds, "mutate"),
   clarity   |-> Field(answer.clarity, Clarities, "clear"),
   authority |-> IF answer.injection THEN "read_only"
                 ELSE Field(answer.authority, Authorities, "repository_mutation"),
   sound     |-> answer.sound]

-----------------------------------------------------------------------------
(* The decision for a strategy: its tier follows from the scores of the    *)
(* wording, the roles from both.                                           *)
Score(text) ==
  [risk        |-> IF text.risk THEN 3 ELSE 0,
   complexity  |-> IF text.complex THEN 2 ELSE IF text.direct THEN 0 ELSE 1,
   uncertainty |-> IF text.uncertain THEN 2 ELSE 0]

TierFor(strategy, s) ==
  LET total == s.risk + s.complexity + s.uncertainty
  IN  IF strategy = "HIGH_RISK_ENGINEERING" THEN "T3"
      ELSE IF strategy = "REPOSITORY_ANALYSIS" THEN "T2"
      ELSE IF s.risk >= 3 THEN "T3"
      ELSE IF strategy = "DIRECT_VERIFIED_CHANGE" /\ total <= 1 THEN "T0"
      ELSE IF s.complexity >= 2 \/ s.uncertainty >= 2 \/ total >= 4 THEN "T2"
      ELSE "T1"

DecisionFor(strategy, text) ==
  LET s    == Score(text)
      tier == TierFor(strategy, s)
      full == strategy \in {"HIGH_RISK_ENGINEERING", "REPOSITORY_ANALYSIS"}
      plan == strategy = "PLANNED_IMPLEMENTATION"
  IN  [strategy |-> strategy, tier |-> tier,
       planner  |-> full \/ (plan /\ Heavy(tier)),
       reviewer |-> full \/ (plan /\ Heavy(tier)),
       explorer |-> full \/ (plan /\ (tier = "T3" \/ s.uncertainty >= 2)),
       context  |-> strategy = "REPOSITORY_ANALYSIS"]

\* The tier the repository's facts ask for, or "same" when they ask for none.
SignalTier(d, s) ==
  IF s.critical THEN "T3"
  ELSE IF s.contract \/ s.broad THEN (IF d.tier \in {"T0", "T1"} THEN "T2" ELSE d.tier)
  ELSE IF s.untested /\ d.tier = "T0" THEN "T1"
  ELSE "same"

\* A mutant of ApplyRepositorySignals: the roles of the first decision stay.
ApplySignalsToTierOnly(d, s) ==
  LET tier == SignalTier(d, s)
  IN  IF tier = "same" THEN d
      ELSE [d EXCEPT !.tier = tier,
                     !.strategy = IF tier = "T3" THEN "HIGH_RISK_ENGINEERING"
                                                 ELSE "PLANNED_IMPLEMENTATION"]

ApplyRepositorySignals(d, s) ==
  LET tier == SignalTier(d, s)
  IN  IF tier = "same" THEN d
      ELSE [d EXCEPT !.tier = tier,
                     !.strategy = IF tier = "T3" THEN "HIGH_RISK_ENGINEERING"
                                                 ELSE "PLANNED_IMPLEMENTATION",
                     !.planner = Heavy(tier), !.reviewer = Heavy(tier),
                     !.explorer = tier = "T3" \/ (s.untested /\ tier = "T2")]

StrategyOf(text, gate) ==
  IF gate.kind \in {"investigate", "answer"} THEN "REPOSITORY_ANALYSIS"
  ELSE IF \/ gate.authority = "external_side_effect"
          \/ gate.clarity = "owner_decision_required" \/ text.risk
       THEN "HIGH_RISK_ENGINEERING"
  ELSE IF text.direct /\ text.short THEN "DIRECT_VERIFIED_CHANGE"
  ELSE "PLANNED_IMPLEMENTATION"

(* classify_request: an explicit strategy overrides the gate's answer, the *)
(* repository's facts correct both.                                        *)
ClassifyRequest(text, override, signals, gate) ==
  LET strategy == IF override \in Strategies THEN override ELSE StrategyOf(text, gate)
  IN  ApplyRepositorySignals(DecisionFor(strategy, text), signals)

\* orchestrate and goal runs plan and review every planned implementation.
ForMode(d, mode) ==
  IF d.strategy = "PLANNED_IMPLEMENTATION" /\ mode \in {"orchestrate", "goal"}
  THEN [d EXCEPT !.planner = TRUE, !.reviewer = TRUE,
                 !.explorer = mode = "goal" \/ d.explorer]
  ELSE d
=============================================================================
