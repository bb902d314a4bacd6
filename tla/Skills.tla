------------------------------- MODULE Skills -------------------------------
(***************************************************************************)
(* Which process protocols and domain packs a run loads into its prompts   *)
(* (engine/skills.py: resolve_skills; engine/skill_registry.py: resolve;   *)
(* engine/domain_runtime.py: select_reference_slices).  A catalog is the   *)
(* sequence of skills by priority and name; usable says that a skill is    *)
(* neither quarantined, stale nor expired and suits mode, host, signals    *)
(* and open obligations; slices is what its active references cost.        *)
(***************************************************************************)
EXTENDS Integers, Sequences, SequencesExt

TokenBudget == [T0 |-> 20, T1 |-> 60, T2 |-> 180, T3 |-> 360]   \* thousands

\* Nothing checks the figures a skill declares.
SkillContracts ==
  [name : STRING, kind : {"PROCESS_PROTOCOL", "DOMAIN_PACK"}, tiers : SUBSET STRING,
   tasks : SUBSET STRING, cost : Int, usable : BOOLEAN, injected : Int, slices : Int]

Eligible(skill, tier, task) ==
  /\ skill.usable /\ tier \in skill.tiers
  /\ skill.tasks = {} \/ task \in skill.tasks

Cost(skills) == FoldLeft(LAMBDA sum, s : sum + s.cost, 0, skills)

\* A mutant of Fits: what earlier skills reserved is forgotten.
FitsAlone(chosen, skill, room) == skill.cost <= room

Fits(chosen, skill, room) == Cost(chosen) + skill.cost <= room

\* Linear allocation in the order of the catalog.
Resolve(catalog, kind, tier, task, room) ==
  FoldLeft(LAMBDA chosen, s :
             IF s.kind = kind /\ Eligible(s, tier, task) /\ Fits(chosen, s, room)
             THEN Append(chosen, s) ELSE chosen,
           <<>>, catalog)

\* A pack counts as loaded by its name.
Loaded(chosen, skill) ==
  \E i \in DOMAIN chosen : chosen[i].kind = "DOMAIN_PACK" /\ chosen[i].name = skill.name

\* The packs of one more task type, as far as they still fit and are new.
AddPacks(catalog, tier, budget, chosen, task) ==
  FoldLeft(LAMBDA acc, s :
             IF Loaded(acc, s) \/ ~Fits(acc, s, budget) THEN acc ELSE Append(acc, s),
           chosen,
           Resolve(catalog, "DOMAIN_PACK", tier, task,
                   IF Cost(chosen) >= budget THEN 0 ELSE budget - Cost(chosen)))

\* Protocols first, then the packs of the first three task types of the request.
ResolveSkills(catalog, tier, tasks) ==
  FoldLeft(LAMBDA chosen, task : AddPacks(catalog, tier, TokenBudget[tier], chosen, task),
           Resolve(catalog, "PROCESS_PROTOCOL", tier, "none", TokenBudget[tier]),
           SubSeq(tasks, 1, IF Len(tasks) < 3 THEN Len(tasks) ELSE 3))

\* A pack whose references do not fit its own context budget is an error.
SlicesFit(skills) ==
  \A i \in DOMAIN skills :
    skills[i].kind = "DOMAIN_PACK" =>
      skills[i].injected > 0 /\ skills[i].slices <= skills[i].injected
=============================================================================
