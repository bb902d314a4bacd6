--------------------------- MODULE MCPreparation ----------------------------
(* Small instances of Preparation for TLC. *)
EXTENDS Preparation

\* An objective, a requirement that is also a boundary, an unlisted non-goal;
\* and a request of one sentence.
MCRequests == {
  << Clause("add", FALSE, FALSE, FALSE, FALSE), Clause("keep api", TRUE, TRUE, FALSE, FALSE),
     Clause("no ui", FALSE, FALSE, TRUE, TRUE) >>,
  << Clause("fix", FALSE, FALSE, FALSE, TRUE) >> }

Answer(kind, clarity, authority, injection, sound) ==
  [kind |-> kind, clarity |-> clarity, authority |-> authority, injection |-> injection,
   sound |-> sound]

\* An analysis, a release, a question for the owner, an unknown kind with a
\* blank signal, and an attempted injection.
MCAnswers == {
  Answer("investigate", "clear", "read_only", FALSE, TRUE),
  Answer("mutate", "groundable", "external_side_effect", FALSE, TRUE),
  Answer("plan", "owner_decision_required", "repository_mutation", FALSE, TRUE),
  Answer("refactor", "clear", "?", FALSE, FALSE),
  Answer("mutate", "clear", "git_remote", TRUE, TRUE) }

Task(id, links, checks, proof) ==
  [id |-> id, links |-> links, checks |-> checks, proof |-> proof, formed |-> TRUE,
   fast |-> 1, recovery |-> 0, changed |-> 1, new |-> 0, rung |-> "MINIMAL_NEW_CODE",
   evidence |-> TRUE, paths |-> {"src/a.py"}]
Whole == Task("T1", {"add", "keep api"}, {"pytest"}, "post")

\* Complete, split, partial, unlinked and unproved plans, tasks without an
\* attempt or without evidence for new code, one with a task twice, one
\* without tasks, one that is refused, one that is no JSON.
MCPlans == { [form |-> "READY", tasks |-> t] : t \in {
  << Task("T1", {"add", "keep api"}, {"pytest", "echo"}, "post") >>,
  << Task("T1", {"add"}, {"pytest"}, "post"), Task("T2", {"keep api"}, {}, "post") >>,
  << Task("T1", {"add"}, {"pytest"}, "post") >>,
  << Task("T1", {}, {"pytest"}, "post") >>,
  << Task("T1", {"add", "keep api"}, {"pytest"}, "empty") >>,
  << Task("T1", {"add"}, {}, "post"), Task("T1", {"keep api"}, {}, "post") >>,
  << [Whole EXCEPT !.fast = 0] >>, << [Whole EXCEPT !.evidence = FALSE] >>,
  <<>> } } \cup { [form |-> "refused", tasks |-> <<>>], [form |-> "malformed", tasks |-> <<>>] }

Text(risk, direct, complex, uncertain) ==
  [risk |-> risk, direct |-> direct, short |-> TRUE, complex |-> complex, uncertain |-> uncertain]
MCWordings == { Text(TRUE, FALSE, FALSE, FALSE), Text(FALSE, TRUE, FALSE, FALSE),
                Text(FALSE, FALSE, TRUE, TRUE), Text(FALSE, FALSE, FALSE, FALSE) }

Fact(critical, broad, untested) ==
  [critical |-> critical, contract |-> FALSE, broad |-> broad, untested |-> untested]
MCFacts == { Fact(FALSE, FALSE, FALSE), Fact(TRUE, FALSE, FALSE), Fact(FALSE, TRUE, FALSE),
             Fact(FALSE, FALSE, TRUE) }

Skill(name, kind, tiers, works, cost, slices) ==
  [name |-> name, kind |-> kind, tiers |-> tiers, tasks |-> works, cost |-> cost,
   usable |-> TRUE, injected |-> cost, slices |-> slices]

\* No catalog beside the package; two protocols that together exceed the
\* budget of T0 with two packs for one task type each; a pack whose references
\* exceed its own budget.
MCSkillSets == {
  <<>>,
  << Skill("tdd", "PROCESS_PROTOCOL", Tiers, {}, 12, 0),
     Skill("review", "PROCESS_PROTOCOL", Tiers, {}, 12, 0),
     Skill("api", "DOMAIN_PACK", {"T1", "T2", "T3"}, {"api"}, 30, 20),
     Skill("db", "DOMAIN_PACK", {"T1", "T2", "T3"}, {"db"}, 30, 20) >>,
  << Skill("huge", "DOMAIN_PACK", {"T2", "T3"}, {"api"}, 100, 120) >> }
MCTaskTypes == <<"api", "db">>
=============================================================================
