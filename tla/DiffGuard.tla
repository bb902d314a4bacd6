----------------------------- MODULE DiffGuard ------------------------------
(***************************************************************************)
(* What the runtime can see of a change: the diff guard of a task          *)
(* (assurance/diff_guard.py) against the snapshot taken before the task    *)
(* (context/git_snapshot.py), the guard of the aggregated tasks against    *)
(* the snapshot taken before the run, and the scope check and patch of the *)
(* promotion (context/worktree_sandbox.py).  Snapshots hold the whole      *)
(* worktree; `git diff <commit>` compares a commit with the files of the   *)
(* INDEX only, and pairs a deletion with an addition of a like content.    *)
(***************************************************************************)
EXTENDS Naturals, FiniteSets

CONSTANTS
  Files,
  Possible,     \* the contents a file may have (Absent: there is no file)
  Baseline,     \* the worktree the sandbox is created from
  Tests,        \* paths with "test" or "spec" in them
  Dependencies, \* manifests and lock files
  Ephemeral,    \* caches and the like
  Contracts,    \* the task briefs a plan may hold
  NTasks,
  Similar       \* pairs of contents rename detection takes for one file edited

Absent == 0
Weak   == 9     \* content that skips a test, drops an assertion, raises a timeout

Trees == { t \in [Files -> UNION { Possible[f] : f \in Files }] :
             \A f \in Files : t[f] \in Possible[f] }

ASSUME DiffGuardAssumption ==
  /\ IsFiniteSet(Files) /\ NTasks \in Nat \ {0}
  /\ Baseline \in Trees
  /\ Contracts \subseteq [allowed : SUBSET Files, protected : SUBSET Files,
                          permitted : SUBSET Files, maxChanged : Nat,
                          maxNew : Nat, deps : BOOLEAN]
  /\ \A c \in Contracts : c.allowed # {}   \* load_tasks: "must not be empty"

VARIABLES
  pc,        \* work, judged, final, finalJudged, promoted, failed
  tasks,     \* the contracts of the plan
  k,         \* the current task
  tree,      \* the isolated worktree
  index,     \* the paths its index tracks
  base,      \* the snapshot the current task started from
  permits,   \* history: what the tasks added, renamed or did to dependencies
  guard,     \* verdict of the last guard
  delivered  \* the tree the promotion patch leads to

vars == <<pc, tasks, k, tree, index, base, permits, guard, delivered>>

Present(t) == { f \in Files : t[f] # Absent }

-----------------------------------------------------------------------------
(* git diff <b> -- as seen from an index: a path the index does not track  *)
(* counts as missing, whatever the worktree holds.                         *)
Tracked(t, i) == [f \in Files |-> IF f \in i THEN t[f] ELSE Absent]

DeletedIn(b, t) == Present(b) \ Present(t)
AddedIn(b, t)   == Present(t) \ Present(b)

Alike(x, y) == x = y \/ {x, y} \in Similar

\* Rename detection: every added path takes one deleted path of like content.
Renames(b, t) ==
  LET pairs == { p \in DeletedIn(b, t) \X AddedIn(b, t) : Alike(b[p[1]], t[p[2]]) }
      Matching(r) == \A p, q \in r : p # q => p[1] # q[1] /\ p[2] # q[2]
  IN  CHOOSE r \in SUBSET pairs :
        /\ Matching(r)
        /\ \A q \in pairs \ r : ~Matching(r \cup {q})

Modified(b, t) == { f \in Present(b) \cap Present(t) : b[f] # t[f] }

\* A mutant of NameStatus: deletions are filtered out of the listing.
NameStatusKept(b, t) ==
  { [status |-> "A", path |-> f] : f \in AddedIn(b, t) }
    \cup { [status |-> "M", path |-> f] : f \in Modified(b, t) }

\* The entries of --name-status; of a rename the guard keeps the new path only.
NameStatus(b, t) ==
  LET moved == Renames(b, t)
      from  == { p[1] : p \in moved }
      to    == { p[2] : p \in moved }
  IN  { [status |-> "R", path |-> p[2], from |-> p[1]] : p \in moved }
      \cup { [status |-> "D", path |-> f] : f \in DeletedIn(b, t) \ from }
      \cup { [status |-> "A", path |-> f] : f \in AddedIn(b, t) \ to }
      \cup { [status |-> "M", path |-> f] : f \in Modified(b, t) }

Untracked(t, i) == (Present(t) \ i) \ Ephemeral

\* A mutant of Entries: only what git diff lists is inspected.
EntriesTracked(b, t, i) == NameStatus(b, Tracked(t, i))

Entries(b, t, i) ==
  NameStatus(b, Tracked(t, i))
    \cup { [status |-> "A", path |-> f, untracked |-> TRUE] : f \in Untracked(t, i) }

Paths(entries) == { e.path : e \in entries }

(* inspect_diff: the verdict of a contract on a tree.                      *)
InspectDiff(c, b, t, i) ==
  LET entries == Entries(b, t, i)
      new     == { e \in entries : e.status = "A" }
      deps    == Paths(entries) \cap Dependencies
      weak    == { e \in entries : /\ t[e.path] = Weak /\ e.status # "D"
                                   /\ e.status = "R" => b[e.from] # Weak }
      clean   == /\ Paths(new) \subseteq c.permitted
                 /\ deps # {} => c.deps /\ deps \subseteq c.permitted
                 /\ c.allowed # {} => Paths(entries) \subseteq c.allowed
                 /\ Paths(entries) \cap c.protected = {}
                 /\ \A e \in entries : e.status = "D" => e.path \notin Tests
                 /\ weak = {}
                 /\ Cardinality(entries) <= c.maxChanged
                 /\ Cardinality(new) <= c.maxNew
  IN  IF clean THEN "PASS" ELSE "FAIL"

Plan == { tasks[j] : j \in 1..NTasks }

Total(field) ==
  LET sum[j \in 0..NTasks] == IF j = 0 THEN 0 ELSE tasks[j][field] + sum[j - 1]
  IN  sum[NTasks]

\* A mutant of AggregateTask: the aggregate gets the largest budget, not the sum.
AggregateTaskLargest ==
  [allowed    |-> UNION { c.allowed : c \in Plan },
   protected  |-> UNION { c.protected : c \in Plan },
   permitted  |-> {},
   maxChanged |-> (CHOOSE c \in Plan : \A d \in Plan : d.maxChanged <= c.maxChanged).maxChanged,
   maxNew     |-> Total("maxNew"),
   deps       |-> \E c \in Plan : c.deps]

(* aggregate_task: unions of the scopes, sums of the budgets; the new      *)
(* artifacts the tasks permit are not carried over.                        *)
AggregateTask ==
  [allowed    |-> UNION { c.allowed : c \in Plan },
   protected  |-> UNION { c.protected : c \in Plan },
   permitted  |-> {},
   maxChanged |-> Total("maxChanged"),
   maxNew     |-> Total("maxNew"),
   deps       |-> \E c \in Plan : c.deps]

ChangedSourceFiles(b, t, i) ==
  (Paths(NameStatus(b, Tracked(t, i))) \cup (Present(t) \ i)) \ Ephemeral

(* A change as it is, without git: what a contract is meant to bound.      *)
Changed(b, t) == { f \in Files : b[f] # t[f] } \ Ephemeral
Created(b, t) == (Present(t) \ Present(b)) \ Ephemeral
NeedsPermit(b, t) == Created(b, t) \cup (Changed(b, t) \cap Dependencies)

-----------------------------------------------------------------------------
Init ==
  /\ pc = "work" /\ tasks \in [1..NTasks -> Contracts] /\ k = 1
  /\ tree = Baseline /\ index = Present(Baseline) /\ base = Baseline
  /\ permits = {} /\ guard = "none" /\ delivered = Baseline

\* What a guard lists as new, renamed or a dependency.
Unusual(b, t, i) ==
  Paths({ e \in Entries(b, t, i) : e.status \in {"A", "R"} \/ e.path \in Dependencies })

(* The attempts of a task leave any tree.  Nothing keeps a role from the   *)
(* index (git add, git mv, git rm --cached): any of the files it has seen  *)
(* may be tracked.  The task guard then inspects the tree.                 *)
WorkOnTask ==
  /\ pc = "work"
  /\ tree' \in Trees
  /\ index' \in SUBSET (index \cup Present(tree'))
  /\ permits' = permits \cup Unusual(base, tree', index') \cup ((index' \ index) \cap Ephemeral)
  /\ guard' = InspectDiff(tasks[k], base, tree', index')
  /\ pc' = "judged"
  /\ UNCHANGED <<tasks, k, base, delivered>>

\* A violation of the contract ends the run; the next task is measured from
\* a snapshot of what the tasks before it left.
NextTask ==
  /\ pc = "judged"
  /\ IF guard = "FAIL"      THEN pc' = "failed" /\ UNCHANGED <<k, base>>
     ELSE IF k < NTasks THEN pc' = "work" /\ k' = k + 1 /\ base' = tree
     ELSE pc' = "final" /\ UNCHANGED <<k, base>>
  /\ UNCHANGED <<tasks, tree, index, permits, guard, delivered>>

FinalGuard ==
  /\ pc = "final"
  /\ guard' = InspectDiff(AggregateTask, Baseline, tree, index)
  /\ pc' = "finalJudged"
  /\ UNCHANGED <<tasks, k, tree, index, base, permits, delivered>>

(* promote: the changed files must match the allowed paths; the patch      *)
(* leads from the baseline to a snapshot of the whole worktree.            *)
Promote ==
  /\ pc = "finalJudged"
  /\ IF /\ guard = "PASS"
        /\ ChangedSourceFiles(Baseline, tree, index) \subseteq AggregateTask.allowed
     THEN pc' = "promoted" /\ delivered' = tree
     ELSE pc' = "failed" /\ UNCHANGED delivered
  /\ UNCHANGED <<tasks, k, tree, index, base, permits, guard>>

Ended == pc \in {"promoted", "failed"} /\ UNCHANGED vars

Next == WorkOnTask \/ NextTask \/ FinalGuard \/ Promote \/ Ended

Spec == Init /\ [][Next]_vars

-----------------------------------------------------------------------------
Within(c, b, t) ==
  /\ Changed(b, t) \subseteq c.allowed
  /\ Changed(b, t) \cap c.protected = {}
  /\ NeedsPermit(b, t) \subseteq c.permitted
  /\ Changed(b, t) \cap Dependencies # {} => c.deps
  /\ \A f \in Changed(b, t) : t[f] # Weak /\ (t[f] = Absent => f \notin Tests)
  /\ Cardinality(Changed(b, t)) <= c.maxChanged
  /\ Cardinality(Created(b, t)) <= c.maxNew

(* A move: a file is gone, and one that is new holds the like of it.       *)
MovedTo(b, t, f)  == { g \in Present(t) \ Present(b) : Alike(b[f], t[g]) }
MovedAway(b, t)   == { f \in Present(b) \ Present(t) : MovedTo(b, t, f) # {} }
Copied(b, t)      == UNION { MovedTo(b, t, f) : f \in Present(b) }

WithinButMoves(c, b, t) ==
  LET seen == Changed(b, t) \ MovedAway(b, t)
      new  == Created(b, t) \ Copied(b, t)
  IN  /\ seen \subseteq c.allowed /\ seen \cap c.protected = {}
      /\ new \subseteq c.permitted
      /\ seen \cap Dependencies # {} => c.deps /\ seen \cap Dependencies \subseteq c.permitted
      /\ \A f \in seen : /\ t[f] = Weak => \E g \in Present(b) : b[g] = Weak
                         /\ t[f] = Absent => f \notin Tests
      /\ Cardinality(seen) <= c.maxChanged /\ Cardinality(new) <= c.maxNew

(* The final guard overlooks nothing but moves: whatever the tasks did to  *)
(* the worktree and to its index one after the other, a passing aggregate  *)
(* guard bounds every change, creation and deletion since the run's        *)
(* baseline, except that a file may be gone whose like has a new name, and *)
(* that name needs no permission (inspect_diff: git diff with rename       *)
(* detection, and the untracked files).                                    *)
FinalGuardSound ==
  pc \in {"finalJudged", "promoted"} /\ guard = "PASS"
    => WithinButMoves(AggregateTask, Baseline, tree)

(* Outside the allowed paths the owner loses at most what the patch brings *)
(* under an allowed new name; nothing there is written or just deleted     *)
(* (sandbox.promote after the guard).                                      *)
OutsideOnlyMoved ==
  \A f \in Changed(Baseline, delivered) \ AggregateTask.allowed :
    /\ delivered[f] = Absent
    /\ MovedTo(Baseline, delivered, f) \cap AggregateTask.allowed # {}

Compatible == \A c, d \in Plan : c.protected \cap d.allowed = {}

(* Tasks whose guards all passed pass together: budgets that hold one by   *)
(* one hold in sum, as long as no guard listed a new, a renamed or a       *)
(* dependency file, no role staged a cache file and no task protects what  *)
(* another may change (aggregate_task).                                    *)
BudgetsCompose ==
  pc = "finalJudged" /\ Compatible /\ permits = {} => guard = "PASS"

-----------------------------------------------------------------------------
(* What documents and tests of the repository say and the code does not do *)
(* (see the README): each is checked on its own.                           *)

(* The guard is bound to the task's contract and baseline (policy plan):   *)
(* a task that changed only what its contract allows passes its guard, if  *)
(* no role touched the index or left a cache file.                         *)
OwnChangePasses ==
  /\ pc = "judged" /\ Within(tasks[k], base, tree)
  /\ index = Present(Baseline)
  /\ \A f \in Ephemeral : tree[f] = base[f] /\ base[f] = Baseline[f]
  => guard = "PASS"

(* An out of scope change is not promoted: the owner's worktree receives   *)
(* no change, creation or deletion outside the allowed paths.              *)
DeliveredInScope ==
  Changed(Baseline, delivered) \subseteq AggregateTask.allowed
=============================================================================
