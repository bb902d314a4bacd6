------------------------- MODULE LiveEvidenceProofs -------------------------
(***************************************************************************)
(* Proofs about the sealed evidence, for every plan, every set of criteria *)
(* and any number of writes by others: outside the two unguarded windows,  *)
(* evidence is valid only as a completed seal left it, no run is let pass  *)
(* on anything else, and only a write by somebody else invalidates it.     *)
(***************************************************************************)
EXTENDS LiveEvidence, FiniteSetTheorems, TLAPS

-----------------------------------------------------------------------------
Both   == {"checks", "diff"}
Fields == {"by", "stage", "plain", "closed", "read", "judging", "map", "result", "overtaken", "swapped"}

\* The two reports of a cycle, none of them written by somebody else.
Genuine(r) == /\ r = [checks |-> r["checks"], diff |-> r["diff"]]
              /\ \A f \in Both : r[f].from # "stray"

LEMMA TheSources == Sources = {"checks", "diff", "log"}
<1>1. DOMAIN Order = 1..3 /\ Order[1] = "checks" /\ Order[2] = "diff" /\ Order[3] = "log"
  BY DEF Order
<1>2. 1..3 = {1, 2, 3}
  OBVIOUS
<1>. QED  BY <1>1, <1>2 DEF Sources

(* The order in which the files are copied.                                *)
LEMMA CopyOrder ==
  ASSUME NEW S, S \in {{}, {"checks"}, {"checks", "diff"}}
  PROVE  /\ S = {} => Order[Cardinality(S) + 1] = "checks" /\ Cardinality(S) + 1 < Len(Order)
         /\ S = {"checks"} => Order[Cardinality(S) + 1] = "diff" /\ Cardinality(S) + 1 < Len(Order)
         /\ S = {"checks", "diff"} => /\ Order[Cardinality(S) + 1] = "log"
                                      /\ ~(Cardinality(S) + 1 < Len(Order))
<1>1. Cardinality({}) = 0
  BY FS_EmptySet
<1>2. Cardinality({"checks"}) = 1
  BY FS_Singleton
<1>3. Cardinality({"checks", "diff"}) = 2
  <2>1. IsFiniteSet({"checks"}) /\ {"checks", "diff"} = {"checks"} \cup {"diff"}
    BY FS_Singleton
  <2>. QED  BY <1>2, <2>1, FS_AddElement
<1>4. /\ Order[1] = "checks" /\ Order[2] = "diff" /\ Order[3] = "log" /\ Len(Order) = 3
  BY DEF Order
<1>. QED  BY <1>1, <1>2, <1>3, <1>4

LEMMA WithFile ==
  ASSUME NEW g, NEW f, NEW c
  PROVE  /\ DOMAIN With(g, f, c) = DOMAIN g \cup {f}
         /\ \A x \in DOMAIN g : x # f => With(g, f, c)[x] = g[x]
         /\ With(g, f, c)[f] = c
BY DEF With

-----------------------------------------------------------------------------
(* The types, and when there is a manifest: without somebody else's doing  *)
(* no obligation is closed in the graph before the first one.              *)
TypeInv ==
  /\ core = [checks |-> core["checks"], diff |-> core["diff"]]
  /\ DOMAIN disk = Sources
  /\ DOMAIN view = Fields
  /\ view.read = [checks |-> view.read["checks"], diff |-> view.read["diff"]]
  /\ strays \in Nat
  /\ view.result # "none" => view.stage = "done"

SealedInv ==
  /\ pc \notin {"copy", "remove", "rename", "manifest"} => captured = NoFile
  /\ pc = "copy" => DOMAIN captured \in {{}, {"checks"}, Both}
  /\ pc \in {"remove", "rename", "manifest"} => Both \subseteq DOMAIN captured
  /\ tampered = {} =>
       /\ (pc \in {"validate", "record", "review", "gate"} => manifest # NoFile)
       /\ (graph # {} \/ view.closed # {} => manifest # NoFile)
  /\ view.result = "not sealed" /\ view.closed # {} => tampered # {}

(* The plan and the map of the seal are the core's, and so is what a       *)
(* validation reads of them unless they were rewritten after their hashing.*)
PapersInv ==
  \A f \in Papers : /\ f \in DOMAIN captured => captured[f] = Core(0)
                    /\ f \in DOMAIN manifest => manifest[f] = Core(0)

JudgeInv ==
  ~view.overtaken =>
    /\ view.stage = "intact" =>
         \A f \in Papers \cap DOMAIN bundle : Trusted(f) => bundle[f].from # "stray"
    /\ view.stage = "read" => /\ (Trusted("map") => view.map = Sources)
                             /\ (Trusted("plan") => view.judging = {plan})
    /\ view.result = "VALID" /\ Trusted("plan") => Accepts(plan, view.read.checks)

(* While nobody raced with the copies: what is captured is the core's, the *)
(* manifest describes a completed seal, and a file of the bundle that      *)
(* somebody else wrote is not the one in the run directory.                *)
Foreign(c) == c.from = "stray"

CapturedInv ==
  /\ Genuine(core) /\ \A r \in sealed : Genuine(r)
  /\ pc \in {"copy", "remove", "rename", "manifest"} =>
       \A f \in Both : IF f \in DOMAIN captured THEN captured[f] = core[f] ELSE disk[f] = core[f]
  /\ Both \subseteq DOMAIN manifest =>
       \E r \in sealed : \A f \in Both : manifest[f] = r[f]

StrayInv ==
  \A f \in Both :
    /\ Foreign(disk[f]) => disk[f].n \in Nat /\ disk[f].n <= strays
    /\ f \in DOMAIN bundle /\ Foreign(bundle[f]) =>
         bundle[f].n \in Nat /\ bundle[f].n <= strays /\ bundle[f] # disk[f]

(* A validation that no seal overtakes sees one completed seal, apart from *)
(* what somebody else wrote.                                               *)
ViewInv ==
  /\ view.stage = "intact" /\ ~view.overtaken /\ Both \subseteq DOMAIN bundle =>
       \E r \in sealed : \A f \in Both : bundle[f] = r[f] \/ Foreign(bundle[f])
  /\ view.stage = "read" /\ ~view.overtaken =>
       \E r \in sealed : \A f \in Both :
         view.read[f] = r[f] \/ (f \in DOMAIN bundle => Foreign(bundle[f]))
  /\ view.result = "VALID" /\ ~view.overtaken /\ Trusted("map") => view.read \in sealed

Inv == /\ TypeInv /\ SealedInv /\ PapersInv /\ JudgeInv
       /\ ~raced => CapturedInv /\ StrayInv /\ ViewInv

-----------------------------------------------------------------------------
LEMMA InitInv == Init => Inv
<1> SUFFICES ASSUME Init PROVE Inv
  OBVIOUS
<1>1. /\ core = NoReports /\ disk = [f \in Sources |-> Absent] /\ view = NoView /\ sealed = {}
      /\ manifest = NoFile /\ captured = NoFile /\ bundle = NoFile /\ pc = "required"
      /\ graph = {} /\ strays = 0
  BY DEF Init
<1>2. /\ NoReports = [checks |-> NoReports["checks"], diff |-> NoReports["diff"]]
      /\ \A f \in Both : NoReports[f] = Absent
  BY DEF NoReports, Both
<1>3. /\ DOMAIN NoView = Fields /\ NoView.stage = "idle" /\ NoView.result = "none"
      /\ NoView.closed = {} /\ NoView.read = NoReports
  BY DEF NoView, Fields
<1>4. Absent.from = "absent" /\ DOMAIN NoFile = {}
  BY DEF Absent, Content, NoFile
<1>5. Both \subseteq Sources /\ Both # {}
  BY TheSources DEF Both
<1>6. TypeInv
  BY <1>1, <1>2, <1>3 DEF TypeInv
<1>7. SealedInv
  BY <1>1, <1>3 DEF SealedInv
<1>8. CapturedInv
  BY <1>1, <1>2, <1>4, <1>5 DEF CapturedInv, Genuine
<1>9. StrayInv
  BY <1>1, <1>4, <1>5 DEF StrayInv, Foreign
<1>10. ViewInv /\ JudgeInv
  BY <1>1, <1>3 DEF ViewInv, JudgeInv
<1>11. PapersInv
  BY <1>1, <1>4 DEF PapersInv
<1>. QED  BY <1>6, <1>7, <1>8, <1>9, <1>10, <1>11 DEF Inv

-----------------------------------------------------------------------------
(* The steps that write the reports of a cycle.                            *)
LEMMA CoreStep ==
  ASSUME Inv, RunRequired \/ RunPostProof \/ InspectDiff
  PROVE  /\ UNCHANGED <<plan, captured, bundle, manifest, graph, sealed, view, strays, raced, tampered>>
         /\ pc \notin {"copy", "remove", "rename", "manifest", "validate", "record", "review", "gate"}
         /\ pc' \notin {"copy", "remove", "rename", "manifest", "validate", "record", "review", "gate"}
         /\ core' = [checks |-> core'["checks"], diff |-> core'["diff"]]
         /\ ~raced => Genuine(core')
         /\ DOMAIN disk' = Sources
         /\ \A f \in Both : disk'[f] = disk[f] \/ ~Foreign(disk'[f])
<1> USE DEF runVars, seals, proofs, history
<1>0. /\ core = [checks |-> core["checks"], diff |-> core["diff"]] /\ DOMAIN disk = Sources
      /\ ~raced => Genuine(core)
  BY DEF Inv, TypeInv, CapturedInv
<1>1. Sources = {"checks", "diff", "log"}
  BY TheSources
<1>a. CASE RunRequired
  <2>1. PICK passed, verdict :
          /\ core' = [core EXCEPT !.checks = Content("required", cycle, passed, verdict)]
          /\ disk' = [disk EXCEPT !["checks"] = core'.checks, !["log"] = Core(cycle)]
    BY <1>a DEF RunRequired
  <2> DEFINE c == Content("required", cycle, passed, verdict)
  <2>2. c.from = "required"
    BY DEF Content
  <2>3. core' = [checks |-> c, diff |-> core["diff"]]
    BY <1>0, <2>1
  <2>4. /\ DOMAIN disk' = Sources /\ disk'["checks"] = c /\ disk'["diff"] = disk["diff"]
    BY <1>0, <1>1, <2>1, <2>3
  <2>5. \A f \in Both : disk'[f] = disk[f] \/ ~Foreign(disk'[f])
    BY <2>2, <2>4 DEF Both, Foreign
  <2>6. ~raced => Genuine(core')
    BY <1>0, <2>2, <2>3 DEF Genuine, Both
  <2>7. core' = [checks |-> core'["checks"], diff |-> core'["diff"]]
    BY <2>3
  <2>. QED  BY <1>a, <2>4, <2>5, <2>6, <2>7 DEF RunRequired
<1>b. CASE RunPostProof
  <2>1. PICK passed :
          /\ core' = [core EXCEPT !.checks = Merged(core.checks, passed)]
          /\ disk' = [disk EXCEPT !["checks"] = core'.checks]
    BY <1>b DEF RunPostProof
  <2> DEFINE c == Merged(core.checks, passed)
  <2>2. c.from = "merged"
    BY DEF Content, Merged
  <2>3. core' = [checks |-> c, diff |-> core["diff"]]
    BY <1>0, <2>1
  <2>4. /\ DOMAIN disk' = Sources /\ disk'["checks"] = c /\ disk'["diff"] = disk["diff"]
    BY <1>0, <1>1, <2>1, <2>3
  <2>5. \A f \in Both : disk'[f] = disk[f] \/ ~Foreign(disk'[f])
    BY <2>2, <2>4 DEF Both, Foreign
  <2>6. ~raced => Genuine(core')
    BY <1>0, <2>2, <2>3 DEF Genuine, Both
  <2>7. core' = [checks |-> core'["checks"], diff |-> core'["diff"]]
    BY <2>3
  <2>. QED  BY <1>b, <2>4, <2>5, <2>6, <2>7 DEF RunPostProof
<1>c. CASE InspectDiff
  <2>1. PICK verdict :
          /\ core' = [core EXCEPT !.diff = Content("core", cycle, {}, verdict)]
          /\ disk' = [disk EXCEPT !["diff"] = core'.diff]
    BY <1>c DEF InspectDiff
  <2> DEFINE c == Content("core", cycle, {}, verdict)
  <2>2. c.from = "core"
    BY DEF Content
  <2>3. core' = [checks |-> core["checks"], diff |-> c]
    BY <1>0, <2>1
  <2>4. /\ DOMAIN disk' = Sources /\ disk'["diff"] = c /\ disk'["checks"] = disk["checks"]
    BY <1>0, <1>1, <2>1, <2>3
  <2>5. \A f \in Both : disk'[f] = disk[f] \/ ~Foreign(disk'[f])
    BY <2>2, <2>4 DEF Both, Foreign
  <2>6. ~raced => Genuine(core')
    BY <1>0, <2>2, <2>3 DEF Genuine, Both
  <2>7. core' = [checks |-> core'["checks"], diff |-> core'["diff"]]
    BY <2>3
  <2>. QED  BY <1>c, <2>4, <2>5, <2>6, <2>7 DEF InspectDiff
<1>. QED  BY <1>a, <1>b, <1>c

LEMMA CoreStepInv == ASSUME Inv, RunRequired \/ RunPostProof \/ InspectDiff PROVE Inv'
<1>1. /\ UNCHANGED <<plan, captured, bundle, manifest, graph, sealed, view, strays, raced, tampered>>
      /\ pc \notin {"copy", "remove", "rename", "manifest", "validate", "record", "review", "gate"}
      /\ pc' \notin {"copy", "remove", "rename", "manifest", "validate", "record", "review", "gate"}
      /\ core' = [checks |-> core'["checks"], diff |-> core'["diff"]]
      /\ ~raced => Genuine(core')
      /\ DOMAIN disk' = Sources
      /\ \A f \in Both : disk'[f] = disk[f] \/ ~Foreign(disk'[f])
  BY CoreStep
<1>2. TypeInv'
  BY <1>1 DEF Inv, TypeInv
<1>3. SealedInv'
  BY <1>1 DEF Inv, SealedInv
<1>4. ~raced => CapturedInv'
  BY <1>1 DEF Inv, CapturedInv
<1>5. ~raced => StrayInv'
  <2> SUFFICES ASSUME StrayInv, NEW f \in Both
               PROVE  /\ Foreign(disk'[f]) => disk'[f].n \in Nat /\ disk'[f].n <= strays
                      /\ f \in DOMAIN bundle /\ Foreign(bundle[f]) =>
                           bundle[f].n \in Nat /\ bundle[f].n <= strays /\ bundle[f] # disk'[f]
    BY <1>1 DEF Inv, StrayInv
  <2>. QED  BY <1>1 DEF StrayInv
<1>6. ~raced => ViewInv'
  BY <1>1 DEF Inv, ViewInv, Trusted
<1>7. PapersInv' /\ JudgeInv'
  BY <1>1 DEF Inv, PapersInv, JudgeInv, Trusted, Accepts
<1>. QED  BY <1>1, <1>2, <1>3, <1>4, <1>5, <1>6, <1>7 DEF Inv

-----------------------------------------------------------------------------
(* The seal.                                                               *)
LEMMA RequireInv == ASSUME Inv, Require PROVE Inv'
<1> USE DEF runVars, seals, proofs, history
<1>1. /\ UNCHANGED <<plan, core, disk, captured, bundle, manifest, graph, sealed, view, strays, raced, tampered>>
      /\ pc = "require" /\ pc' \in {"copy", "failed"} /\ captured = NoFile
      /\ pc' = "copy" => \A f \in Both : disk[f] = core[f]
  BY DEF Require, Unchanged, Both, Inv, SealedInv
<1>2. DOMAIN NoFile = {}
  BY DEF NoFile
<1>3. TypeInv'
  BY <1>1 DEF Inv, TypeInv
<1>4. SealedInv'
  BY <1>1, <1>2 DEF Inv, SealedInv
<1>5. ~raced => CapturedInv'
  BY <1>1, <1>2 DEF Inv, CapturedInv
<1>6. ~raced => StrayInv' /\ ViewInv'
  BY <1>1 DEF Inv, StrayInv, ViewInv, Trusted
<1>7. PapersInv' /\ JudgeInv'
  BY <1>1 DEF Inv, PapersInv, JudgeInv, Trusted, Accepts
<1>. QED  BY <1>1, <1>3, <1>4, <1>5, <1>6, <1>7 DEF Inv

LEMMA CopyNextInv == ASSUME Inv, CopyNext PROVE Inv'
<1> USE DEF runVars, seals, proofs, history
<1>1. /\ UNCHANGED <<plan, core, disk, bundle, manifest, graph, sealed, view, strays, raced, tampered>>
      /\ pc = "copy" /\ DOMAIN captured \in {{}, {"checks"}, Both}
  BY DEF CopyNext, Inv, SealedInv
<1>2. \/ /\ DOMAIN captured = {} /\ pc' = "copy"
         /\ captured' = With(captured, "checks", disk["checks"])
      \/ /\ DOMAIN captured = {"checks"} /\ pc' = "copy"
         /\ captured' = With(captured, "diff", disk["diff"])
      \/ /\ DOMAIN captured = Both /\ pc' = "remove"
         /\ captured' = Described(With(captured, "log", disk["log"]))
  BY <1>1, CopyOrder DEF CopyNext, Both
<1>3. /\ pc' \in {"copy", "remove"}
      /\ pc' = "copy" => DOMAIN captured' \in {{}, {"checks"}, Both}
      /\ pc' = "remove" => Both \subseteq DOMAIN captured'
      /\ DOMAIN captured \subseteq DOMAIN captured'
      /\ \A f \in Both : f \in DOMAIN captured' =>
           captured'[f] = IF f \in DOMAIN captured THEN captured[f] ELSE disk[f]
      /\ \A f \in Papers \cap DOMAIN captured' : captured'[f] = Core(0)
  <2>1. CASE DOMAIN captured = {} /\ pc' = "copy" /\ captured' = With(captured, "checks", disk["checks"])
    <3>1. DOMAIN captured' = {"checks"} /\ captured'["checks"] = disk["checks"]
      BY <2>1 DEF With
    <3>. QED  BY <2>1, <3>1 DEF Both, Papers
  <2>2. CASE DOMAIN captured = {"checks"} /\ pc' = "copy" /\ captured' = With(captured, "diff", disk["diff"])
    <3>1. /\ DOMAIN captured' = Both /\ captured'["diff"] = disk["diff"]
          /\ captured'["checks"] = captured["checks"]
      BY <2>2 DEF With, Both
    <3>. QED  BY <2>2, <3>1 DEF Both, Papers
  <2>3. CASE DOMAIN captured = Both /\ pc' = "remove" /\ captured' = Described(With(captured, "log", disk["log"]))
    <3> DEFINE w == With(captured, "log", disk["log"])
               v == With(w, "plan", Core(0))
    <3>1. DOMAIN w = DOMAIN captured \cup {"log"} /\ \A f \in Both : w[f] = captured[f]
      BY <2>3 DEF With, Both
    <3>2. DOMAIN v = DOMAIN w \cup {"plan"} /\ \A f \in Both : v[f] = w[f]
      BY <2>3, <3>1, WithFile DEF Both
    <3>3. captured' = With(v, "map", Core(0))
      BY <2>3 DEF Described
    <3>4. DOMAIN captured' = DOMAIN v \cup {"map"} /\ \A f \in Both : captured'[f] = v[f]
      BY <2>3, <3>1, <3>2, <3>3, WithFile DEF Both
    <3>5. "plan" \in DOMAIN v /\ v["plan"] = Core(0)
      BY DEF With
    <3>6. captured'["map"] = Core(0) /\ captured'["plan"] = Core(0)
      <4>. HIDE DEF v
      <4>. QED  BY <3>3, <3>5 DEF With
    <3>7. \A f \in Papers \cap DOMAIN captured' : captured'[f] = Core(0)
      BY <3>6 DEF Papers
    <3>. QED  BY <2>3, <3>1, <3>2, <3>4, <3>7
  <2>. QED  BY <1>2, <2>1, <2>2, <2>3
<1>4. TypeInv'
  BY <1>1 DEF Inv, TypeInv
<1>5. SealedInv'
  BY <1>1, <1>3 DEF Inv, SealedInv
<1>6. ~raced => CapturedInv'
  BY <1>1, <1>3 DEF Inv, CapturedInv
<1>7. ~raced => StrayInv' /\ ViewInv'
  BY <1>1 DEF Inv, StrayInv, ViewInv, Trusted
<1>8. PapersInv' /\ JudgeInv'
  BY <1>1, <1>3 DEF Inv, PapersInv, JudgeInv, Trusted, Accepts
<1>. QED  BY <1>1, <1>4, <1>5, <1>6, <1>7, <1>8 DEF Inv

\* A validation that is overtaken is no longer promised anything.
LEMMA OvertakeView ==
  ASSUME TypeInv, Overtake
  PROVE  /\ DOMAIN view' = Fields /\ view'.read = view.read /\ view'.result = view.result
         /\ view'.stage = view.stage /\ view'.closed = view.closed /\ view'.swapped = view.swapped
         /\ view.stage \in {"intact", "read"} => view'.overtaken
         /\ view.stage \notin {"intact", "read"} => view'.overtaken = view.overtaken
BY DEF TypeInv, Overtake, Fields

LEMMA RemoveBundleInv == ASSUME Inv, RemoveBundle PROVE Inv'
<1> USE DEF runVars, seals, proofs, history
<1>1. /\ UNCHANGED <<plan, core, disk, captured, manifest, graph, sealed, strays, raced, tampered>>
      /\ pc = "remove" /\ pc' = "rename" /\ bundle' = NoFile /\ DOMAIN bundle' = {}
  BY DEF RemoveBundle, NoFile
<1>2. /\ DOMAIN view' = Fields /\ view'.read = view.read /\ view'.result = view.result
      /\ view'.stage = view.stage /\ view'.closed = view.closed /\ view'.swapped = view.swapped
      /\ view.stage \in {"intact", "read"} => view'.overtaken
      /\ view.stage \notin {"intact", "read"} => view'.overtaken = view.overtaken
  BY OvertakeView DEF RemoveBundle, Inv
<1>3. TypeInv'
  BY <1>1, <1>2 DEF Inv, TypeInv
<1>4. SealedInv'
  BY <1>1, <1>2 DEF Inv, SealedInv
<1>5. ~raced => CapturedInv' /\ StrayInv'
  BY <1>1 DEF Inv, CapturedInv, StrayInv
<1>6. ~raced => ViewInv'
  BY <1>1, <1>2 DEF Inv, TypeInv, ViewInv, Trusted
<1>7. PapersInv' /\ JudgeInv'
  BY <1>1, <1>2 DEF Inv, TypeInv, PapersInv, JudgeInv, Trusted, Accepts
<1>. QED  BY <1>1, <1>3, <1>4, <1>5, <1>6, <1>7 DEF Inv

LEMMA RenameInv == ASSUME Inv, Rename PROVE Inv'
<1> USE DEF runVars, seals, proofs, history
<1>1. /\ UNCHANGED <<plan, core, disk, captured, manifest, graph, sealed, strays, raced, tampered>>
      /\ pc = "rename" /\ pc' = "manifest" /\ bundle' = With(captured, "map", Core(0))
  BY DEF Rename
<1>2. /\ DOMAIN view' = Fields /\ view'.read = view.read /\ view'.result = view.result
      /\ view'.stage = view.stage /\ view'.closed = view.closed /\ view'.swapped = view.swapped
      /\ view.stage \in {"intact", "read"} => view'.overtaken
      /\ view.stage \notin {"intact", "read"} => view'.overtaken = view.overtaken
  BY OvertakeView DEF Rename, Inv
<1>3. TypeInv'
  BY <1>1, <1>2 DEF Inv, TypeInv
<1>4. SealedInv'
  BY <1>1, <1>2 DEF Inv, SealedInv
<1>5. ~raced => CapturedInv'
  BY <1>1 DEF Inv, CapturedInv
<1>6. ~raced => StrayInv'
  <2> SUFFICES ASSUME ~raced, NEW f \in Both
               PROVE  (Foreign(disk[f]) => disk[f].n \in Nat /\ disk[f].n <= strays) /\ ~Foreign(bundle'[f])
    BY <1>1 DEF StrayInv
  <2>1. f \in DOMAIN captured /\ captured[f] = core[f] /\ ~Foreign(core[f])
    BY <1>1 DEF Inv, SealedInv, CapturedInv, Genuine, Foreign
  <2>2. bundle'[f] = captured[f]
    BY <1>1, <2>1 DEF With, Both
  <2>. QED  BY <2>1, <2>2 DEF Inv, StrayInv
<1>7. ~raced => ViewInv'
  BY <1>1, <1>2 DEF Inv, TypeInv, ViewInv, Trusted
<1>8. PapersInv' /\ JudgeInv'
  BY <1>1, <1>2 DEF Inv, TypeInv, PapersInv, JudgeInv, Trusted, Accepts
<1>. QED  BY <1>1, <1>3, <1>4, <1>5, <1>6, <1>7, <1>8 DEF Inv

LEMMA WriteManifestInv == ASSUME Inv, WriteManifest PROVE Inv'
<1> USE DEF runVars, seals, proofs, history
<1>1. /\ UNCHANGED <<plan, core, disk, bundle, graph, view, strays, raced, tampered>>
      /\ pc = "manifest" /\ pc' = "validate" /\ manifest' = captured /\ captured' = NoFile
      /\ sealed' = sealed \cup {core} /\ Both \subseteq DOMAIN captured
  BY DEF WriteManifest, Inv, SealedInv
<1>2. captured # NoFile
  BY <1>1 DEF NoFile, Both
<1>3. TypeInv'
  BY <1>1 DEF Inv, TypeInv
<1>4. SealedInv'
  BY <1>1, <1>2 DEF Inv, SealedInv
<1>5. ~raced => CapturedInv'
  <2>1. ~raced => \A f \in Both : manifest'[f] = core[f]
    BY <1>1 DEF Inv, CapturedInv
  <2>. QED  BY <1>1, <2>1 DEF Inv, CapturedInv
<1>6. ~raced => StrayInv' /\ ViewInv'
  BY <1>1 DEF Inv, StrayInv, ViewInv, Trusted
<1>7. PapersInv'
  BY <1>1 DEF Inv, PapersInv, NoFile
<1>8. JudgeInv'
  BY <1>1 DEF Inv, JudgeInv, Trusted, Accepts
<1>. QED  BY <1>1, <1>3, <1>4, <1>5, <1>6, <1>7, <1>8 DEF Inv

-----------------------------------------------------------------------------
(* The validation.  What only the view changes needs only the view.        *)
LEMMA ViewStep ==
  ASSUME Inv, UNCHANGED <<plan, core, disk, captured, bundle, manifest, graph, sealed, strays, raced, tampered>>,
         pc' = pc \/ pc' \in {"record", "done"},
         pc \in {"copy", "remove", "rename", "manifest"} => pc' = pc,
         pc \in {"validate", "record", "review", "gate"} \/ pc' = pc,
         DOMAIN view' = Fields,
         view'.read = [checks |-> view'.read["checks"], diff |-> view'.read["diff"]],
         view'.result # "none" => view'.stage = "done",
         view'.closed \in {{}, graph, view.closed},
         view'.result = "not sealed" => manifest = NoFile /\ view'.closed = view.closed,
         JudgeInv',
         ~raced => ViewInv'
  PROVE  Inv'
<1>1. TypeInv'
  BY DEF Inv, TypeInv
<1>2. SealedInv'
  BY DEF Inv, SealedInv
<1>3. ~raced => CapturedInv' /\ StrayInv'
  BY DEF Inv, CapturedInv, StrayInv
<1>4. PapersInv'
  BY DEF Inv, PapersInv
<1>. QED  BY <1>1, <1>2, <1>3, <1>4 DEF Inv

\* Nothing is promised of a view that neither reads nor has found valid.
LEMMA IdleView ==
  ASSUME view'.stage \notin {"intact", "read"}, view'.result # "VALID"
  PROVE  ViewInv' /\ JudgeInv'
BY DEF ViewInv, JudgeInv

LEMMA NoViewFacts ==
  /\ DOMAIN NoView = Fields /\ NoView.stage = "idle" /\ NoView.result = "none"
  /\ NoView.closed = {} /\ NoView.overtaken = FALSE /\ NoView.swapped = {}
  /\ NoView.read = [checks |-> NoView.read["checks"], diff |-> NoView.read["diff"]]
BY DEF NoView, Fields, NoReports

LEMMA BeginInv == ASSUME Inv, NEW by, NEW stage, stage \in {"begun", "open"}, Begin(by, stage), pc' = pc
                  PROVE  Inv'
<1> USE DEF runVars, seals, proofs, history
<1>1. UNCHANGED <<plan, core, disk, captured, bundle, manifest, graph, sealed, strays, raced, tampered>>
  BY DEF Begin
<1>2. /\ DOMAIN view' = Fields /\ view'.read = NoView.read /\ view'.result = "none"
      /\ view'.stage = stage /\ view'.closed = {}
  BY NoViewFacts DEF Begin, Fields
<1>3. ViewInv' /\ JudgeInv'
  BY <1>2, IdleView
<1>. QED  BY <1>1, <1>2, <1>3, NoViewFacts, ViewStep

\* What is known of a validation in progress.
LEMMA InProgress ==
  ASSUME Inv, view.stage \in {"begun", "open", "intact", "read"}
  PROVE  /\ DOMAIN view = Fields /\ view.result = "none"
         /\ view.read = [checks |-> view.read["checks"], diff |-> view.read["diff"]]
BY DEF Inv, TypeInv

LEMMA ReadGraphInv == ASSUME Inv, ReadGraph PROVE Inv'
<1> USE DEF runVars, seals, proofs, history
<1>0. /\ DOMAIN view = Fields /\ view.result = "none"
      /\ view.read = [checks |-> view.read["checks"], diff |-> view.read["diff"]]
  BY InProgress DEF ReadGraph
<1>1. /\ UNCHANGED <<plan, core, disk, captured, bundle, manifest, graph, sealed, strays, raced, tampered>>
      /\ pc' = pc
  BY DEF ReadGraph
<1>2. /\ DOMAIN view' = Fields /\ view'.read = view.read /\ view'.result = "none"
      /\ view'.stage = "open" /\ view'.closed = graph
  BY <1>0 DEF ReadGraph, Fields
<1>3. ViewInv' /\ JudgeInv'
  BY <1>2, IdleView
<1>. QED  BY <1>0, <1>1, <1>2, <1>3, ViewStep

LEMMA RefusedInv ==
  ASSUME Inv, Result("REJECTED"), pc' = pc,
         UNCHANGED <<plan, core, disk, captured, bundle, manifest, graph, sealed, strays, raced, tampered>>
  PROVE  Inv'
<1>1. view' = [NoView EXCEPT !.by = view.by, !.stage = "done", !.result = "REJECTED"]
  BY DEF Result
<1>2. /\ DOMAIN view' = Fields /\ view'.read = NoView.read /\ view'.stage = "done"
      /\ view'.closed = {} /\ view'.result = "REJECTED"
  BY <1>1, NoViewFacts DEF Fields
<1>3. ViewInv' /\ JudgeInv'
  BY <1>2, IdleView
<1>. QED  BY <1>2, <1>3, NoViewFacts, ViewStep

LEMMA StructureInv == ASSUME Inv, Structure PROVE Inv'
<1> USE DEF runVars, seals, proofs, history
<1>0. /\ DOMAIN view = Fields /\ view.result = "none"
      /\ view.read = [checks |-> view.read["checks"], diff |-> view.read["diff"]]
  BY InProgress DEF Structure
<1>1. /\ UNCHANGED <<plan, core, disk, captured, bundle, manifest, graph, sealed, strays, raced, tampered>>
      /\ pc' = pc
  BY DEF Structure
<1>2. CASE Result("REJECTED")
  BY <1>1, <1>2, RefusedInv
<1>3. CASE manifest = NoFile /\ Result("not sealed")
  <2>1. /\ DOMAIN view' = Fields /\ view'.read = view.read /\ view'.stage = "done"
        /\ view'.closed = view.closed /\ view'.result = "not sealed"
    BY <1>0, <1>3 DEF Result, Fields
  <2>2. ViewInv' /\ JudgeInv'
    BY <2>1, IdleView
  <2>. QED  BY <1>0, <1>1, <1>3, <2>1, <2>2, ViewStep
<1>4. CASE Intact /\ view' = [view EXCEPT !.stage = "intact", !.plain = NoReports]
  <2>1. /\ DOMAIN view' = Fields /\ view'.read = view.read /\ view'.stage = "intact"
        /\ view'.closed = view.closed /\ view'.result = "none" /\ bundle = manifest
    BY <1>0, <1>4 DEF Intact, Fields
  <2>2. ~raced => ViewInv'
    BY <1>1, <2>1 DEF Inv, CapturedInv, ViewInv
  <2>3. \A f \in Papers \cap DOMAIN bundle : bundle[f].from # "stray"
    BY <2>1 DEF Inv, PapersInv, Core, Content
  <2>4. JudgeInv'
    BY <1>1, <2>1, <2>3 DEF JudgeInv
  <2>. QED  BY <1>0, <1>1, <2>1, <2>2, <2>4, ViewStep
<1>. QED  BY <1>2, <1>3, <1>4 DEF Structure

LEMMA ReadBundleInv == ASSUME Inv, ReadBundle PROVE Inv'
<1> USE DEF runVars, seals, proofs, history
<1>0. /\ DOMAIN view = Fields /\ view.result = "none" /\ view.stage = "intact"
      /\ view.read = [checks |-> view.read["checks"], diff |-> view.read["diff"]]
  BY InProgress DEF ReadBundle
<1>1. /\ UNCHANGED <<plan, core, disk, captured, bundle, manifest, graph, sealed, strays, raced, tampered>>
      /\ pc' = pc
  BY DEF ReadBundle
<1>2. CASE Result("REJECTED")
  BY <1>1, <1>2, RefusedInv
<1>3. CASE /\ Sources \cup Papers \subseteq DOMAIN bundle
           /\ \E m \in Maps(bundle["map"]), p \in Plans(bundle["plan"]) :
                view' = [view EXCEPT !.stage = "read", !.map = m, !.judging = {p},
                           !.read = [checks |-> bundle["checks"], diff |-> bundle["diff"]]]
  <2>1. PICK m \in Maps(bundle["map"]), p \in Plans(bundle["plan"]) :
          view' = [view EXCEPT !.stage = "read", !.map = m, !.judging = {p},
                     !.read = [checks |-> bundle["checks"], diff |-> bundle["diff"]]]
    BY <1>3
  <2>2. /\ DOMAIN view' = Fields /\ view'.stage = "read" /\ view'.overtaken = view.overtaken
        /\ view'.read = [checks |-> bundle["checks"], diff |-> bundle["diff"]]
        /\ view'.map = m /\ view'.judging = {p} /\ view'.swapped = view.swapped
        /\ view'.closed = view.closed /\ view'.result = "none"
    BY <1>0, <2>1 DEF Fields
  <2>3. Both \subseteq DOMAIN bundle /\ \A f \in Both : view'.read[f] = bundle[f]
    BY <1>3, <2>2, TheSources DEF Both
  <2>4. ~raced => ViewInv'
    BY <1>0, <1>1, <2>2, <2>3 DEF Inv, ViewInv
  <2>5. JudgeInv'
    <3> SUFFICES ASSUME ~view.overtaken
                 PROVE  /\ Trusted("map") => m = Sources
                        /\ Trusted("plan") => p = plan
      BY <1>1, <2>2 DEF JudgeInv, Trusted
    <3>1. \A f \in Papers : Trusted(f) => bundle[f].from # "stray"
      BY <1>0, <1>3 DEF Inv, JudgeInv
    <3>. QED  BY <2>1, <3>1 DEF Papers, Maps, Plans
  <2>6. view'.read = [checks |-> view'.read["checks"], diff |-> view'.read["diff"]]
    BY <2>2
  <2>. QED  BY <1>0, <1>1, <2>2, <2>4, <2>5, <2>6, ViewStep
<1>. QED  BY <1>2, <1>3 DEF ReadBundle

(* The files of the run directory tell a bundle somebody wrote into from   *)
(* the sealed one, as far as the map names them.                           *)
LEMMA CompareInv == ASSUME Inv, Compare PROVE Inv'
<1> USE DEF runVars, seals, proofs, history
<1>0. /\ DOMAIN view = Fields /\ view.result = "none" /\ view.stage = "read"
      /\ view.read = [checks |-> view.read["checks"], diff |-> view.read["diff"]]
  BY InProgress DEF Compare
<1>1. /\ UNCHANGED <<plan, core, disk, captured, bundle, manifest, graph, sealed, strays, raced, tampered>>
      /\ pc' = pc
  BY DEF Compare
<1>2. CASE Result("REJECTED")
  BY <1>1, <1>2, RefusedInv
<1>3. CASE SourcesMatch /\ (\A p \in view.judging : Accepts(p, view.read.checks)) /\ Result("VALID")
  <2>1. /\ DOMAIN view' = Fields /\ view'.read = view.read /\ view'.stage = "done"
        /\ view'.overtaken = view.overtaken /\ view'.swapped = view.swapped
        /\ view'.closed = view.closed /\ view'.result = "VALID"
    BY <1>0, <1>3 DEF Result, Fields
  <2>2. ASSUME ~raced, ~view.overtaken, Trusted("map") PROVE view.read \in sealed
    <3>1. PICK q \in sealed : \A f \in Both :
            view.read[f] = q[f] \/ (f \in DOMAIN bundle => Foreign(bundle[f]))
      BY <1>0, <2>2 DEF Inv, ViewInv
    <3>2. view.map = Sources
      BY <1>0, <2>2 DEF Inv, JudgeInv
    <3>3. \A f \in Both : f \in DOMAIN bundle /\ bundle[f] = disk[f]
      BY <1>3, <3>2, TheSources DEF SourcesMatch, Both
    <3>4. \A f \in Both : f \in DOMAIN bundle /\ ~Foreign(bundle[f])
      BY <2>2, <3>3 DEF Inv, StrayInv
    <3>5. view.read["checks"] = q["checks"] /\ view.read["diff"] = q["diff"]
      BY <3>1, <3>4 DEF Both
    <3>6. q = [checks |-> q["checks"], diff |-> q["diff"]]
      BY <2>2 DEF Inv, CapturedInv, Genuine
    <3>7. view.read = q
      BY <1>0, <3>5, <3>6
    <3>. QED  BY <3>7
  <2>3. ~raced => ViewInv'
    BY <1>1, <2>1, <2>2 DEF ViewInv, Trusted
  <2>4. JudgeInv'
    <3>1. ~view.overtaken /\ Trusted("plan") => Accepts(plan, view.read.checks)
      BY <1>0, <1>3 DEF Inv, JudgeInv
    <3>. QED  BY <1>1, <2>1, <3>1 DEF JudgeInv, Trusted, Accepts
  <2>. QED  BY <1>0, <1>1, <2>1, <2>3, <2>4, ViewStep
<1>. QED  BY <1>2, <1>3 DEF Compare

LEMMA ForgottenInv ==
  ASSUME Inv, Dismiss \/ Validated \/ Gate
  PROVE  Inv'
<1> USE DEF runVars, seals, proofs, history
<1>1. /\ UNCHANGED <<plan, core, disk, captured, bundle, manifest, graph, sealed, strays, raced, tampered>>
      /\ view' = NoView
      /\ pc' = pc \/ (pc = "validate" /\ pc' = "record") \/ (pc = "gate" /\ pc' = "done")
  BY DEF Dismiss, Validated, Gate
<1>2. ViewInv' /\ JudgeInv'
  BY <1>1, NoViewFacts, IdleView
<1>. QED  BY <1>1, <1>2, NoViewFacts, ViewStep

-----------------------------------------------------------------------------
(* The rest of a cycle.                                                    *)
LEMMA RecordInv == ASSUME Inv, Record \/ Review PROVE Inv'
<1> USE DEF runVars, seals, proofs, history
<1>1. /\ UNCHANGED <<plan, core, disk, captured, bundle, manifest, sealed, view, strays, raced, tampered>>
      /\ pc \in {"record", "review"} /\ pc' \notin {"copy", "remove", "rename", "manifest"}
      /\ tampered = {} => manifest # NoFile
  BY DEF Record, Review, Inv, SealedInv
<1>2. TypeInv'
  BY <1>1 DEF Inv, TypeInv
<1>3. SealedInv'
  BY <1>1 DEF Inv, SealedInv
<1>4. ~raced => CapturedInv' /\ StrayInv' /\ ViewInv'
  BY <1>1 DEF Inv, CapturedInv, StrayInv, ViewInv, Trusted
<1>5. PapersInv' /\ JudgeInv'
  BY <1>1 DEF Inv, PapersInv, JudgeInv, Trusted, Accepts
<1>. QED  BY <1>1, <1>2, <1>3, <1>4, <1>5 DEF Inv

(* A run that stops, wherever it was.                                      *)
LEMMA StopInv == ASSUME Inv, Stop PROVE Inv'
<1> USE DEF runVars, seals, proofs, history
<1>1. /\ UNCHANGED <<plan, core, graph, sealed, strays, raced, tampered>> /\ captured' = NoFile
      /\ pc' = "failed" /\ DOMAIN captured' = {}
  BY DEF Stop, NoFile
<1>2. /\ DOMAIN bundle' \subseteq DOMAIN bundle /\ \A f \in DOMAIN bundle' : bundle'[f] = bundle[f]
  BY DEF Stop, Interrupted, Halves
<1>3. manifest' = manifest \/ DOMAIN manifest' = {"torn"}
  BY DEF Stop, Interrupted, With, NoFile
<1>4. DOMAIN disk' = Sources /\ \A f \in Both : disk'[f] = disk[f] \/ ~Foreign(disk'[f])
  <2>1. DOMAIN disk = Sources /\ ~Foreign(Torn)
    BY DEF Inv, TypeInv, Foreign, Torn, Content
  <2>2. disk' = disk \/ \E f \in Both : disk' = [disk EXCEPT ![f] = Torn]
    BY DEF Stop, Interrupted, Both
  <2>. QED  BY <2>1, <2>2, TheSources DEF Both
<1>5. view' = view \/ view' = NoView
  BY DEF Stop, GiveUp
<1>6. TypeInv'
  BY <1>1, <1>4, <1>5, NoViewFacts DEF Inv, TypeInv
<1>7. SealedInv'
  <2>1. manifest # NoFile => manifest' # NoFile
    BY <1>3 DEF NoFile
  <2>. QED  BY <1>1, <1>5, <2>1, NoViewFacts DEF Inv, SealedInv
<1>8. ~raced => CapturedInv'
  BY <1>1, <1>3 DEF Inv, CapturedInv, Both
<1>9. ~raced => StrayInv'
  <2> SUFFICES ASSUME StrayInv, NEW f \in Both
               PROVE  /\ Foreign(disk'[f]) => disk'[f].n \in Nat /\ disk'[f].n <= strays
                      /\ f \in DOMAIN bundle' /\ Foreign(bundle'[f]) =>
                           bundle'[f].n \in Nat /\ bundle'[f].n <= strays /\ bundle'[f] # disk'[f]
    BY <1>1 DEF Inv, StrayInv
  <2>. QED  BY <1>2, <1>4 DEF StrayInv
<1>10. PapersInv'
  BY <1>1, <1>3 DEF Inv, PapersInv, Papers
<1>11. (~raced => ViewInv') /\ JudgeInv'
  <2>1. CASE view' = NoView
    BY <2>1, NoViewFacts, IdleView
  <2>2. CASE view' = view
    <3>1. ~raced => ViewInv'
      BY <1>1, <1>2, <2>2 DEF Inv, ViewInv, Trusted
    <3>2. JudgeInv'
      BY <1>1, <1>2, <2>2 DEF Inv, JudgeInv, Trusted, Accepts
    <3>. QED  BY <3>1, <3>2
  <2>. QED  BY <1>5, <2>1, <2>2
<1>. QED  BY <1>1, <1>6, <1>7, <1>8, <1>9, <1>10, <1>11 DEF Inv

-----------------------------------------------------------------------------
(* A write by somebody else: it differs from every earlier one, so a file  *)
(* of the bundle that it replaces no longer matches the run directory.     *)
LEMMA OtherFacts == ASSUME Inv PROVE Foreign(Other) /\ Other.n = strays + 1 /\ strays \in Nat
BY DEF Inv, TypeInv, Other, Content, Foreign

LEMMA StrayReportInv ==
  ASSUME Inv, StrayReport, strays' = strays + 1,
         UNCHANGED <<plan, pc, core, captured, sealed>>
  PROVE  Inv'
<1>0. /\ DOMAIN disk = Sources /\ strays \in Nat /\ strays' = strays + 1
      /\ Foreign(Other) /\ Other.n = strays + 1
  BY OtherFacts DEF Inv, TypeInv
<1>1. UNCHANGED <<plan, pc, core, captured, bundle, manifest, graph, sealed, view, tampered>>
  BY DEF StrayReport
<1>2. PICK f \in Sources :
        /\ disk' = [disk EXCEPT ![f] = Other]
        /\ raced' = (raced \/ (f # "log" /\ pc = "copy" /\ f \notin DOMAIN captured))
  BY DEF StrayReport
<1>3. /\ DOMAIN disk' = Sources /\ disk'[f] = Other
      /\ \A g \in Both : g # f => disk'[g] = disk[g]
  BY <1>0, <1>2, TheSources DEF Both
<1>4. TypeInv'
  BY <1>0, <1>1, <1>3 DEF Inv, TypeInv
<1>5. SealedInv'
  BY <1>1 DEF Inv, SealedInv
<1>6. PapersInv' /\ JudgeInv'
  BY <1>1 DEF Inv, PapersInv, JudgeInv, Trusted, Accepts
<1>7. ASSUME ~raced' PROVE CapturedInv'
  <2>1. ~raced /\ (f \in Both /\ pc = "copy" => f \in DOMAIN captured)
    BY <1>2, <1>7 DEF Both
  <2>2. pc \in {"copy", "remove", "rename", "manifest"} =>
          \A g \in Both : IF g \in DOMAIN captured THEN captured[g] = core[g] ELSE disk'[g] = core[g]
    BY <1>3, <2>1 DEF Inv, CapturedInv, SealedInv
  <2>. QED  BY <1>1, <2>1, <2>2 DEF Inv, CapturedInv
<1>8. ASSUME ~raced' PROVE StrayInv'
  <2>1. StrayInv
    BY <1>2, <1>8 DEF Inv
  <2> SUFFICES ASSUME NEW g \in Both
               PROVE  /\ Foreign(disk'[g]) => disk'[g].n \in Nat /\ disk'[g].n <= strays'
                      /\ g \in DOMAIN bundle /\ Foreign(bundle[g]) =>
                           bundle[g].n \in Nat /\ bundle[g].n <= strays' /\ bundle[g] # disk'[g]
    BY <1>1 DEF StrayInv
  <2>2. CASE g = f
    BY <1>0, <1>3, <2>1, <2>2 DEF StrayInv
  <2>3. CASE g # f
    BY <1>0, <1>3, <2>1, <2>3 DEF StrayInv
  <2>. QED  BY <2>2, <2>3
<1>9. ASSUME ~raced' PROVE ViewInv'
  BY <1>1, <1>2, <1>9 DEF Inv, ViewInv, Trusted
<1>. QED  BY <1>4, <1>5, <1>6, <1>7, <1>8, <1>9 DEF Inv

LEMMA StrayBundleInv ==
  ASSUME Inv, StrayBundle, strays' = strays + 1,
         UNCHANGED <<plan, pc, core, captured, sealed>>
  PROVE  Inv'
<1>0. /\ DOMAIN disk = Sources /\ strays \in Nat /\ strays' = strays + 1 /\ DOMAIN view = Fields
      /\ Foreign(Other) /\ Other.n = strays + 1
  BY OtherFacts DEF Inv, TypeInv
<1>1. UNCHANGED <<plan, pc, core, captured, disk, manifest, graph, sealed, raced, tampered>>
  BY DEF StrayBundle
<1>2. PICK f \in DOMAIN bundle \cup {"extra"} :
        /\ bundle' = With(bundle, f, Other)
        /\ view' = IF view.stage = "intact"
                   THEN [view EXCEPT !.swapped = @ \cup ({f} \cap Papers)] ELSE view
  BY DEF StrayBundle
<1>3. /\ DOMAIN view' = Fields /\ view'.stage = view.stage /\ view'.read = view.read
      /\ view'.result = view.result /\ view'.closed = view.closed
      /\ view'.overtaken = view.overtaken /\ view'.map = view.map /\ view'.judging = view.judging
      /\ view.stage = "intact" => view'.swapped = view.swapped \cup ({f} \cap Papers)
      /\ view.stage # "intact" => view'.swapped = view.swapped
  BY <1>0, <1>2 DEF Fields
<1>4. /\ \A g \in DOMAIN bundle : g \in DOMAIN bundle' /\ (g # f => bundle'[g] = bundle[g])
      /\ \A g \in DOMAIN bundle' : g \in DOMAIN bundle \/ g = "extra"
      /\ bundle'[f] = Other
  BY <1>2 DEF With
<1>5. \A g \in Both : /\ g \in DOMAIN bundle' <=> g \in DOMAIN bundle
                      /\ g \in DOMAIN bundle => bundle'[g] = bundle[g] \/ bundle'[g] = Other
  BY <1>4 DEF Both
<1>6. TypeInv'
  BY <1>0, <1>1, <1>3 DEF Inv, TypeInv
<1>7. SealedInv'
  BY <1>1, <1>3 DEF Inv, SealedInv
<1>8. PapersInv'
  BY <1>1 DEF Inv, PapersInv
<1>9. JudgeInv'
  <2>1. ASSUME view.stage = "intact", ~view.overtaken, NEW g \in Papers \cap DOMAIN bundle', g \notin view'.swapped
        PROVE  bundle'[g].from # "stray"
    <3>1. g # f /\ g \in DOMAIN bundle /\ g \notin view.swapped
      BY <1>3, <1>4, <2>1 DEF Papers
    <3>. QED  BY <1>4, <2>1, <3>1 DEF Inv, JudgeInv, Trusted
  <2>2. ASSUME view.stage = "read", ~view.overtaken
        PROVE  /\ "map" \notin view'.swapped => view.map = Sources
               /\ "plan" \notin view'.swapped => view.judging = {plan}
    BY <1>3, <2>2 DEF Inv, JudgeInv, Trusted
  <2>3. ASSUME view.result = "VALID", ~view.overtaken, "plan" \notin view'.swapped
        PROVE  Accepts(plan, view.read.checks)
    BY <1>3, <2>3 DEF Inv, JudgeInv, Trusted
  <2>. QED  BY <1>1, <1>3, <2>1, <2>2, <2>3 DEF JudgeInv, Trusted, Accepts
<1>10. ~raced => CapturedInv'
  BY <1>1 DEF Inv, CapturedInv
<1>11. ASSUME ~raced PROVE StrayInv'
  <2> SUFFICES ASSUME NEW g \in Both
               PROVE  /\ Foreign(disk[g]) => disk[g].n \in Nat /\ disk[g].n <= strays'
                      /\ g \in DOMAIN bundle' /\ Foreign(bundle'[g]) =>
                           bundle'[g].n \in Nat /\ bundle'[g].n <= strays' /\ bundle'[g] # disk[g]
    BY <1>1 DEF StrayInv
  <2>1. StrayInv
    BY <1>11 DEF Inv
  <2>2. Other.n > strays /\ Other.n \in Nat /\ Foreign(Other)
    BY <1>0
  <2>. QED  BY <1>0, <1>1, <1>5, <2>1, <2>2 DEF StrayInv
<1>12. ASSUME ~raced PROVE ViewInv'
  <2>1. ViewInv /\ Foreign(Other)
    BY <1>0, <1>12 DEF Inv
  <2>2. ASSUME view.stage = "intact", ~view.overtaken, Both \subseteq DOMAIN bundle'
        PROVE  \E r \in sealed : \A g \in Both : bundle'[g] = r[g] \/ Foreign(bundle'[g])
    <3>1. PICK r \in sealed : \A g \in Both : bundle[g] = r[g] \/ Foreign(bundle[g])
      BY <1>5, <2>1, <2>2 DEF ViewInv
    <3>. QED  BY <1>5, <2>1, <2>2, <3>1
  <2>3. ASSUME view.stage = "read", ~view.overtaken
        PROVE  \E r \in sealed : \A g \in Both :
                 view.read[g] = r[g] \/ (g \in DOMAIN bundle' => Foreign(bundle'[g]))
    <3>1. PICK r \in sealed : \A g \in Both :
            view.read[g] = r[g] \/ (g \in DOMAIN bundle => Foreign(bundle[g]))
      BY <2>1, <2>3 DEF ViewInv
    <3>. QED  BY <1>5, <2>1, <3>1
  <2>4. view.result = "VALID" /\ ~view.overtaken /\ "map" \notin view'.swapped => view.read \in sealed
    BY <1>3, <2>1 DEF ViewInv, Trusted
  <2>. QED  BY <1>1, <1>3, <2>2, <2>3, <2>4 DEF ViewInv, Trusted
<1>. QED  BY <1>1, <1>6, <1>7, <1>8, <1>9, <1>10, <1>11, <1>12 DEF Inv

\* The manifest and the graph: nothing is promised of them afterwards.
LEMMA TamperedInv ==
  ASSUME Inv, StrayManifest \/ StrayGraph, strays' = strays + 1,
         UNCHANGED <<plan, pc, core, captured, sealed>>
  PROVE  Inv'
<1>1. /\ UNCHANGED <<plan, pc, core, captured, disk, bundle, sealed, raced, view>> /\ tampered' # {}
      /\ strays \in Nat /\ strays' = strays + 1
  BY DEF StrayManifest, StrayGraph, Inv, TypeInv
<1>2. manifest' = manifest \/ DOMAIN manifest' \subseteq {"extra"}
  BY DEF StrayManifest, StrayGraph, With, NoFile
<1>3. TypeInv'
  BY <1>1 DEF Inv, TypeInv
<1>4. SealedInv'
  BY <1>1 DEF Inv, SealedInv
<1>5. PapersInv'
  BY <1>1, <1>2 DEF Inv, PapersInv, Papers
<1>6. JudgeInv'
  BY <1>1 DEF Inv, JudgeInv, Trusted, Accepts
<1>7. ~raced => CapturedInv'
  BY <1>1, <1>2 DEF Inv, CapturedInv, Both
<1>8. ~raced => StrayInv'
  BY <1>1 DEF Inv, StrayInv
<1>9. ~raced => ViewInv'
  BY <1>1 DEF Inv, ViewInv, Trusted
<1>. QED  BY <1>1, <1>3, <1>4, <1>5, <1>6, <1>7, <1>8, <1>9 DEF Inv

LEMMA StrayStepInv == ASSUME Inv, Stray PROVE Inv'
<1>1. strays' = strays + 1 /\ UNCHANGED <<plan, pc, core, captured, sealed>>
  BY DEF Stray, runVars
<1>. QED  BY <1>1, StrayReportInv, StrayBundleInv, TamperedInv DEF Stray

-----------------------------------------------------------------------------
LEMMA NextInv == Inv /\ [Next]_vars => Inv'
<1> SUFFICES ASSUME Inv, [Next]_vars PROVE Inv'
  OBVIOUS
<1>1. CASE RunRequired \/ RunPostProof \/ InspectDiff
  BY <1>1, CoreStepInv
<1>2. CASE Seal
  BY <1>2, RequireInv, CopyNextInv, RemoveBundleInv, RenameInv, WriteManifestInv DEF Seal
<1>3. CASE Validate
  <2>1. CASE BeginOwn
    BY <2>1, BeginInv DEF BeginOwn, Begin
  <2>2. CASE VerifyRun
    BY <2>2, BeginInv DEF VerifyRun, Begin
  <2>. QED  BY <1>3, <2>1, <2>2, ReadGraphInv, StructureInv, ReadBundleInv, CompareInv, ForgottenInv
            DEF Validate
<1>4. CASE Validated \/ Gate
  BY <1>4, ForgottenInv
<1>5. CASE Record \/ Review
  BY <1>5, RecordInv
<1>6. CASE Stop
  BY <1>6, StopInv
<1>7. CASE Stray
  BY <1>7, StrayStepInv
<1>8. CASE UNCHANGED vars
  <2>1. UNCHANGED <<plan, pc, core, disk, captured, bundle, manifest, graph, sealed, view, strays, raced, tampered>>
    BY <1>8 DEF vars
  <2>2. TypeInv' /\ SealedInv'
    BY <2>1 DEF Inv, TypeInv, SealedInv
  <2>3. ~raced => CapturedInv' /\ StrayInv' /\ ViewInv'
    BY <2>1 DEF Inv, CapturedInv, StrayInv, ViewInv, Trusted
  <2>4. PapersInv' /\ JudgeInv'
    BY <2>1 DEF Inv, PapersInv, JudgeInv, Trusted, Accepts
  <2>. QED  BY <2>1, <2>2, <2>3, <2>4 DEF Inv
<1>. QED  BY <1>1, <1>2, <1>3, <1>4, <1>5, <1>6, <1>7, <1>8 DEF Next, Ended

LEMMA Invariance == Spec => []Inv
BY InitInv, NextInv, PTL DEF Spec

(* Whatever is written into the run directory, and wherever a seal is      *)
(* interrupted: outside the two unguarded windows, the reports that        *)
(* validate_core_evidence accepts are what one completed                   *)
(* seal_core_evidence captured, as the core held it, unless the source map *)
(* was rewritten behind the validation's back, and every mandatory command *)
(* passed in them, unless the plan was.                                    *)
THEOREM ValidIsSealed == Spec => []SealIsCore
<1>1. Inv => SealIsCore
  BY DEF Inv, ViewInv, JudgeInv, SealIsCore, Guarded, Accepts
<1>. QED  BY <1>1, Invariance, PTL

(* build_truth_report lets no run pass on reports that are not sealed,     *)
(* although without a manifest it reads them as they are, unless somebody  *)
(* removed the manifest or wrote the graph.                                *)
THEOREM JudgedOnlyOnSeal == Spec => []JudgedOnSeal
<1>1. Inv => JudgedOnSeal
  <2> SUFFICES ASSUME Inv, Passes, Guarded
               PROVE  IF view.result = "VALID" THEN Trusted("map") => Judged \in sealed
                      ELSE tampered # {}
    BY DEF JudgedOnSeal
  <2>1. CASE view.result = "VALID"
    BY <2>1 DEF Inv, ViewInv, Guarded, Judged
  <2>2. CASE view.result # "VALID"
    <3>1. view.result = "not sealed" /\ "checks" \in view.closed
      BY <2>2 DEF Passes, Obligations
    <3>2. tampered # {}
      BY <3>1 DEF Inv, SealedInv
    <3>. QED  BY <2>2, <3>2
  <2>. QED  BY <2>1, <2>2
<1>. QED  BY <1>1, Invariance, PTL

-----------------------------------------------------------------------------
(* While nobody else wrote, every file stays what the core made of it.     *)
DiskIsCore == \A f \in Both : disk[f] = core[f]

FilesInv ==
  /\ pc = "copy" => DiskIsCore /\ \A f \in DOMAIN captured : captured[f] = disk[f]
  /\ pc \in {"remove", "rename", "manifest"} =>
       /\ DiskIsCore /\ Sources \cup Papers \subseteq DOMAIN captured
       /\ \A f \in Sources : captured[f] = disk[f]
       /\ With(captured, "map", Core(0)) = captured
  /\ pc = "manifest" => bundle = captured
  /\ pc \in {"validate", "record", "review", "gate"} =>
       /\ DiskIsCore /\ bundle = manifest /\ Sources \cup Papers \subseteq DOMAIN bundle
       /\ \A f \in Sources : bundle[f] = disk[f]

(* The run waits for its own validation.                                   *)
Own == view.by \in {"validate", "gate"}
Enough == plan.mandatory # {} /\ plan.mandatory \subseteq core.checks.passed /\ plan.inputs = {}

OwnInv ==
  Own => /\ pc = view.by
         /\ view.stage = "read" /\ strays = 0 =>
              /\ view.read.checks = core.checks
              /\ view.map = Sources /\ view.judging = {plan}
         /\ view.stage = "done" /\ strays = 0 /\ Enough => view.result = "VALID"

LEMMA WithTwice ==
  ASSUME NEW g, NEW f, NEW c
  PROVE  With(With(g, f, c), f, c) = With(g, f, c)
<1> DEFINE w == With(g, f, c)
<1>1. /\ w = [x \in DOMAIN w |-> w[x]] /\ f \in DOMAIN w /\ w[f] = c
  BY DEF With
<1>2. With(w, f, c) = [x \in DOMAIN w |-> IF x = f THEN c ELSE w[x]]
  BY <1>1 DEF With
<1>. HIDE DEF w
<1>3. [x \in DOMAIN w |-> IF x = f THEN c ELSE w[x]] = [x \in DOMAIN w |-> w[x]]
  BY <1>1
<1>. QED  BY <1>1, <1>2, <1>3 DEF w

LEMMA FilesStep ==
  ASSUME Inv, strays' = 0, [Next]_vars, FilesInv
  PROVE  FilesInv'
<1> USE DEF runVars, seals, proofs, history
<1>0. TypeInv /\ SealedInv /\ Sources = {"checks", "diff", "log"}
  BY TheSources DEF Inv
<1>1. CASE RunRequired \/ RunPostProof \/ InspectDiff
  BY <1>1 DEF RunRequired, RunPostProof, InspectDiff, FilesInv
<1>2. CASE Require
  <2>1. captured = NoFile
    BY <1>0, <1>2 DEF Require, SealedInv
  <2>2. DOMAIN NoFile = {}
    BY DEF NoFile
  <2>. QED  BY <1>2, <2>1, <2>2 DEF Require, Unchanged, FilesInv, DiskIsCore, Both
<1>3. CASE CopyNext
  <2>1. /\ UNCHANGED <<core, disk, bundle, manifest>> /\ DiskIsCore
        /\ pc = "copy" /\ DOMAIN captured \in {{}, {"checks"}, Both}
        /\ \A f \in DOMAIN captured : captured[f] = disk[f]
    BY <1>0, <1>3 DEF CopyNext, SealedInv, FilesInv
  <2>2. \/ /\ DOMAIN captured = {} /\ pc' = "copy"
           /\ captured' = With(captured, "checks", disk["checks"])
        \/ /\ DOMAIN captured = {"checks"} /\ pc' = "copy"
           /\ captured' = With(captured, "diff", disk["diff"])
        \/ /\ DOMAIN captured = Both /\ pc' = "remove"
           /\ captured' = Described(With(captured, "log", disk["log"]))
    BY <1>3, <2>1, CopyOrder DEF CopyNext, Both
  <2>3. CASE pc' = "copy"
    <3>1. PICK f : captured' = With(captured, f, disk[f])
      BY <2>2, <2>3
    <3>2. \A x \in DOMAIN captured' : captured'[x] = disk[x]
      BY <2>1, <3>1 DEF With
    <3>3. DiskIsCore'
      BY <2>1 DEF DiskIsCore
    <3>. QED  BY <2>1, <2>3, <3>2, <3>3 DEF FilesInv
  <2>4. CASE /\ DOMAIN captured = Both /\ pc' = "remove"
             /\ captured' = Described(With(captured, "log", disk["log"]))
    <3> DEFINE w == With(captured, "log", disk["log"])
               v == With(w, "plan", Core(0))
    <3>1. DOMAIN w = Sources /\ \A f \in Sources : w[f] = disk[f]
      BY <1>0, <2>1, <2>4 DEF With, Both
    <3>2. captured' = With(v, "map", Core(0))
      BY <2>4 DEF Described
    <3>. HIDE DEF w
    <3>3. DOMAIN v = Sources \cup {"plan"} /\ \A f \in Sources : v[f] = w[f]
      <4>1. DOMAIN v = DOMAIN w \cup {"plan"} /\ \A x \in DOMAIN w : x # "plan" => v[x] = w[x]
        BY DEF With
      <4>. HIDE DEF v
      <4>. QED  BY <1>0, <3>1, <4>1
    <3>. HIDE DEF v
    <3>4. DOMAIN captured' = Sources \cup {"plan", "map"} /\ \A f \in Sources : captured'[f] = v[f]
      <4>1. /\ DOMAIN captured' = DOMAIN v \cup {"map"}
            /\ \A x \in DOMAIN v : x # "map" => captured'[x] = v[x]
        BY <3>2 DEF With
      <4>. QED  BY <1>0, <3>3, <4>1
    <3>5. With(captured', "map", Core(0)) = captured'
      BY <3>2, WithTwice
    <3>6. \A f \in Sources : captured'[f] = disk'[f]
      BY <2>1, <3>1, <3>3, <3>4
    <3>7. DiskIsCore'
      BY <2>1 DEF DiskIsCore
    <3>8. With(captured, "map", Core(0))' = captured'
      BY <3>5 DEF With, Core, Content
    <3>. QED  BY <2>4, <3>4, <3>6, <3>7, <3>8 DEF FilesInv, Papers
  <2>. QED  BY <2>2, <2>3, <2>4
<1>4. CASE RemoveBundle
  BY <1>4 DEF RemoveBundle, FilesInv, DiskIsCore, With, Core, Content
<1>5. CASE Rename
  BY <1>5 DEF Rename, FilesInv, DiskIsCore, With, Core, Content
<1>6. CASE WriteManifest
  BY <1>6 DEF WriteManifest, FilesInv, DiskIsCore
<1>7. CASE Validate \/ Validated \/ Record \/ Review \/ Gate
  <2>1. /\ UNCHANGED <<core, disk, captured, bundle, manifest>>
        /\ \/ pc' = pc
           \/ pc \in {"validate", "record", "review", "gate"}
              /\ pc' \notin {"copy", "remove", "rename", "manifest"}
    BY <1>7 DEF Validate, BeginOwn, VerifyRun, Begin, ReadGraph, Structure, ReadBundle, Compare, Dismiss,
                Validated, Record, Review, Gate
  <2>2. DiskIsCore' = DiskIsCore /\ With(captured, "map", Core(0))' = With(captured, "map", Core(0))
    BY <2>1 DEF DiskIsCore, With, Core, Content
  <2>. QED  BY <2>1, <2>2 DEF FilesInv
<1>8. CASE Stop
  BY <1>8 DEF Stop, FilesInv
<1>9. CASE Stray
  BY <1>0, <1>9 DEF Stray, TypeInv
<1>10. CASE UNCHANGED vars
  BY <1>10 DEF vars, FilesInv, DiskIsCore, With, Core, Content
<1>. QED
  BY <1>1, <1>2, <1>3, <1>4, <1>5, <1>6, <1>7, <1>8, <1>9, <1>10 DEF Next, Seal, Ended

LEMMA OwnStep ==
  ASSUME Inv, [Next]_vars, strays' = 0 => FilesInv, OwnInv
  PROVE  OwnInv'
<1> USE DEF runVars, seals, proofs, history
<1>0. /\ DOMAIN view = Fields /\ NoView.by = "nobody" /\ strays \in Nat
      /\ (view.result # "none" => view.stage = "done")
  BY DEF Inv, TypeInv, NoView
<1>1. CASE RunRequired \/ RunPostProof \/ InspectDiff \/ Require \/ CopyNext \/ WriteManifest
            \/ Record \/ Review
  <2>1. /\ UNCHANGED view
        /\ pc \notin {"validate", "gate"}
    BY <1>1 DEF RunRequired, RunPostProof, InspectDiff, Require, CopyNext, WriteManifest, Record, Review
  <2>2. ~Own
    BY <2>1 DEF OwnInv, Own
  <2>. QED  BY <2>1, <2>2 DEF OwnInv, Own
<1>2. CASE RemoveBundle \/ Rename
  <2>1. ~Own /\ view'.by = view.by
    BY <1>0, <1>2 DEF OwnInv, Own, RemoveBundle, Rename, Overtake, Fields
  <2>. QED  BY <2>1 DEF OwnInv, Own
<1>3. CASE BeginOwn \/ VerifyRun
  <2>1. \E by : /\ view'.by = by /\ view'.stage \in {"begun", "open"} /\ pc' = pc
                /\ by = "auditor" \/ by = pc
    BY <1>3 DEF BeginOwn, VerifyRun, Begin, NoView
  <2>. QED  BY <2>1 DEF OwnInv, Own
<1>4. CASE ReadGraph \/ Structure \/ ReadBundle \/ Compare
  <2>1. UNCHANGED <<plan, pc, core, disk, bundle, manifest, strays>>
    BY <1>4 DEF ReadGraph, Structure, ReadBundle, Compare
  <2>2. view'.by = view.by
    BY <1>0, <1>4 DEF ReadGraph, Structure, ReadBundle, Compare, Result, Fields, NoView
  <2>3. CASE ~Own
    BY <2>2, <2>3 DEF OwnInv, Own
  <2>4. CASE Own /\ strays # 0
    BY <2>1, <2>2, <2>4 DEF OwnInv, Own
  <2>5. CASE Own /\ strays = 0
    <3>1. /\ pc = view.by /\ pc \in {"validate", "gate"}
          /\ DiskIsCore /\ bundle = manifest /\ Sources \cup Papers \subseteq DOMAIN bundle
          /\ \A f \in Sources : bundle[f] = disk[f]
      BY <2>1, <2>5 DEF OwnInv, Own, FilesInv
    <3>2. bundle["checks"] = core["checks"]
      BY <3>1, TheSources DEF DiskIsCore, Both
    <3>3. manifest # NoFile
      BY <3>1 DEF Papers, NoFile
    <3>4. \A f \in Papers : bundle[f].from # "stray"
      BY <3>1 DEF Inv, PapersInv, Core, Content
    <3>5. CASE ReadGraph
      <4>1. view'.stage = "open"
        BY <1>0, <3>5 DEF ReadGraph, Fields
      <4>. QED  BY <2>1, <2>2, <3>1, <4>1 DEF OwnInv, Own
    <3>6. CASE Structure
      <4>1. view' = [view EXCEPT !.stage = "intact", !.plain = NoReports]
        BY <3>1, <3>3, <3>6 DEF Structure, Intact
      <4>2. view'.stage = "intact"
        BY <1>0, <4>1 DEF Fields
      <4>. QED  BY <2>1, <2>2, <3>1, <4>2 DEF OwnInv, Own
    <3>7. CASE ReadBundle
      <4>1. \E m \in Maps(bundle["map"]), p \in Plans(bundle["plan"]) :
               view' = [view EXCEPT !.stage = "read", !.map = m, !.judging = {p},
                          !.read = [checks |-> bundle["checks"], diff |-> bundle["diff"]]]
        BY <3>1, <3>4, <3>7 DEF ReadBundle
      <4>2. Maps(bundle["map"]) = {Sources} /\ Plans(bundle["plan"]) = {plan}
        BY <3>4 DEF Maps, Plans, Papers
      <4>3. view' = [view EXCEPT !.stage = "read", !.map = Sources, !.judging = {plan},
                       !.read = [checks |-> bundle["checks"], diff |-> bundle["diff"]]]
        BY <4>1, <4>2
      <4>4. /\ view'.stage = "read" /\ view'.read.checks = bundle["checks"]
            /\ view'.map = Sources /\ view'.judging = {plan}
        BY <1>0, <4>3 DEF Fields
      <4>. QED  BY <2>1, <2>2, <3>1, <3>2, <4>4 DEF OwnInv, Own
    <3>8. CASE Compare
      <4>1. /\ view.stage = "read" /\ view.read.checks = core.checks
            /\ view.map = Sources /\ view.judging = {plan}
        BY <2>5, <3>8 DEF Compare, OwnInv
      <4>2. SourcesMatch
        BY <3>1, <4>1 DEF SourcesMatch
      <4>3. CASE Enough
        <5>1. Result("VALID")
          BY <3>8, <4>1, <4>2, <4>3 DEF Compare, Accepts, Enough
        <5>2. view'.stage = "done" /\ view'.result = "VALID"
          BY <1>0, <5>1 DEF Result, Fields
        <5>. QED  BY <2>1, <2>2, <3>1, <5>2 DEF OwnInv, Own
      <4>4. CASE ~Enough
        <5>1. view'.stage = "done"
          BY <1>0, <3>8 DEF Compare, Result, Fields, NoView
        <5>. QED  BY <2>1, <2>2, <3>1, <4>4, <5>1 DEF OwnInv, Own, Enough
      <4>. QED  BY <4>3, <4>4
    <3>. QED  BY <1>4, <3>5, <3>6, <3>7, <3>8
  <2>. QED  BY <2>3, <2>4, <2>5
<1>5. CASE Dismiss \/ Validated \/ Gate
  BY <1>0, <1>5 DEF Dismiss, Validated, Gate, OwnInv, Own
<1>6. CASE Stop
  BY <1>0, <1>6 DEF Stop, GiveUp, OwnInv, Own
<1>7. CASE Stray
  <2>1. pc' = pc /\ strays' # 0
    BY <1>0, <1>7 DEF Stray
  <2>2. view'.by = view.by
    BY <1>0, <1>7 DEF Stray, StrayReport, StrayBundle, StrayManifest, StrayGraph, Fields
  <2>. QED  BY <2>1, <2>2 DEF OwnInv, Own
<1>8. CASE UNCHANGED vars
  BY <1>8 DEF vars, OwnInv, Own, Enough
<1>. QED  BY <1>1, <1>2, <1>3, <1>4, <1>5, <1>6, <1>7, <1>8 DEF Next, Seal, Validate, Ended

(* As long as nobody else writes into the run directory, the run's own     *)
(* validation accepts what it sealed, if the mandatory commands passed and *)
(* the plan has no evaluator inputs (validate_core_evidence of the end of  *)
(* a cycle and of the truth gate).                                         *)
THEOREM UndisturbedStaysValid == Spec => []UndisturbedIsValid
<1> DEFINE FInv == strays = 0 => FilesInv
<1>1. Init => Inv /\ FInv /\ OwnInv
  BY InitInv DEF Init, FilesInv, OwnInv, Own, NoView
<1>2. ASSUME Inv, FInv, OwnInv, [Next]_vars PROVE Inv' /\ FInv' /\ OwnInv'
  <2>1. strays \in Nat /\ (strays' = strays \/ strays' = strays + 1)
    BY <1>2 DEF Inv, TypeInv, Next, RunRequired, RunPostProof, InspectDiff, Seal, Require, CopyNext,
                RemoveBundle, Rename, WriteManifest, Validate, BeginOwn, VerifyRun, Begin, ReadGraph,
                Structure, ReadBundle, Compare, Dismiss, Validated, Record, Review, Gate, Stop, Stray, Ended,
                vars, history
  <2>2. strays' = 0 => FilesInv
    BY <1>2, <2>1
  <2>. QED  BY <1>2, <2>2, NextInv, FilesStep, OwnStep
<1>3. OwnInv => UndisturbedIsValid
  BY DEF OwnInv, Own, Enough, UndisturbedIsValid
<1>. HIDE DEF FInv
<1>. QED  BY <1>1, <1>2, <1>3, PTL DEF Spec
=============================================================================
