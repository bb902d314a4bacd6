-------------------------- MODULE DiffGuardProofs ---------------------------
(***************************************************************************)
(* Proofs about the diff guard, for every set of files, every contents,    *)
(* every plan of any length and whatever the tasks leave in the worktree   *)
(* and in its index: git's listing together with the untracked files       *)
(* misses nothing but the old name of a file that was moved.               *)
(***************************************************************************)
EXTENDS DiffGuard, FiniteSetTheorems, WellFoundedInduction, TLAPS

-----------------------------------------------------------------------------
(* Rename detection finds something: a matching no pair can be added to.   *)

LEMMA Induction ==
  ASSUME NEW S, 0 \in S, \A n \in Nat : n \in S => n + 1 \in S
  PROVE  Nat \subseteq S
<1> DEFINE less == { p \in Nat \X Nat : p[1] < p[2] }
<1>1. IsWellFoundedOn(less, Nat)
  BY NatLessThanWellFounded DEF OpToRel
<1>2. ASSUME Nat \ S # {} PROVE FALSE
  <2>1. PICK m \in Nat \ S : \A n \in Nat \ S : <<n, m>> \notin less
    <3>1. Nat \ S \subseteq Nat
      OBVIOUS
    <3>. HIDE DEF less
    <3>. QED  BY <1>1, <1>2, <3>1, WFMin
  <2>2. m # 0 /\ m - 1 \in Nat
    BY <2>1
  <2>3. <<m - 1, m>> \in less
    BY <2>2
  <2>4. m - 1 \in S
    BY <2>1, <2>2, <2>3
  <2>. QED  BY <2>1, <2>2, <2>4
<1>. QED  BY <1>2

Matched(r) == \A p, q \in r : p # q => p[1] # q[1] /\ p[2] # q[2]

\* A set of natural numbers that is not empty has a least one.
LEMMA Least ==
  ASSUME NEW S \in SUBSET Nat, S # {}
  PROVE  \E n \in S : \A m \in S : n <= m
<1> DEFINE less == { p \in Nat \X Nat : p[1] < p[2] }
<1>1. IsWellFoundedOn(less, Nat)
  BY NatLessThanWellFounded DEF OpToRel
<1>2. PICK n \in S : \A m \in S : <<m, n>> \notin less
  <2>. HIDE DEF less
  <2>. QED  BY <1>1, WFMin
<1>3. \A m \in S : ~(m < n)
  BY <1>2
<1>. QED  BY <1>3

LEMMA MatchingExists ==
  ASSUME NEW P, IsFiniteSet(P)
  PROVE  \E r \in SUBSET P : Matched(r) /\ \A q \in P \ r : ~Matched(r \cup {q})
<1> DEFINE M == { r \in SUBSET P : Matched(r) }
           S == { Cardinality(P \ r) : r \in M }
<1>1. S \in SUBSET Nat /\ S # {}
  <2>1. {} \in M
    BY DEF Matched
  <2>2. \A r \in M : Cardinality(P \ r) \in Nat
    BY FS_Subset, FS_CardinalityType
  <2>. QED  BY <2>1, <2>2
<1>2. PICK n \in S : \A m \in S : n <= m
  <2>. HIDE DEF S
  <2>. QED  BY <1>1, Least
<1>3. PICK r \in M : n = Cardinality(P \ r)
  BY <1>2
<1>4. ASSUME NEW q \in P \ r, Matched(r \cup {q}) PROVE FALSE
  <2>1. r \cup {q} \in M
    BY <1>4
  <2>2. Cardinality(P \ (r \cup {q})) \in S
    BY <2>1
  <2>3. IsFiniteSet(P \ r) /\ P \ (r \cup {q}) = (P \ r) \ {q}
    BY FS_Subset
  <2>4. Cardinality((P \ r) \ {q}) = Cardinality(P \ r) - 1
    BY <1>4, <2>3, FS_RemoveElement
  <2>5. n <= Cardinality(P \ (r \cup {q})) /\ n \in Nat
    <3>. HIDE DEF S
    <3>. QED  BY <1>1, <1>2, <2>2
  <2>6. n <= n - 1
    <3>. HIDE DEF S, M
    <3>. QED  BY <1>3, <2>3, <2>4, <2>5
  <2>. QED  BY <2>5, <2>6
<1>. QED  BY <1>3, <1>4

LEMMA RenamesPair ==
  ASSUME NEW b, NEW u
  PROVE  Renames(b, u) \subseteq { p \in DeletedIn(b, u) \X AddedIn(b, u) : Alike(b[p[1]], u[p[2]]) }
<1> DEFINE pairs == { p \in DeletedIn(b, u) \X AddedIn(b, u) : Alike(b[p[1]], u[p[2]]) }
<1>1. IsFiniteSet(pairs)
  <2>1. IsFiniteSet(DeletedIn(b, u)) /\ IsFiniteSet(AddedIn(b, u))
    BY DiffGuardAssumption, FS_Subset DEF DeletedIn, AddedIn, Present
  <2>2. IsFiniteSet(DeletedIn(b, u) \X AddedIn(b, u))
    BY <2>1, FS_Product
  <2>. QED  BY <2>2, FS_Subset
<1>2. Renames(b, u) = CHOOSE r \in SUBSET pairs :
                        /\ \A p, q \in r : p # q => p[1] # q[1] /\ p[2] # q[2]
                        /\ \A q \in pairs \ r : ~(\A p, x \in r \cup {q} : p # x => p[1] # x[1] /\ p[2] # x[2])
  BY DEF Renames
<1>. HIDE DEF pairs
<1>3. Renames(b, u) = CHOOSE r \in SUBSET pairs : Matched(r) /\ \A q \in pairs \ r : ~Matched(r \cup {q})
  BY <1>2 DEF Matched
<1>4. \E r \in SUBSET pairs : Matched(r) /\ \A q \in pairs \ r : ~Matched(r \cup {q})
  BY <1>1, MatchingExists
<1>5. Renames(b, u) \in SUBSET pairs
  BY <1>3, <1>4
<1>. QED  BY <1>5 DEF pairs

-----------------------------------------------------------------------------
(* What the guard reads.                                                   *)

(* The entry e stands for the change of file f.                            *)
Lists(e, f, b, t) ==
  /\ e.path = f
  /\ t[f] = Absent => e.status = "D"
  /\ t[f] # Absent => \/ e.status \in {"A", "M"}
                      \/ e.status = "R" /\ e.from \in Present(b) /\ f \in MovedTo(b, t, e.from)
  /\ t[f] # Absent /\ b[f] = Absent => e.status # "M"

(* A file that changed has an entry, of the status its change has, unless  *)
(* the file went where rename detection follows it.                        *)
LEMMA EveryChangeListed ==
  ASSUME NEW b, NEW t, NEW i, NEW f \in Changed(b, t)
  PROVE  \/ /\ t[f] = Absent
            /\ \E g \in MovedTo(b, t, f) : \E e \in Entries(b, t, i) : e.path = g
         \/ \E e \in Entries(b, t, i) : Lists(e, f, b, t)
<1> DEFINE u == Tracked(t, i)
           E == Entries(b, t, i)
<1>1. f \in Files /\ b[f] # t[f] /\ f \notin Ephemeral
  BY DEF Changed
<1>2. NameStatus(b, u) \subseteq E
  BY DEF Entries
<1>3. \A p \in Renames(b, u) : /\ p[1] \in DeletedIn(b, u) /\ p[2] \in AddedIn(b, u)
                               /\ Alike(b[p[1]], u[p[2]])
  BY RenamesPair
<1>4. \A p \in Renames(b, u) : [status |-> "R", path |-> p[2], from |-> p[1]] \in E
  BY <1>2 DEF NameStatus
<1>5. \A g \in AddedIn(b, u) : g \in Present(t) \ Present(b) /\ u[g] = t[g]
  BY DEF AddedIn, Present, Tracked
<1>. SUFFICES \/ t[f] = Absent /\ \E g \in MovedTo(b, t, f) : \E e \in E : e.path = g
              \/ \E e \in E : Lists(e, f, b, t)
  OBVIOUS
<1>6. CASE t[f] = Absent
  <2>1. f \in DeletedIn(b, u) /\ f \in Present(b)
    BY <1>1, <1>6 DEF DeletedIn, Present, Tracked
  <2>2. CASE \E p \in Renames(b, u) : p[1] = f
    <3>1. PICK p \in Renames(b, u) : p[1] = f
      BY <2>2
    <3>2. p[2] \in MovedTo(b, t, f)
      BY <1>3, <1>5, <3>1 DEF MovedTo
    <3> DEFINE e == [status |-> "R", path |-> p[2], from |-> p[1]]
    <3>3. e \in E /\ e.path = p[2]
      BY <1>4
    <3>. HIDE DEF e, E, u
    <3>. QED  BY <1>6, <3>2, <3>3
  <2>3. CASE ~ \E p \in Renames(b, u) : p[1] = f
    <3> DEFINE e == [status |-> "D", path |-> f]
    <3>1. e \in E
      <4>1. e \in NameStatus(b, u)
        <5>. HIDE DEF u
        <5>. QED  BY <2>1, <2>3 DEF NameStatus
      <4>. QED  BY <1>2, <4>1
    <3>2. Lists(e, f, b, t)
      BY <1>6 DEF Lists
    <3>. HIDE DEF e, E
    <3>. QED  BY <3>1, <3>2
  <2>. QED  BY <2>2, <2>3
<1>7. CASE t[f] # Absent /\ f \notin i
  <2> DEFINE e == [status |-> "A", path |-> f, untracked |-> TRUE]
  <2>1. f \in Untracked(t, i)
    BY <1>1, <1>7 DEF Untracked, Present
  <2>2. e \in E
    BY <2>1 DEF Entries
  <2>3. Lists(e, f, b, t)
    BY <1>7 DEF Lists
  <2>. HIDE DEF e, E
  <2>. QED  BY <2>2, <2>3
<1>8. CASE t[f] # Absent /\ f \in i /\ b[f] # Absent
  <2> DEFINE e == [status |-> "M", path |-> f]
  <2>1. f \in Modified(b, u)
    BY <1>1, <1>8 DEF Modified, Present, Tracked
  <2>2. e \in E
    <3>1. e \in NameStatus(b, u)
      <4>. HIDE DEF u
      <4>. QED  BY <2>1 DEF NameStatus
    <3>. QED  BY <1>2, <3>1
  <2>3. Lists(e, f, b, t)
    BY <1>8 DEF Lists
  <2>. HIDE DEF e, E
  <2>. QED  BY <2>2, <2>3
<1>9. CASE t[f] # Absent /\ f \in i /\ b[f] = Absent
  <2>1. f \in AddedIn(b, u)
    BY <1>1, <1>9 DEF AddedIn, Present, Tracked
  <2>2. CASE \E p \in Renames(b, u) : p[2] = f
    <3>1. PICK p \in Renames(b, u) : p[2] = f
      BY <2>2
    <3>2. p[1] \in Present(b) /\ f \in MovedTo(b, t, p[1])
      BY <1>3, <1>5, <3>1 DEF MovedTo, DeletedIn
    <3> DEFINE e == [status |-> "R", path |-> f, from |-> p[1]]
    <3>3. e \in E
      BY <1>4, <3>1
    <3>4. Lists(e, f, b, t)
      BY <1>9, <3>2 DEF Lists
    <3>. HIDE DEF e, E
    <3>. QED  BY <3>3, <3>4
  <2>3. CASE ~ \E p \in Renames(b, u) : p[2] = f
    <3> DEFINE e == [status |-> "A", path |-> f]
    <3>1. e \in E
      <4>1. e \in NameStatus(b, u)
        <5>. HIDE DEF u
        <5>. QED  BY <2>1, <2>3 DEF NameStatus
      <4>. QED  BY <1>2, <4>1
    <3>2. Lists(e, f, b, t)
      BY <1>9 DEF Lists
    <3>. HIDE DEF e, E
    <3>. QED  BY <3>1, <3>2
  <2>. QED  BY <2>2, <2>3
<1>. QED  BY <1>6, <1>7, <1>8, <1>9

LEMMA ImageFinite ==
  ASSUME NEW S, IsFiniteSet(S), NEW g, DOMAIN g = S
  PROVE  IsFiniteSet({ g[f] : f \in S })
<1> DEFINE T == { g[f] : f \in S }
           h == [f \in S |-> g[f]]
<1>1. h \in Surjection(S, T)
  BY DEF Surjection
<1>. HIDE DEF h
<1>. QED  BY <1>1, FS_Surjection

LEMMA EntriesFinite ==
  ASSUME NEW b, NEW t, NEW i
  PROVE  IsFiniteSet(Entries(b, t, i))
<1> DEFINE E == Entries(b, t, i)
           D == { [status |-> "D", path |-> f] : f \in Files }
           A == { [status |-> "A", path |-> f] : f \in Files }
           M == { [status |-> "M", path |-> f] : f \in Files }
           U == { [status |-> "A", path |-> f, untracked |-> TRUE] : f \in Files }
           R == { [status |-> "R", path |-> p[2], from |-> p[1]] : p \in Files \X Files }
<1>0. IsFiniteSet(Files) /\ IsFiniteSet(Files \X Files)
  BY DiffGuardAssumption, FS_Product
<1>1. IsFiniteSet(D)
  <2> DEFINE g == [f \in Files |-> [status |-> "D", path |-> f]]
  <2>1. D = { g[f] : f \in Files } /\ DOMAIN g = Files
    OBVIOUS
  <2>. HIDE DEF g, D
  <2>. QED  BY <1>0, <2>1, ImageFinite
<1>2. IsFiniteSet(A)
  <2> DEFINE g == [f \in Files |-> [status |-> "A", path |-> f]]
  <2>1. A = { g[f] : f \in Files } /\ DOMAIN g = Files
    OBVIOUS
  <2>. HIDE DEF g, A
  <2>. QED  BY <1>0, <2>1, ImageFinite
<1>3. IsFiniteSet(M)
  <2> DEFINE g == [f \in Files |-> [status |-> "M", path |-> f]]
  <2>1. M = { g[f] : f \in Files } /\ DOMAIN g = Files
    OBVIOUS
  <2>. HIDE DEF g, M
  <2>. QED  BY <1>0, <2>1, ImageFinite
<1>4. IsFiniteSet(U)
  <2> DEFINE g == [f \in Files |-> [status |-> "A", path |-> f, untracked |-> TRUE]]
  <2>1. U = { g[f] : f \in Files } /\ DOMAIN g = Files
    OBVIOUS
  <2>. HIDE DEF g, U
  <2>. QED  BY <1>0, <2>1, ImageFinite
<1>5. IsFiniteSet(R)
  <2> DEFINE g == [p \in Files \X Files |-> [status |-> "R", path |-> p[2], from |-> p[1]]]
  <2>1. R = { g[p] : p \in Files \X Files }
    OBVIOUS
  <2>. HIDE DEF R
  <2>2. DOMAIN g = Files \X Files
    OBVIOUS
  <2>. HIDE DEF g
  <2>. QED  BY <1>0, <2>1, <2>2, ImageFinite
<1>6. E \subseteq R \cup D \cup A \cup M \cup U
  <2> DEFINE u == Tracked(t, i)
  <2>1. Renames(b, u) \subseteq Files \X Files
    BY RenamesPair DEF DeletedIn, AddedIn, Present
  <2>2. NameStatus(b, u) \subseteq R \cup D \cup A \cup M
    BY <2>1 DEF NameStatus, DeletedIn, AddedIn, Modified, Present
  <2>3. Untracked(t, i) \subseteq Files
    BY DEF Untracked, Present
  <2>. QED  BY <2>2, <2>3 DEF Entries
<1>. HIDE DEF E, D, A, M, U, R
<1>7. IsFiniteSet(R \cup D \cup A \cup M \cup U)
  BY <1>1, <1>2, <1>3, <1>4, <1>5, FS_Union
<1>8. IsFiniteSet(E)
  BY <1>6, <1>7, FS_Subset
<1>. QED  BY <1>8 DEF E

\* As many entries as paths, or more.
LEMMA NoMorePaths ==
  ASSUME NEW E, IsFiniteSet(E), NEW S, S \subseteq Paths(E)
  PROVE  Cardinality(S) <= Cardinality(E)
<1> DEFINE p == [e \in E |-> e.path]
<1>1. p \in Surjection(E, Paths(E))
  BY DEF Surjection, Paths
<1>2. /\ IsFiniteSet(Paths(E)) /\ Cardinality(Paths(E)) <= Cardinality(E)
  BY <1>1, FS_Surjection
<1>3. IsFiniteSet(S) /\ Cardinality(S) <= Cardinality(Paths(E))
  BY <1>2, FS_Subset
<1>4. Cardinality(S) \in Nat /\ Cardinality(E) \in Nat /\ Cardinality(Paths(E)) \in Nat
  BY <1>2, <1>3, FS_CardinalityType
<1>. QED  BY <1>2, <1>3, <1>4

(* A verdict that passes bounds the change as it is, but for moves.        *)
LEMMA PassMeansWithin ==
  ASSUME NEW c, c.allowed # {}, c.maxChanged \in Nat, c.maxNew \in Nat, NEW b, NEW t, NEW i,
         InspectDiff(c, b, t, i) = "PASS"
  PROVE  WithinButMoves(c, b, t)
<1> DEFINE E    == Entries(b, t, i)
           New  == { e \in E : e.status = "A" }
           deps == Paths(E) \cap Dependencies
           weak == { e \in E : t[e.path] = Weak /\ e.status # "D" /\ (e.status = "R" => b[e.from] # Weak) }
           seen == Changed(b, t) \ MovedAway(b, t)
           made == Created(b, t) \ Copied(b, t)
<1>1. /\ Paths(New) \subseteq c.permitted
      /\ deps # {} => c.deps /\ deps \subseteq c.permitted
      /\ Paths(E) \subseteq c.allowed
      /\ Paths(E) \cap c.protected = {}
      /\ \A e \in E : e.status = "D" => e.path \notin Tests
      /\ weak = {}
      /\ Cardinality(E) <= c.maxChanged
      /\ Cardinality(New) <= c.maxNew
  BY DEF InspectDiff
<1>2. \A f \in seen : \E e \in E : Lists(e, f, b, t)
  <2> SUFFICES ASSUME NEW f \in Changed(b, t), f \notin MovedAway(b, t)
               PROVE  \E e \in Entries(b, t, i) : Lists(e, f, b, t)
    OBVIOUS
  <2>1. f \in Files /\ b[f] # t[f]
    BY DEF Changed
  <2>2. ~(t[f] = Absent /\ MovedTo(b, t, f) # {})
    BY <2>1 DEF MovedAway, Present
  <2>. QED  BY <2>2, EveryChangeListed
<1>3. IsFiniteSet(E) /\ IsFiniteSet(New)
  BY EntriesFinite, FS_Subset
<1>4. IsFiniteSet(seen) /\ IsFiniteSet(made)
  BY DiffGuardAssumption, FS_Subset DEF Changed, Created, Present
<1>5. made \subseteq seen /\ \A f \in made : t[f] # Absent /\ b[f] = Absent /\ f \in Files
  BY DEF Created, Changed, Present, MovedAway
<1>6. \A f \in made : \A g \in Present(b) : f \notin MovedTo(b, t, g)
  BY DEF Copied
<1>. HIDE DEF E, seen, made
<1>7. seen \subseteq Paths(E)
  BY <1>2 DEF Paths, Lists
<1>8. made \subseteq Paths(New)
  <2> SUFFICES ASSUME NEW f \in made PROVE \E e \in New : f = e.path
    BY DEF Paths
  <2>. QED  BY <1>2, <1>5, <1>6 DEF Lists
<1>9. \A f \in seen : /\ t[f] = Weak => \E g \in Present(b) : b[g] = Weak
                      /\ t[f] = Absent => f \notin Tests
  <2> SUFFICES ASSUME NEW f \in seen
               PROVE  /\ t[f] = Weak => \E g \in Present(b) : b[g] = Weak
                      /\ t[f] = Absent => f \notin Tests
    OBVIOUS
  <2>1. PICK e \in E : Lists(e, f, b, t)
    BY <1>2
  <2>2. CASE t[f] = Absent
    BY <1>1, <2>1, <2>2 DEF Lists, Absent, Weak
  <2>3. CASE t[f] # Absent
    <3>1. CASE t[f] = Weak
      BY <1>1, <2>1, <2>3, <3>1 DEF Lists
    <3>. QED  BY <2>3, <3>1
  <2>. QED  BY <2>2, <2>3
<1>10. Cardinality(seen) <= c.maxChanged
  <2>1. Cardinality(seen) <= Cardinality(E)
    BY <1>3, <1>7, NoMorePaths
  <2>2. Cardinality(seen) \in Nat /\ Cardinality(E) \in Nat
    BY <1>3, <1>4, FS_CardinalityType
  <2>. QED  BY <1>1, <2>1, <2>2
<1>11. Cardinality(made) <= c.maxNew
  <2>1. Cardinality(made) <= Cardinality(New)
    BY <1>3, <1>8, NoMorePaths
  <2>2. Cardinality(made) \in Nat /\ Cardinality(New) \in Nat
    BY <1>3, <1>4, FS_CardinalityType
  <2>. QED  BY <1>1, <2>1, <2>2
<1>12. /\ seen \subseteq c.allowed /\ seen \cap c.protected = {}
       /\ made \subseteq c.permitted
       /\ seen \cap Dependencies # {} => c.deps /\ seen \cap Dependencies \subseteq c.permitted
  BY <1>1, <1>7, <1>8
<1>. QED  BY <1>9, <1>10, <1>11, <1>12 DEF WithinButMoves, seen, made

-----------------------------------------------------------------------------
(* The budgets of a plan add up to numbers.                                *)

Sums(w, s) == s = [j \in 0..NTasks |-> IF j = 0 THEN 0 ELSE w[j] + s[j - 1]]

LEMMA SumsExist ==
  ASSUME NEW w, \A j \in 1..NTasks : w[j] \in Nat
  PROVE  \E s : Sums(w, s)
<1> DEFINE Upto(s, n) == /\ DOMAIN s = 0..n /\ s[0] = 0
                         /\ \A j \in 1..n : s[j] = w[j] + s[j - 1]
           S == { n \in Nat : n <= NTasks => \E s : Upto(s, n) }
<1>0. NTasks \in Nat
  BY DiffGuardAssumption
<1>1. 0 \in S
  <2>1. Upto([j \in 0..0 |-> 0], 0)
    OBVIOUS
  <2>. QED  BY <2>1
<1>2. ASSUME NEW n \in Nat, n \in S PROVE n + 1 \in S
  <2> SUFFICES ASSUME n + 1 <= NTasks PROVE \E s : Upto(s, n + 1)
    OBVIOUS
  <2>1. PICK s : Upto(s, n)
    BY <1>0, <1>2
  <2> DEFINE t == [j \in 0..(n + 1) |-> IF j = n + 1 THEN w[n + 1] + s[n] ELSE s[j]]
  <2>2. Upto(t, n + 1)
    BY <2>1
  <2>. QED  BY <2>2
<1>3. NTasks \in S
  <2>. HIDE DEF S
  <2>. QED  BY <1>0, <1>1, <1>2, Induction
<1>4. PICK s : Upto(s, NTasks)
  BY <1>0, <1>3
<1>5. s = [j \in DOMAIN s |-> s[j]] \/ Sums(w, [j \in 0..NTasks |-> s[j]])
  BY <1>0, <1>4 DEF Sums
<1>6. Sums(w, [j \in 0..NTasks |-> s[j]])
  BY <1>0, <1>4 DEF Sums
<1>. QED  BY <1>6

LEMMA SumsAreNatural ==
  ASSUME NEW w, \A j \in 1..NTasks : w[j] \in Nat, NEW s, Sums(w, s)
  PROVE  /\ \A j \in 0..NTasks : s[j] \in Nat
         /\ s[0] = 0 /\ \A j \in 1..NTasks : s[j] = w[j] + s[j - 1]
<1> DEFINE S == { n \in Nat : n <= NTasks => s[n] \in Nat }
<1>0. NTasks \in Nat
  BY DiffGuardAssumption
<1>1. s[0] = 0 /\ \A j \in 1..NTasks : s[j] = w[j] + s[j - 1]
  BY <1>0 DEF Sums
<1>2. 0 \in S
  BY <1>1
<1>3. ASSUME NEW n \in Nat, n \in S PROVE n + 1 \in S
  BY <1>0, <1>1, <1>3
<1>4. Nat \subseteq S
  <2>. HIDE DEF S
  <2>. QED  BY <1>2, <1>3, Induction
<1>. QED  BY <1>0, <1>1, <1>4

LEMMA TotalIsLastSum ==
  ASSUME NEW field, \A j \in 1..NTasks : tasks[j][field] \in Nat
  PROVE  \E s : /\ Total(field) = s[NTasks]
                /\ \A j \in 0..NTasks : s[j] \in Nat
                /\ s[0] = 0 /\ \A j \in 1..NTasks : s[j] = tasks[j][field] + s[j - 1]
<1> DEFINE w == [j \in 1..NTasks |-> tasks[j][field]]
           P(g) == g = [j \in 0..NTasks |-> IF j = 0 THEN 0 ELSE tasks[j][field] + g[j - 1]]
           sum == CHOOSE g : P(g)
<1>1. Total(field) = sum[NTasks]
  BY DEF Total
<1>2. ASSUME NEW g PROVE Sums(w, g) <=> P(g)
  <2>1. \A j \in 0..NTasks : j # 0 => w[j] = tasks[j][field]
    BY DiffGuardAssumption
  <2>2. [j \in 0..NTasks |-> IF j = 0 THEN 0 ELSE w[j] + g[j - 1]]
          = [j \in 0..NTasks |-> IF j = 0 THEN 0 ELSE tasks[j][field] + g[j - 1]]
    <3>. HIDE DEF w
    <3>. QED  BY <2>1
  <2>. HIDE DEF w
  <2>. QED  BY <2>2 DEF Sums
<1>3. \A j \in 1..NTasks : w[j] \in Nat /\ w[j] = tasks[j][field]
  OBVIOUS
<1>. HIDE DEF w
<1>4. \E g : P(g)
  <2>1. PICK g : Sums(w, g)
    BY <1>3, SumsExist
  <2>. HIDE DEF P
  <2>. QED  BY <1>2, <2>1
<1>5. P(sum)
  <2>. HIDE DEF P
  <2>. QED  BY <1>4
<1>6. Sums(w, sum)
  <2>. HIDE DEF P, sum
  <2>. QED  BY <1>2, <1>5
<1>. HIDE DEF sum, P
<1>. QED  BY <1>1, <1>3, <1>6, SumsAreNatural


-----------------------------------------------------------------------------
(* The state.                                                              *)
TypeInv ==
  /\ \A j \in 1..NTasks : tasks[j] \in Contracts
  /\ k \in 1..NTasks

GuardInv ==
  /\ pc = "judged" => guard = InspectDiff(tasks[k], base, tree, index)
  /\ pc \in {"finalJudged", "promoted"} => guard = InspectDiff(AggregateTask, Baseline, tree, index)
  /\ delivered = Baseline \/ (pc = "promoted" /\ delivered = tree /\ guard = "PASS")

\* What the aggregate contract allows depends on the plan only.
LEMMA SamePlan == ASSUME UNCHANGED tasks PROVE AggregateTask' = AggregateTask
BY DEF AggregateTask, Plan, Total

LEMMA TypeStep ==
  ASSUME TypeInv, [Next]_vars
  PROVE  TypeInv' /\ UNCHANGED tasks
<1>0. NTasks \in Nat \ {0}
  BY DiffGuardAssumption
<1>1. CASE WorkOnTask
  BY <1>1 DEF WorkOnTask, TypeInv
<1>2. CASE NextTask
  BY <1>0, <1>2 DEF NextTask, TypeInv
<1>3. CASE FinalGuard \/ Promote \/ Ended \/ UNCHANGED vars
  BY <1>3 DEF FinalGuard, Promote, Ended, vars, TypeInv
<1>. QED  BY <1>1, <1>2, <1>3 DEF Next

LEMMA GuardStep ==
  ASSUME TypeInv, GuardInv, [Next]_vars
  PROVE  GuardInv'
<1>1. UNCHANGED tasks /\ AggregateTask' = AggregateTask
  BY TypeStep, SamePlan
<1>2. CASE WorkOnTask
  BY <1>1, <1>2 DEF WorkOnTask, GuardInv
<1>3. CASE NextTask
  BY <1>1, <1>3 DEF NextTask, GuardInv
<1>4. CASE FinalGuard
  BY <1>1, <1>4 DEF FinalGuard, GuardInv
<1>5. CASE Promote
  BY <1>1, <1>5 DEF Promote, GuardInv
<1>6. CASE Ended \/ UNCHANGED vars
  BY <1>1, <1>6 DEF Ended, vars, GuardInv
<1>. QED  BY <1>2, <1>3, <1>4, <1>5, <1>6 DEF Next

LEMMA Invariance == Spec => [](TypeInv /\ GuardInv)
<1>1. Init => TypeInv /\ GuardInv
  BY DiffGuardAssumption DEF Init, TypeInv, GuardInv
<1>2. TypeInv /\ GuardInv /\ [Next]_vars => (TypeInv /\ GuardInv)'
  BY TypeStep, GuardStep
<1>. QED  BY <1>1, <1>2, PTL DEF Spec

\* The aggregate of a plan of valid briefs.
LEMMA Aggregated ==
  ASSUME TypeInv
  PROVE  /\ AggregateTask.maxChanged \in Nat /\ AggregateTask.maxNew \in Nat
         /\ AggregateTask.allowed # {}
         /\ \A j \in 1..NTasks : tasks[j].allowed \subseteq AggregateTask.allowed
<1>0. NTasks \in Nat \ {0}
  BY DiffGuardAssumption
<1>1. \A j \in 1..NTasks : /\ tasks[j]["maxChanged"] \in Nat /\ tasks[j]["maxNew"] \in Nat
                           /\ tasks[j].allowed # {}
  BY DiffGuardAssumption DEF TypeInv
<1>2. Total("maxChanged") \in Nat /\ Total("maxNew") \in Nat
  BY <1>0, <1>1, TotalIsLastSum
<1>3. \A j \in 1..NTasks : tasks[j] \in Plan
  BY DEF Plan
<1>4. \A j \in 1..NTasks : tasks[j].allowed \subseteq UNION { c.allowed : c \in Plan }
  BY <1>3
<1>5. UNION { c.allowed : c \in Plan } # {}
  <2>1. 1 \in 1..NTasks
    BY <1>0
  <2>. QED  BY <1>1, <1>4, <2>1
<1>. QED  BY <1>2, <1>4, <1>5 DEF AggregateTask

(* Nothing but moves escapes the final guard: a passing aggregate guard    *)
(* bounds the whole difference from the run's baseline, for plans of any   *)
(* length and whatever roles did to the index (inspect_diff over git diff  *)
(* and the untracked files).                                               *)
THEOREM FinalGuardIsSound == Spec => []FinalGuardSound
<1>1. TypeInv /\ GuardInv => FinalGuardSound
  <2> SUFFICES ASSUME TypeInv, InspectDiff(AggregateTask, Baseline, tree, index) = "PASS"
               PROVE  WithinButMoves(AggregateTask, Baseline, tree)
    BY DEF GuardInv, FinalGuardSound
  <2>. QED  BY Aggregated, PassMeansWithin
<1>. QED  BY <1>1, Invariance, PTL

(* Outside the paths the tasks were allowed, what promote applies to the   *)
(* owner's worktree writes and creates nothing, and what it removes there  *)
(* it brings under an allowed new name; caches apart.                      *)
THEOREM DeliveryOnlyMovesOutside == Spec => []OutsideOnlyMoved
<1>1. TypeInv /\ GuardInv => OutsideOnlyMoved
  <2> SUFFICES ASSUME TypeInv, GuardInv, NEW f \in Changed(Baseline, delivered),
                      f \notin AggregateTask.allowed
               PROVE  /\ delivered[f] = Absent
                      /\ MovedTo(Baseline, delivered, f) \cap AggregateTask.allowed # {}
    BY DEF OutsideOnlyMoved
  <2> DEFINE E == Entries(Baseline, tree, index)
  <2>1. delivered # Baseline
    BY DEF Changed
  <2>2. delivered = tree /\ InspectDiff(AggregateTask, Baseline, tree, index) = "PASS"
    BY <2>1 DEF GuardInv
  <2>3. Paths(E) \subseteq AggregateTask.allowed
    BY <2>2, Aggregated DEF InspectDiff
  <2>4. f \in Changed(Baseline, tree)
    BY <2>2
  <2>5. \A e \in E : e.path \in AggregateTask.allowed
    BY <2>3 DEF Paths
  <2>6. ~\E e \in E : Lists(e, f, Baseline, tree)
    BY <2>5 DEF Lists
  <2>7. tree[f] = Absent /\ \E g \in MovedTo(Baseline, tree, f) : \E e \in E : e.path = g
    BY <2>4, <2>6, EveryChangeListed
  <2>. HIDE DEF E
  <2>. QED  BY <2>2, <2>5, <2>7
<1>. QED  BY <1>1, Invariance, PTL

-----------------------------------------------------------------------------
(* Budgets that hold one by one hold in sum.                               *)

Budget(s) ==
  /\ \A j \in 0..NTasks : s[j] \in Nat
  /\ s[0] = 0 /\ \A j \in 1..NTasks : s[j] = tasks[j].maxChanged + s[j - 1]

\* Where an index shows other than a snapshot.
Shown(b, t, i) == { f \in Files : b[f] # Tracked(t, i)[f] }

(* What the first m tasks may have made of the baseline and of the index,  *)
(* if no guard listed anything unusual.                                    *)
Reached(t, i, m) ==
  /\ Present(t) \ Ephemeral \subseteq i
  /\ i \cap Ephemeral \subseteq Present(Baseline)
  /\ Present(Tracked(t, i)) \subseteq Present(Baseline)
  /\ \A f \in Shown(Baseline, t, i) :
       /\ f \in AggregateTask.allowed /\ f \notin Dependencies
       /\ Tracked(t, i)[f] # Weak /\ (Tracked(t, i)[f] = Absent => f \notin Tests)
  /\ \A s : Budget(s) => Cardinality(Shown(Baseline, t, i)) <= s[m]

ReachedInv ==
  permits = {} =>
    /\ pc = "work" => Reached(base, index, k - 1)
    /\ pc = "judged" /\ guard = "PASS" => Reached(tree, index, k)
    /\ pc \in {"final", "finalJudged"} => Reached(tree, index, NTasks)

LEMMA ShownFinite ==
  ASSUME NEW b, NEW t, NEW i
  PROVE  IsFiniteSet(Shown(b, t, i)) /\ Cardinality(Shown(b, t, i)) \in Nat
<1>1. IsFiniteSet(Shown(b, t, i))
  BY DiffGuardAssumption, FS_Subset DEF Shown
<1>. QED  BY <1>1, FS_CardinalityType

(* A listing without anything new: one deletion or modification for each   *)
(* file the index shows changed.                                           *)
LEMMA PlainListing ==
  ASSUME NEW b, NEW t, NEW i, Untracked(t, i) = {}, AddedIn(b, Tracked(t, i)) = {}
  PROVE  /\ Paths(Entries(b, t, i)) = Shown(b, t, i)
         /\ Cardinality(Entries(b, t, i)) = Cardinality(Shown(b, t, i))
         /\ \A e \in Entries(b, t, i) :
              e.status = IF Tracked(t, i)[e.path] = Absent THEN "D" ELSE "M"
<1> DEFINE E == Entries(b, t, i)
           u == Tracked(t, i)
           L == Shown(b, t, i)
           St(f) == IF u[f] = Absent THEN "D" ELSE "M"
           Ent(f) == [status |-> St(f), path |-> f]
<1>1. Renames(b, u) = {}
  BY RenamesPair
<1>2. E = { [status |-> "D", path |-> f] : f \in DeletedIn(b, u) }
            \cup { [status |-> "M", path |-> f] : f \in Modified(b, u) }
  <2>. HIDE DEF u
  <2>. QED  BY <1>1 DEF Entries, NameStatus, u
<1>3. /\ L = DeletedIn(b, u) \cup Modified(b, u)
      /\ \A f \in DeletedIn(b, u) : u[f] = Absent
      /\ \A f \in Modified(b, u) : u[f] # Absent
  BY DEF Shown, DeletedIn, AddedIn, Modified, Present
<1>4. E = { Ent(f) : f \in L }
  <2>1. \A f \in DeletedIn(b, u) : Ent(f) = [status |-> "D", path |-> f]
    <3>. HIDE DEF u
    <3>. QED  BY <1>3
  <2>2. \A f \in Modified(b, u) : Ent(f) = [status |-> "M", path |-> f]
    <3>. HIDE DEF u
    <3>. QED  BY <1>3
  <2>. HIDE DEF Ent, E, u, L
  <2>. QED  BY <1>2, <1>3, <2>1, <2>2
<1>5. \A f : Ent(f).path = f /\ Ent(f).status = St(f)
  OBVIOUS
<1>6. \A e \in E : e.status = IF u[e.path] = Absent THEN "D" ELSE "M"
  <2>1. \A f : Ent(f).status = IF u[Ent(f).path] = Absent THEN "D" ELSE "M"
    BY <1>5
  <2>. HIDE DEF Ent, E, u, L
  <2>. QED  BY <1>4, <2>1
<1>7. Paths(E) = L
  <2>. HIDE DEF Ent, E, L, St
  <2>. QED  BY <1>4, <1>5 DEF Paths
<1>8. Cardinality(E) = Cardinality(L)
  <2> DEFINE g == [f \in L |-> Ent(f)]
  <2>1. g \in Bijection(L, E)
    <3>. HIDE DEF Ent, E, L, St
    <3>. QED  BY <1>4, <1>5 DEF Bijection, Injection, Surjection, IsInjective
  <2>2. IsFiniteSet(L)
    BY ShownFinite
  <2>. HIDE DEF g, E, L
  <2>. QED  BY <2>1, <2>2, FS_Bijection DEF ExistsBijection
<1>. QED  BY <1>6, <1>7, <1>8

\* A guard that listed nothing unusual listed neither a new nor a renamed file.
LEMMA NothingNew ==
  ASSUME NEW b, NEW t, NEW i, Unusual(b, t, i) = {}
  PROVE  /\ Untracked(t, i) = {} /\ AddedIn(b, Tracked(t, i)) = {}
         /\ Paths(Entries(b, t, i)) \cap Dependencies = {}
<1> DEFINE E == Entries(b, t, i)
           u == Tracked(t, i)
<1>1. \A e \in E : e.status \notin {"A", "R"} /\ e.path \notin Dependencies
  BY DEF Unusual, Paths
<1>2. Untracked(t, i) = {}
  <2> SUFFICES ASSUME NEW f \in Untracked(t, i) PROVE FALSE
    OBVIOUS
  <2> DEFINE e == [status |-> "A", path |-> f, untracked |-> TRUE]
  <2>1. e \in E /\ e.status = "A"
    BY DEF Entries
  <2>. HIDE DEF e, E
  <2>. QED  BY <1>1, <2>1
<1>3. NameStatus(b, u) \subseteq E
  BY DEF Entries
<1>4. AddedIn(b, u) = {}
  <2> SUFFICES ASSUME NEW f \in AddedIn(b, u) PROVE FALSE
    OBVIOUS
  <2>1. CASE \E p \in Renames(b, u) : p[2] = f
    <3>1. PICK p \in Renames(b, u) : p[2] = f
      BY <2>1
    <3> DEFINE e == [status |-> "R", path |-> p[2], from |-> p[1]]
    <3>2. e \in NameStatus(b, u) /\ e.status = "R"
      <4>. HIDE DEF u
      <4>. QED  BY DEF NameStatus
    <3>. HIDE DEF e, E, u
    <3>. QED  BY <1>1, <1>3, <3>2
  <2>2. CASE ~\E p \in Renames(b, u) : p[2] = f
    <3> DEFINE e == [status |-> "A", path |-> f]
    <3>1. e \in NameStatus(b, u) /\ e.status = "A"
      <4>. HIDE DEF u
      <4>. QED  BY <2>2 DEF NameStatus
    <3>. HIDE DEF e, E, u
    <3>. QED  BY <1>1, <1>3, <3>1
  <2>. QED  BY <2>1, <2>2
<1>5. Paths(E) \cap Dependencies = {}
  <2>. HIDE DEF E
  <2>. QED  BY <1>1 DEF Paths
<1>. QED  BY <1>2, <1>4, <1>5

(* One more task, whose guard listed nothing unusual and passed.           *)
LEMMA ReachedStep ==
  ASSUME TypeInv, NEW b, NEW t, NEW i, NEW j, Reached(b, i, k - 1),
         (j \ i) \cap Ephemeral = {}, Unusual(b, t, j) = {},
         InspectDiff(tasks[k], b, t, j) = "PASS"
  PROVE  Reached(t, j, k)
<1> DEFINE E == Entries(b, t, j)
           c == tasks[k]
           u == Tracked(t, j)
           v == Tracked(b, i)
           L == Shown(b, t, j)
           S == Shown(Baseline, t, j)
           R == Shown(Baseline, b, i)
<1>0. /\ c \in Contracts /\ c.maxChanged \in Nat /\ c.allowed # {}
      /\ c.allowed \subseteq AggregateTask.allowed
      /\ k \in 1..NTasks /\ NTasks \in Nat
  BY Aggregated, DiffGuardAssumption DEF TypeInv
<1>1. Untracked(t, j) = {} /\ AddedIn(b, u) = {} /\ Paths(E) \cap Dependencies = {}
  BY NothingNew
<1>2. /\ Paths(E) = L /\ Cardinality(E) = Cardinality(L)
      /\ \A e \in E : e.status = IF u[e.path] = Absent THEN "D" ELSE "M"
  BY <1>1, PlainListing
<1>3. /\ Paths(E) \subseteq c.allowed
      /\ \A e \in E : e.status = "D" => e.path \notin Tests
      /\ { e \in E : t[e.path] = Weak /\ e.status # "D" /\ (e.status = "R" => b[e.from] # Weak) } = {}
      /\ Cardinality(E) <= c.maxChanged
  BY <1>0 DEF InspectDiff
<1>4. \A f \in L : \E e \in E : e.path = f
  BY <1>2 DEF Paths
<1>5. \A f \in Files : u[f] # Absent => f \in j /\ u[f] = t[f] /\ t[f] # Absent /\ b[f] # Absent
  BY <1>1 DEF AddedIn, Present, Tracked
<1>6. \A f \in L : /\ f \in AggregateTask.allowed /\ f \notin Dependencies
                   /\ u[f] # Weak /\ (u[f] = Absent => f \notin Tests)
  <2> SUFFICES ASSUME NEW f \in L
               PROVE  /\ f \in AggregateTask.allowed /\ f \notin Dependencies
                      /\ u[f] # Weak /\ (u[f] = Absent => f \notin Tests)
    OBVIOUS
  <2>1. PICK e \in E : e.path = f
    BY <1>4
  <2>2. f \in AggregateTask.allowed /\ f \notin Dependencies /\ f \in Files
    BY <1>0, <1>1, <1>2, <1>3 DEF Shown
  <2>. HIDE DEF E, L, u
  <2>3. CASE u[f] = Absent
    BY <1>2, <1>3, <2>1, <2>2, <2>3 DEF Absent, Weak
  <2>4. CASE u[f] # Absent
    <3>1. e.status = "M" /\ t[f] = u[f]
      BY <1>2, <1>5, <2>1, <2>2, <2>4
    <3>. QED  BY <1>3, <2>1, <2>2, <2>4, <3>1
  <2>. QED  BY <2>3, <2>4
<1>7. \A f \in S : f \notin L => f \in R /\ v[f] = u[f]
  <2> SUFFICES ASSUME NEW f \in Files, Baseline[f] # u[f], b[f] = u[f]
               PROVE  v[f] = u[f]
    BY DEF Shown
  <2>1. CASE b[f] = Absent
    BY <2>1 DEF Tracked
  <2>2. CASE b[f] # Absent
    <3>1. f \in j
      BY <1>5, <2>2
    <3>2. f \in i
      BY <2>2, <3>1 DEF Reached, Present
    <3>. QED  BY <3>2 DEF Tracked
  <2>. QED  BY <2>1, <2>2
<1>8. Present(t) \ Ephemeral \subseteq j
  BY <1>1 DEF Untracked
<1>9. j \cap Ephemeral \subseteq Present(Baseline)
  BY DEF Reached
<1>10. Present(u) \subseteq Present(Baseline)
  <2> SUFFICES ASSUME NEW f \in Files, u[f] # Absent PROVE f \in Present(Baseline)
    BY DEF Present
  <2>1. f \in j /\ b[f] # Absent
    BY <1>5
  <2>2. CASE f \in Ephemeral
    BY <1>9, <2>1, <2>2
  <2>3. CASE f \notin Ephemeral
    BY <2>1, <2>3 DEF Reached, Present, Tracked
  <2>. QED  BY <2>2, <2>3
<1>11. \A f \in S : /\ f \in AggregateTask.allowed /\ f \notin Dependencies
                    /\ u[f] # Weak /\ (u[f] = Absent => f \notin Tests)
  <2>1. \A f \in R : /\ f \in AggregateTask.allowed /\ f \notin Dependencies
                     /\ v[f] # Weak /\ (v[f] = Absent => f \notin Tests)
    BY DEF Reached
  <2>. HIDE DEF S, L, R, u, v
  <2>. QED  BY <1>6, <1>7, <2>1
<1>12. ASSUME NEW s, Budget(s) PROVE Cardinality(S) <= s[k]
  <2> DEFINE x == Cardinality(S)
             y == Cardinality(R)
             z == Cardinality(L)
             n == Cardinality(R \cup L)
             o == Cardinality(R \cap L)
  <2>0. IsFiniteSet(R) /\ IsFiniteSet(L)
    BY ShownFinite
  <2>1. /\ IsFiniteSet(R \cup L) /\ IsFiniteSet(R \cap L) /\ n = y + z - o
    <3>. HIDE DEF R, L
    <3>. QED  BY <2>0, FS_Union, FS_Subset
  <2>2. x <= n
    <3>1. S \subseteq R \cup L
      BY <1>7
    <3>. HIDE DEF S, R, L
    <3>. QED  BY <2>1, <3>1, FS_Subset
  <2>3. x \in Nat /\ y \in Nat /\ z \in Nat /\ n \in Nat /\ o \in Nat
    <3>1. x \in Nat /\ y \in Nat /\ z \in Nat
      BY ShownFinite
    <3>2. n \in Nat /\ o \in Nat
      <4>. HIDE DEF R, L
      <4>. QED  BY <2>1, FS_CardinalityType
    <3>. QED  BY <3>1, <3>2
  <2>4. z <= c.maxChanged
    BY <1>2, <1>3
  <2>5. y <= s[k - 1]
    BY <1>12 DEF Reached
  <2>6. s[k] = c.maxChanged + s[k - 1] /\ s[k - 1] \in Nat
    BY <1>0, <1>12 DEF Budget
  <2>. HIDE DEF x, y, z, n, o, c
  <2>7. x <= s[k]
    BY <1>0, <2>1, <2>2, <2>3, <2>4, <2>5, <2>6
  <2>. QED  BY <2>7 DEF x
<1>. QED  BY <1>8, <1>9, <1>10, <1>11, <1>12 DEF Reached

LEMMA SameReached ==
  ASSUME UNCHANGED tasks, NEW t, NEW i, NEW m, Reached(t, i, m)
  PROVE  Reached(t, i, m)'
<1>1. AggregateTask' = AggregateTask
  BY SamePlan
<1>2. \A s : Budget(s)' => Budget(s)
  BY DEF Budget
<1>. QED  BY <1>1, <1>2 DEF Reached

LEMMA ReachedNext ==
  ASSUME TypeInv, GuardInv, ReachedInv, [Next]_vars
  PROVE  ReachedInv'
<1>0. UNCHANGED tasks
  BY TypeStep
<1>1. SUFFICES ASSUME permits' = {}
               PROVE  /\ pc' = "work" => Reached(base, index, k - 1)'
                      /\ pc' = "judged" /\ guard' = "PASS" => Reached(tree, index, k)'
                      /\ pc' \in {"final", "finalJudged"} => Reached(tree, index, NTasks)'
  BY DEF ReachedInv
<1>2. PICK b, t, i, n, u, j : b = base /\ t = tree /\ i = index /\ n = k /\ u = tree' /\ j = index'
  OBVIOUS
<1>3. CASE WorkOnTask
  <2>1. /\ pc = "work" /\ pc' = "judged" /\ UNCHANGED <<k, base>> /\ permits = {}
        /\ Unusual(base, u, j) = {} /\ (j \ i) \cap Ephemeral = {}
        /\ guard' = InspectDiff(tasks[k], base, u, j)
    BY <1>1, <1>2, <1>3 DEF WorkOnTask
  <2>2. CASE guard' = "PASS"
    <3>1. Reached(b, i, k - 1)
      BY <1>2, <2>1 DEF ReachedInv
    <3>2. Unusual(b, u, j) = {} /\ InspectDiff(tasks[k], b, u, j) = "PASS"
      BY <1>2, <2>1, <2>2
    <3>3. Reached(u, j, k)
      BY <2>1, <3>1, <3>2, ReachedStep
    <3>4. Reached(u, j, n)'
      BY <1>0, <1>2, <3>3, SameReached
    <3>. QED  BY <1>2, <2>1, <3>4
  <2>. QED  BY <2>1, <2>2
<1>4. CASE NextTask
  <2>1. pc = "judged" /\ permits = {} /\ UNCHANGED <<tree, index, guard>>
    BY <1>1, <1>4 DEF NextTask
  <2>2. CASE guard = "FAIL"
    BY <1>4, <2>2 DEF NextTask
  <2>3. CASE guard # "FAIL"
    <3>1. guard = "PASS"
      BY <2>1, <2>3 DEF GuardInv, InspectDiff
    <3>2. Reached(t, i, n)
      BY <1>2, <2>1, <3>1 DEF ReachedInv
    <3>3. Reached(t, i, n)'
      BY <1>0, <3>2, SameReached
    <3>4. CASE k < NTasks
      <4>1. pc' = "work" /\ k' = k + 1 /\ base' = tree
        BY <1>4, <2>3, <3>4 DEF NextTask
      <4>2. k' - 1 = n
        BY <1>2, <4>1, DiffGuardAssumption DEF TypeInv
      <4>. QED  BY <1>2, <2>1, <3>3, <4>1, <4>2
    <3>5. CASE ~(k < NTasks)
      <4>1. pc' = "final" /\ k = NTasks
        BY <1>4, <2>3, <3>5, DiffGuardAssumption DEF NextTask, TypeInv
      <4>. QED  BY <1>2, <2>1, <3>3, <4>1
    <3>. QED  BY <3>4, <3>5
  <2>. QED  BY <2>2, <2>3
<1>5. CASE FinalGuard
  <2>1. pc = "final" /\ pc' = "finalJudged" /\ UNCHANGED <<tree, index, permits>>
    BY <1>5 DEF FinalGuard
  <2>2. Reached(t, i, NTasks)
    BY <1>1, <1>2, <2>1 DEF ReachedInv
  <2>3. Reached(t, i, NTasks)'
    BY <1>0, <2>2, SameReached
  <2>. QED  BY <1>2, <2>1, <2>3
<1>6. CASE Promote
  BY <1>6 DEF Promote
<1>7. CASE Ended \/ UNCHANGED vars
  <2>1. UNCHANGED <<pc, k, tree, index, base, permits, guard>>
    BY <1>7 DEF Ended, vars
  <2>2. pc = "work" => Reached(b, i, n - 1)'
    BY <1>0, <1>1, <1>2, <2>1, SameReached DEF ReachedInv
  <2>3. pc \in {"final", "finalJudged"} => Reached(t, i, NTasks)'
    BY <1>0, <1>1, <1>2, <2>1, SameReached DEF ReachedInv
  <2>4. pc = "judged" /\ guard = "PASS" => Reached(t, i, n)'
    BY <1>0, <1>1, <1>2, <2>1, SameReached DEF ReachedInv
  <2>. QED  BY <1>2, <2>1, <2>2, <2>3, <2>4
<1>. QED  BY <1>3, <1>4, <1>5, <1>6, <1>7 DEF Next

LEMMA ReachedInit == Init => ReachedInv
<1> SUFFICES ASSUME Init PROVE Reached(base, index, k - 1)
  BY DEF Init, ReachedInv
<1>1. base = Baseline /\ index = Present(Baseline) /\ k - 1 = 0
  BY DEF Init
<1>2. Shown(Baseline, Baseline, Present(Baseline)) = {} /\ Cardinality({}) = 0
  BY FS_EmptySet DEF Shown, Tracked, Present
<1>3. Present(Tracked(Baseline, Present(Baseline))) \subseteq Present(Baseline)
  BY DEF Tracked, Present
<1>. QED  BY <1>1, <1>2, <1>3 DEF Reached, Budget

(* Tasks whose guards all passed pass the aggregate guard together, if     *)
(* none listed a new, a renamed or a dependency file, none had a cache     *)
(* staged and none protects what another may change: the sum of their      *)
(* budgets is enough whatever they did one after the other to the worktree *)
(* and to the index (aggregate_task).                                      *)
THEOREM GuardsCompose == Spec => []BudgetsCompose
<1>1. ASSUME TypeInv, GuardInv, ReachedInv PROVE BudgetsCompose
  <2> SUFFICES ASSUME pc = "finalJudged", Compatible, permits = {} PROVE guard = "PASS"
    BY DEF BudgetsCompose
  <2> DEFINE E == Entries(Baseline, tree, index)
             u == Tracked(tree, index)
             C == Shown(Baseline, tree, index)
             A == AggregateTask
             New  == { e \in E : e.status = "A" }
             deps == Paths(E) \cap Dependencies
             weak == { e \in E : /\ tree[e.path] = Weak /\ e.status # "D"
                                 /\ e.status = "R" => Baseline[e.from] # Weak }
  <2>1. Reached(tree, index, NTasks)
    BY <1>1 DEF ReachedInv
  <2>2. Untracked(tree, index) = {} /\ AddedIn(Baseline, u) = {}
    BY <2>1 DEF Reached, Untracked, AddedIn
  <2>3. /\ Paths(E) = C /\ Cardinality(E) = Cardinality(C)
        /\ \A e \in E : e.status = IF u[e.path] = Absent THEN "D" ELSE "M"
    BY <2>2, PlainListing
  <2>4. \A f \in C : /\ f \in A.allowed /\ f \notin Dependencies
                     /\ u[f] # Weak /\ (u[f] = Absent => f \notin Tests)
    BY <2>1 DEF Reached
  <2>5. A.allowed \cap A.protected = {}
    BY DEF AggregateTask, Compatible
  <2>6. Cardinality(C) <= A.maxChanged
    <3>1. \A j \in 1..NTasks : tasks[j]["maxChanged"] \in Nat
      BY <1>1, DiffGuardAssumption DEF TypeInv
    <3>2. PICK s : Total("maxChanged") = s[NTasks] /\ Budget(s)
      BY <3>1, TotalIsLastSum DEF Budget
    <3>. QED  BY <2>1, <3>2 DEF Reached, AggregateTask
  <2>7. A.maxChanged \in Nat /\ A.maxNew \in Nat
    BY <1>1, Aggregated
  <2>8. guard = InspectDiff(AggregateTask, Baseline, tree, index)
    BY <1>1 DEF GuardInv
  <2>9. \A f \in Files : u[f] # Absent => u[f] = tree[f]
    BY DEF Tracked
  <2>10. C \subseteq Files
    BY DEF Shown
  <2>. HIDE DEF E, C, A, u
  <2>11. Cardinality(E) <= A.maxChanged
    BY <2>3, <2>6, <2>7
  <2>12. New = {}
    BY <2>3
  <2>13. Cardinality(New) <= A.maxNew
    BY <2>7, <2>12, FS_EmptySet
  <2>14. Paths(New) \subseteq A.permitted
    BY <2>12 DEF Paths
  <2>15. deps = {} /\ Paths(E) \subseteq A.allowed /\ Paths(E) \cap A.protected = {}
    BY <2>3, <2>4, <2>5
  <2>16. \A e \in E : e.path \in C
    BY <2>3 DEF Paths
  <2>17. weak = {} /\ \A e \in E : e.status = "D" => e.path \notin Tests
    <3>1. \A e \in E : e.status # "D" => u[e.path] # Absent /\ tree[e.path] = u[e.path]
      BY <2>3, <2>9, <2>10, <2>16
    <3>. QED  BY <2>3, <2>4, <2>16, <3>1
  <2>18. /\ Paths(New) \subseteq A.permitted
         /\ deps # {} => A.deps /\ deps \subseteq A.permitted
         /\ A.allowed # {} => Paths(E) \subseteq A.allowed
         /\ Paths(E) \cap A.protected = {}
         /\ \A e \in E : e.status = "D" => e.path \notin Tests
         /\ weak = {}
         /\ Cardinality(E) <= A.maxChanged
         /\ Cardinality(New) <= A.maxNew
    BY <2>11, <2>13, <2>14, <2>15, <2>17
  <2>. QED  BY <2>8, <2>18 DEF InspectDiff, E, A
<1>2. Init => TypeInv /\ GuardInv /\ ReachedInv
  BY ReachedInit, DiffGuardAssumption DEF Init, TypeInv, GuardInv
<1>3. TypeInv /\ GuardInv /\ ReachedInv /\ [Next]_vars => (TypeInv /\ GuardInv /\ ReachedInv)'
  BY TypeStep, GuardStep, ReachedNext
<1>. QED  BY <1>1, <1>2, <1>3, PTL DEF Spec
=============================================================================
