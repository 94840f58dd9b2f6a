-------------------------- MODULE AuditEngines_proofs --------------------------
(***************************************************************************)
(* Theorems about the engines that choose evidence, for any worlds,        *)
(* mechanisms, catalogues and limits: first about the compiler, then about *)
(* the design pipeline, and last about the three engines side by side,     *)
(* each of which is, for itself, the engine that its own module describes. *)
(***************************************************************************)
EXTENDS AuditEngines, FiniteAudit_proofs, SequenceTheorems

(***************************************************************************)
(* The search for a hitting set (_minimum_weight_contract).  A closed set  *)
(* that meets the constraints contains a mechanism of every constraint,    *)
(* so one of the branches stays inside it; a branch makes the choice       *)
(* larger, so it ends; and the leaf it ends at is no dearer.               *)
(***************************************************************************)

LEMMA CatalogueFacts ==
    ASSUME catalogue \in Catalogue
    PROVE  /\ \A k \in Mechanisms : catalogue.cost[k] \in Nat
           /\ \A m : Eligible(m) \in SUBSET Mechanisms
  BY DEF Catalogue, Eligible

\* Sets of mechanisms have a size and a weight.
LEMMA Weights ==
    ASSUME catalogue \in Catalogue, NEW s \in SUBSET Mechanisms
    PROVE  /\ IsFiniteSet(s) /\ Cardinality(s) \in Nat /\ s \in SUBSET Nat
           /\ weight(s) \in Nat
           /\ \A part \in SUBSET s : weight(part) <= weight(s)
<1>1. IsFiniteSet(s) /\ s \in SUBSET Nat
  BY MechanismsAssumption, FS_Subset
<1>2. \A k \in s : catalogue.cost[k] \in Nat
  BY CatalogueFacts
<1> QED BY <1>1, <1>2, FS_CardinalityType, TotalIsNatural, TotalOfSubset DEF weight

\* Both orders of the search are total and transitive.
LEMMA BeforeIsOrder ==
    ASSUME catalogue \in Catalogue, NEW s \in SUBSET Mechanisms, NEW t \in SUBSET Mechanisms
    PROVE  /\ s # t => Before(s, t) \/ Before(t, s)
           /\ \A u \in SUBSET Mechanisms : Before(s, t) /\ Before(t, u) => Before(s, u)
           /\ Before(s, t) => weight(s) <= weight(t)
<1>1. weight(s) \in Nat /\ weight(t) \in Nat /\ s \in SUBSET Nat /\ t \in SUBSET Nat
  BY Weights
<1>2. s # t => Before(s, t) \/ Before(t, s)
  BY <1>1, LexicallyTotal DEF Before
<1>3. ASSUME NEW u \in SUBSET Mechanisms, Before(s, t), Before(t, u) PROVE Before(s, u)
  <2>1. weight(u) \in Nat /\ u \in SUBSET Nat
    BY Weights
  <2> QED BY <1>1, <1>3, <2>1, LexicallyTransitive DEF Before
<1> QED BY <1>1, <1>2, <1>3 DEF Before

LEMMA PivotIsOrder ==
    ASSUME catalogue \in Catalogue, NEW s \in SUBSET Mechanisms, NEW t \in SUBSET Mechanisms
    PROVE  /\ s # t => PivotBefore(s, t) \/ PivotBefore(t, s)
           /\ \A u \in SUBSET Mechanisms :
                  PivotBefore(s, t) /\ PivotBefore(t, u) => PivotBefore(s, u)
<1>1. Cardinality(s) \in Nat /\ Cardinality(t) \in Nat
  BY Weights
<1>2. s # t => PivotBefore(s, t) \/ PivotBefore(t, s)
  BY <1>1, BeforeIsOrder DEF PivotBefore
<1>3. ASSUME NEW u \in SUBSET Mechanisms, PivotBefore(s, t), PivotBefore(t, u)
      PROVE  PivotBefore(s, u)
  <2>1. Cardinality(u) \in Nat
    BY Weights
  <2> QED BY <1>1, <1>3, <2>1, BeforeIsOrder DEF PivotBefore
<1> QED BY <1>2, <1>3

\* So a nonempty collection of sets has a first one.
LEMMA CollectionsAreFinite ==
    ASSUME NEW sets \in SUBSET SUBSET Mechanisms PROVE IsFiniteSet(sets)
  BY MechanismsAssumption, FS_SUBSET, FS_Subset

LEMMA PivotExists ==
    ASSUME catalogue \in Catalogue, NEW sets \in SUBSET SUBSET Mechanisms, sets # {}
    PROVE  Pivot(sets) \in sets
<1> DEFINE order == {p \in sets \X sets : PivotBefore(p[1], p[2])}
<1>1. \A s, t \in sets : <<s, t>> \in order <=> PivotBefore(s, t)
  OBVIOUS
<1> HIDE DEF order
<1>2. IsOrder(order, sets)
  BY <1>1, PivotIsOrder DEF IsOrder
<1>3. PICK s : IsLeast(s, order, sets)
  BY <1>2, CollectionsAreFinite, LeastMember
<1>4. \E first \in sets : \A t \in sets \ {first} : PivotBefore(first, t)
  BY <1>1, <1>3 DEF IsLeast
<1> QED BY <1>4 DEF Pivot

LEMMA FirstExists ==
    ASSUME catalogue \in Catalogue, NEW sets \in SUBSET SUBSET Mechanisms, sets # {}
    PROVE  \E s \in sets : \A t \in sets \ {s} : Before(s, t)
<1> DEFINE order == {p \in sets \X sets : Before(p[1], p[2])}
<1>1. \A s, t \in sets : <<s, t>> \in order <=> Before(s, t)
  OBVIOUS
<1> HIDE DEF order
<1>2. IsOrder(order, sets)
  BY <1>1, BeforeIsOrder DEF IsOrder
<1>3. PICK s : IsLeast(s, order, sets)
  BY <1>2, CollectionsAreFinite, LeastMember
<1> QED BY <1>1, <1>3 DEF IsLeast

\* The closure of a choice is the least closed set around it.
LEMMA ClosureIsClosed ==
    ASSUME NEW picked, NEW allowed, NEW closed \in _dependency_closure(picked, allowed)
    PROVE  closed \in ClosedSets(allowed) /\ picked \subseteq closed
  BY DEF _dependency_closure

LEMMA ClosureIsLeast ==
    ASSUME NEW allowed, NEW picked, NEW set \in ClosedSets(allowed), picked \subseteq set
    PROVE  \E closed \in _dependency_closure(picked, allowed) : closed \subseteq set
<1> DEFINE around == {s \in ClosedSets(allowed) : picked \subseteq s}
           common == {k \in allowed : \A s \in around : k \in s}
<1>1. set \in around /\ \A s \in around : s \subseteq allowed /\ picked \subseteq s
  BY DEF ClosedSets
<1>2. \A k \in common : catalogue.requires[k] \subseteq common
  <2> SUFFICES ASSUME NEW k \in common, NEW d \in catalogue.requires[k] PROVE d \in common
    OBVIOUS
  <2>1. \A s \in around : k \in s /\ catalogue.requires[k] \subseteq s
    BY DEF ClosedSets
  <2> QED BY <1>1, <2>1
<1>3. picked \subseteq common
  BY <1>1
<1>4. common \in around
  BY <1>2, <1>3 DEF ClosedSets
<1>5. \A s \in around : common \subseteq s
  OBVIOUS
<1>6. common \in _dependency_closure(picked, allowed)
  BY <1>4, <1>5 DEF _dependency_closure
<1> QED BY <1>1, <1>5, <1>6

\* What the recursion of the branching demands of its solution.
AreLeaves(leaves, sets, allowed) ==
    leaves = [picked \in SUBSET allowed |->
                 IF Unhit(sets, picked) = {} THEN {picked}
                 ELSE UNION {leaves[closed] : closed \in Branches(picked, sets, allowed)}]

\* A branch leads from a choice to a closed set with one mechanism more at least.
LEMMA BranchesGrow ==
    ASSUME catalogue \in Catalogue, NEW allowed \in SUBSET Mechanisms,
           NEW sets \in SUBSET SUBSET allowed, NEW picked \in SUBSET allowed,
           Unhit(sets, picked) # {}, NEW closed \in Branches(picked, sets, allowed)
    PROVE  /\ closed \in ClosedSets(allowed)
           /\ picked \subseteq closed
           /\ Cardinality(allowed \ closed) < Cardinality(allowed \ picked)
<1>1. Unhit(sets, picked) \in SUBSET SUBSET Mechanisms
  BY DEF Unhit
<1>2. Pivot(Unhit(sets, picked)) \in Unhit(sets, picked)
  BY <1>1, PivotExists
<1>3. PICK k \in Pivot(Unhit(sets, picked)) :
          closed \in _dependency_closure(picked \cup {k}, allowed)
  BY DEF Branches
<1>4. k \in allowed \ picked
  BY <1>2, <1>3 DEF Unhit
<1>5. closed \in ClosedSets(allowed) /\ picked \cup {k} \subseteq closed
  BY <1>3, ClosureIsClosed
<1>6. /\ IsFiniteSet(allowed \ picked) /\ allowed \ closed \in SUBSET (allowed \ picked)
      /\ allowed \ closed # allowed \ picked
      /\ Cardinality(allowed \ closed) \in Nat /\ Cardinality(allowed \ picked) \in Nat
  BY <1>4, <1>5, Weights
<1>7. Cardinality(allowed \ closed) < Cardinality(allowed \ picked)
  BY <1>6, FS_Subset
<1> QED BY <1>5, <1>7

LEMMA LeavesExist ==
    ASSUME catalogue \in Catalogue, NEW allowed \in SUBSET Mechanisms,
           NEW sets \in SUBSET SUBSET allowed
    PROVE  \E leaves : AreLeaves(leaves, sets, allowed)
<1> DEFINE UpTo(n) == {s \in SUBSET allowed : Cardinality(allowed \ s) <= n}
           Partial(leaves, n) ==
               leaves = [picked \in UpTo(n) |->
                            IF Unhit(sets, picked) = {} THEN {picked}
                            ELSE UNION {leaves[closed] : closed \in Branches(picked, sets, allowed)}]
           without == {n \in Nat : ~\E leaves : Partial(leaves, n)}
<1>1. \A s \in SUBSET allowed : Cardinality(allowed \ s) \in Nat
  BY Weights
<1>2. ASSUME NEW n \in Nat, NEW picked \in UpTo(n), Unhit(sets, picked) # {},
             NEW closed \in Branches(picked, sets, allowed)
      PROVE  n # 0 /\ closed \in UpTo(n - 1)
  <2>1. closed \in SUBSET allowed
        /\ Cardinality(allowed \ closed) < Cardinality(allowed \ picked)
    BY <1>2, BranchesGrow DEF ClosedSets
  <2>2. /\ Cardinality(allowed \ picked) \in Nat /\ Cardinality(allowed \ closed) \in Nat
        /\ Cardinality(allowed \ picked) <= n
    BY <1>1, <1>2, <2>1
  <2>3. n # 0 /\ Cardinality(allowed \ closed) <= n - 1
    BY <2>1, <2>2
  <2> QED BY <2>1, <2>3
<1>3. ASSUME without # {} PROVE FALSE
  <2>1. PICK n \in without : \A m \in without : n <= m
    <3>1. without \in SUBSET Nat
      OBVIOUS
    <3> QED BY <1>3, <3>1, LeastNumber
  <2>2. n \in Nat
    BY <2>1
  <2> DEFINE Extended(fewer) ==
                 [picked \in UpTo(n) |->
                     IF Unhit(sets, picked) = {} THEN {picked}
                     ELSE UNION {fewer[closed] : closed \in Branches(picked, sets, allowed)}]
  <2>3. ASSUME NEW fewer, n # 0 => Partial(fewer, n - 1) PROVE Partial(Extended(fewer), n)
    <3> DEFINE leaves == Extended(fewer)
    <3>1. ASSUME NEW picked \in UpTo(n), Unhit(sets, picked) # {},
                 NEW closed \in Branches(picked, sets, allowed)
          PROVE  leaves[closed] = fewer[closed]
      <4>1. n # 0 /\ closed \in UpTo(n - 1)
        BY <1>2, <2>2, <3>1
      <4>2. closed \in UpTo(n)
        <5>1. closed \in SUBSET allowed /\ Cardinality(allowed \ closed) <= n - 1
          BY <4>1
        <5>2. Cardinality(allowed \ closed) <= n
          <6>1. \A c, m \in Nat : c <= m - 1 => c <= m
            OBVIOUS
          <6>2. Cardinality(allowed \ closed) \in Nat
            BY <1>1, <5>1
          <6> QED BY <2>2, <5>1, <6>1, <6>2
        <5> QED BY <5>1, <5>2
      <4>3. fewer = [c \in UpTo(n - 1) |->
                        IF Unhit(sets, c) = {} THEN {c}
                        ELSE UNION {fewer[d] : d \in Branches(c, sets, allowed)}]
        BY <2>3, <4>1
      <4> HIDE DEF UpTo
      <4>4. fewer[closed] = IF Unhit(sets, closed) = {} THEN {closed}
                            ELSE UNION {fewer[d] : d \in Branches(closed, sets, allowed)}
        BY <4>1, <4>3
      <4> QED BY <4>2, <4>4
    <3> DEFINE again == [picked \in UpTo(n) |->
                            IF Unhit(sets, picked) = {} THEN {picked}
                            ELSE UNION {leaves[closed] : closed \in Branches(picked, sets, allowed)}]
    <3> HIDE DEF UpTo
    <3>2. \A picked \in UpTo(n) : leaves[picked] = again[picked]
      <4> SUFFICES ASSUME NEW picked \in UpTo(n), Unhit(sets, picked) # {}
                   PROVE  UNION {fewer[closed] : closed \in Branches(picked, sets, allowed)}
                          = UNION {leaves[closed] : closed \in Branches(picked, sets, allowed)}
        OBVIOUS
      <4> HIDE DEF leaves
      <4> QED BY <3>1
    <3>3. leaves = again
      BY <3>2
    <3> QED BY <3>3
  <2> HIDE DEF Extended, Partial
  <2>4. CASE n = 0
    BY <2>1, <2>3, <2>4
  <2>5. CASE n # 0
    <3>1. n - 1 \in Nat /\ ~(n <= n - 1)
      BY <2>2, <2>5
    <3>2. n - 1 \notin without
      BY <2>1, <3>1
    <3>3. PICK fewer : Partial(fewer, n - 1)
      BY <3>1, <3>2
    <3> QED BY <2>1, <2>3, <3>3
  <2> QED BY <2>4, <2>5
<1> DEFINE all == Cardinality(allowed)
<1>4. all \in Nat /\ UpTo(all) = SUBSET allowed
  <2>1. IsFiniteSet(allowed) /\ all \in Nat
    BY Weights
  <2>2. \A s \in SUBSET allowed : Cardinality(allowed \ s) <= all
    BY <2>1, FS_Subset
  <2> QED BY <2>1, <2>2
<1>5. PICK leaves : Partial(leaves, all)
  <2> HIDE DEF Partial
  <2> QED BY <1>3, <1>4
<1> QED BY <1>4, <1>5 DEF AreLeaves

LEMMA LeavesAreLeaves ==
    ASSUME catalogue \in Catalogue, NEW allowed \in SUBSET Mechanisms,
           NEW sets \in SUBSET SUBSET allowed
    PROVE  \E leaves : AreLeaves(leaves, sets, allowed) /\ Leaves(sets, allowed) = leaves[{}]
<1>1. Leaves(sets, allowed) = (CHOOSE leaves : AreLeaves(leaves, sets, allowed))[{}]
  BY DEF Leaves, AreLeaves
<1>2. AreLeaves(CHOOSE leaves : AreLeaves(leaves, sets, allowed), sets, allowed)
  BY LeavesExist
<1> QED BY <1>1, <1>2

\* Every leaf is a closed set that meets the constraints.
LEMMA LeavesAreSound ==
    ASSUME catalogue \in Catalogue, NEW allowed \in SUBSET Mechanisms,
           NEW sets \in SUBSET SUBSET allowed, NEW leaves, AreLeaves(leaves, sets, allowed),
           NEW start \in ClosedSets(allowed)
    PROVE  \A leaf \in leaves[start] : leaf \in ClosedSets(allowed) /\ Unhit(sets, leaf) = {}
<1> DEFINE Sound(leaf) == leaf \in ClosedSets(allowed) /\ Unhit(sets, leaf) = {}
           wrong == {picked \in ClosedSets(allowed) : \E leaf \in leaves[picked] : ~Sound(leaf)}
           open == {allowed \ picked : picked \in wrong}
<1>1. ASSUME wrong # {} PROVE FALSE
  <2>1. \A s \in open : IsFiniteSet(s)
    BY Weights DEF ClosedSets
  <2>2. PICK s \in open : \A t \in open : Cardinality(s) <= Cardinality(t)
    <3>1. open # {}
      <4>1. PICK picked : picked \in wrong
        BY <1>1
      <4>2. allowed \ picked \in open
        BY <4>1
      <4> HIDE DEF open
      <4> QED BY <4>2
    <3> HIDE DEF open
    <3> QED BY <2>1, <3>1, SmallestSet
  <2>3. PICK picked \in wrong : s = allowed \ picked
    BY <2>2
  <2>4. picked \in ClosedSets(allowed) /\ picked \in SUBSET allowed
    BY <2>3 DEF ClosedSets
  <2>5. PICK leaf \in leaves[picked] : ~Sound(leaf)
    BY <2>3
  <2> HIDE DEF Sound
  <2>6. leaves[picked] = IF Unhit(sets, picked) = {} THEN {picked}
                         ELSE UNION {leaves[closed] : closed \in Branches(picked, sets, allowed)}
    BY <2>4 DEF AreLeaves
  <2>7. Unhit(sets, picked) # {}
    BY <2>4, <2>5, <2>6 DEF Sound
  <2>8. PICK closed \in Branches(picked, sets, allowed) : leaf \in leaves[closed]
    BY <2>5, <2>6, <2>7
  <2>9. /\ closed \in ClosedSets(allowed)
        /\ Cardinality(allowed \ closed) < Cardinality(allowed \ picked)
    BY <2>4, <2>7, BranchesGrow
  <2>10. allowed \ closed \in open
    BY <2>5, <2>8, <2>9
  <2>11. Cardinality(allowed \ closed) \in Nat /\ Cardinality(allowed \ picked) \in Nat
    BY Weights
  <2>12. Cardinality(allowed \ picked) <= Cardinality(allowed \ closed)
    <3> HIDE DEF open, wrong
    <3> QED BY <2>2, <2>3, <2>10
  <2> QED BY <2>9, <2>11, <2>12
<1> QED BY <1>1

\* Every closed set that meets the constraints contains a leaf.
LEMMA LeavesAreComplete ==
    ASSUME catalogue \in Catalogue, NEW allowed \in SUBSET Mechanisms,
           NEW sets \in SUBSET SUBSET allowed, NEW leaves, AreLeaves(leaves, sets, allowed),
           NEW start \in SUBSET allowed,
           NEW set \in ClosedSets(allowed), Unhit(sets, set) = {}, start \subseteq set
    PROVE  \E leaf \in leaves[start] : leaf \subseteq set
<1> DEFINE Complete(picked) == \E leaf \in leaves[picked] : leaf \subseteq set
           wrong == {picked \in SUBSET set : ~Complete(picked)}
           open == {allowed \ picked : picked \in wrong}
<1>0. set \in SUBSET allowed
  BY DEF ClosedSets
<1>1. ASSUME wrong # {} PROVE FALSE
  <2>1. \A s \in open : IsFiniteSet(s)
    BY <1>0, Weights
  <2>2. PICK s \in open : \A t \in open : Cardinality(s) <= Cardinality(t)
    <3>1. open # {}
      <4>1. PICK picked : picked \in wrong
        BY <1>1
      <4>2. allowed \ picked \in open
        BY <4>1
      <4> HIDE DEF open
      <4> QED BY <4>2
    <3> HIDE DEF open
    <3> QED BY <2>1, <3>1, SmallestSet
  <2>3. PICK picked \in wrong : s = allowed \ picked
    BY <2>2
  <2>4. picked \in SUBSET allowed /\ picked \subseteq set /\ ~Complete(picked)
    BY <1>0, <2>3
  <2>5. leaves[picked] = IF Unhit(sets, picked) = {} THEN {picked}
                         ELSE UNION {leaves[closed] : closed \in Branches(picked, sets, allowed)}
    BY <2>4 DEF AreLeaves
  <2>6. Unhit(sets, picked) # {}
    BY <2>4, <2>5
  <2>7. Pivot(Unhit(sets, picked)) \in Unhit(sets, picked)
    <3>1. Unhit(sets, picked) \in SUBSET SUBSET Mechanisms
      BY DEF Unhit
    <3> QED BY <2>6, <3>1, PivotExists
  <2>8. PICK k \in Pivot(Unhit(sets, picked)) : k \in set
    BY <2>7 DEF Unhit
  <2>9. PICK closed \in _dependency_closure(picked \cup {k}, allowed) : closed \subseteq set
    BY <2>4, <2>8, ClosureIsLeast
  <2>10. closed \in Branches(picked, sets, allowed)
    <3> DEFINE closures == {_dependency_closure(picked \cup {j}, allowed) :
                                j \in Pivot(Unhit(sets, picked))}
    <3>1. Branches(picked, sets, allowed) = UNION closures
      BY DEF Branches
    <3>2. _dependency_closure(picked \cup {k}, allowed) \in closures
      BY <2>8
    <3> HIDE DEF closures
    <3> QED BY <2>9, <3>1, <3>2
  <2>11. Cardinality(allowed \ closed) < Cardinality(allowed \ picked)
    BY <2>4, <2>6, <2>10, BranchesGrow
  <2>12. Complete(closed)
    <3>1. Cardinality(allowed \ closed) \in Nat /\ Cardinality(allowed \ picked) \in Nat
      BY Weights
    <3>2. closed \in wrong => allowed \ closed \in open
      OBVIOUS
    <3>3. closed \notin wrong
      <4> SUFFICES ASSUME closed \in wrong PROVE FALSE
        OBVIOUS
      <4> HIDE DEF open, wrong
      <4>1. Cardinality(allowed \ picked) <= Cardinality(allowed \ closed)
        BY <2>2, <2>3, <3>2
      <4> QED BY <2>11, <3>1, <4>1
    <3> HIDE DEF open, Complete
    <3> QED BY <2>9, <3>3
  <2>13. leaves[closed] \subseteq leaves[picked]
    BY <2>5, <2>6, <2>10
  <2> QED BY <2>4, <2>12, <2>13
<1> QED BY <1>1

\* The search returns a cheapest closed set that meets the constraints, and
\* nothing only if there is no such set.
LEMMA SearchIsExact ==
    ASSUME catalogue \in Catalogue, NEW allowed \in SUBSET Mechanisms,
           NEW sets \in SUBSET SUBSET Mechanisms
    PROVE  LET sufficient == {s \in ClosedSets(allowed) : Hits(s, sets)}
           IN  /\ \A s \in _minimum_weight_contract(sets, allowed) :
                      s \in sufficient /\ \A t \in sufficient : weight(s) <= weight(t)
               /\ _minimum_weight_contract(sets, allowed) = {} => sufficient = {}
<1> DEFINE sufficient == {s \in ClosedSets(allowed) : Hits(s, sets)}
           filtered == {s \cap allowed : s \in sets}
           reduced == {s \in filtered : \A t \in filtered : t \subseteq s => t = s}
           found == IF {} \in filtered THEN {} ELSE Leaves(reduced, allowed)
<1>1. _minimum_weight_contract(sets, allowed)
          = {s \in found : \A t \in found \ {s} : Before(s, t)}
  BY DEF _minimum_weight_contract
<1>2. reduced \in SUBSET SUBSET allowed /\ filtered \in SUBSET SUBSET allowed
  OBVIOUS
<1>3. \A s \in ClosedSets(allowed) : s \in SUBSET allowed /\ s \in SUBSET Mechanisms
  BY DEF ClosedSets
<1>4. ASSUME NEW f \in filtered PROVE \E r \in reduced : r \subseteq f
  <2> DEFINE below == {t \in filtered : t \subseteq f}
  <2>1. below # {} /\ \A t \in below : IsFiniteSet(t) /\ Cardinality(t) \in Nat
    BY <1>2, Weights
  <2>2. PICK r \in below : \A t \in below : Cardinality(r) <= Cardinality(t)
    BY <2>1, SmallestSet
  <2>3. ASSUME NEW t \in filtered, t \subseteq r PROVE t = r
    <3>1. t \in below
      BY <2>2, <2>3
    <3>2. Cardinality(r) <= Cardinality(t) /\ Cardinality(t) <= Cardinality(r)
      BY <2>1, <2>2, <2>3, <3>1, FS_Subset
    <3>3. Cardinality(t) = Cardinality(r)
      BY <2>1, <2>2, <3>1, <3>2
    <3> QED BY <2>1, <2>2, <2>3, <3>3, FS_Subset
  <2> QED BY <2>2, <2>3
<1>5. \A s \in SUBSET allowed : Hits(s, sets) <=> {} \notin filtered /\ Unhit(reduced, s) = {}
  <2> TAKE s \in SUBSET allowed
  <2>1. Hits(s, sets) <=> \A f \in filtered : f \cap s # {}
    <3>1. \A t \in sets : (t \cap allowed) \in filtered /\ t \cap s = (t \cap allowed) \cap s
      OBVIOUS
    <3>2. \A f \in filtered : \E t \in sets : f = t \cap allowed
      OBVIOUS
    <3> HIDE DEF filtered
    <3>3. ASSUME Hits(s, sets), NEW f \in filtered PROVE f \cap s # {}
      <4>1. PICK t \in sets : f = t \cap allowed
        BY <3>2
      <4>2. t \cap s # {}
        BY <3>3 DEF Hits
      <4> QED BY <3>1, <4>1, <4>2
    <3>4. ASSUME \A f \in filtered : f \cap s # {}, NEW t \in sets PROVE t \cap s # {}
      BY <3>1, <3>4
    <3> QED BY <3>3, <3>4 DEF Hits
  <2>2. (\A f \in filtered : f \cap s # {}) => {} \notin filtered /\ Unhit(reduced, s) = {}
    BY DEF Unhit
  <2>3. Unhit(reduced, s) = {} => \A f \in filtered : f \cap s # {}
    <3> SUFFICES ASSUME Unhit(reduced, s) = {}, NEW f \in filtered PROVE f \cap s # {}
      OBVIOUS
    <3>1. PICK r \in reduced : r \subseteq f
      BY <1>4
    <3>2. r \cap s # {}
      BY DEF Unhit
    <3> QED BY <3>1, <3>2
  <2> QED BY <2>1, <2>2, <2>3
<1> HIDE DEF filtered, reduced
<1>6. found \subseteq sufficient /\ found \in SUBSET SUBSET Mechanisms
  <2> SUFFICES ASSUME {} \notin filtered, NEW leaf \in Leaves(reduced, allowed)
               PROVE  leaf \in sufficient
    BY <1>3
  <2>1. PICK leaves : AreLeaves(leaves, reduced, allowed) /\ Leaves(reduced, allowed) = leaves[{}]
    BY <1>2, LeavesAreLeaves
  <2>2. {} \in ClosedSets(allowed)
    BY DEF ClosedSets
  <2>3. leaf \in ClosedSets(allowed) /\ Unhit(reduced, leaf) = {}
    BY <1>2, <2>1, <2>2, LeavesAreSound
  <2> QED BY <1>3, <1>5, <2>3
<1>7. ASSUME NEW s \in sufficient PROVE \E t \in found : t \subseteq s
  <2>1. s \in ClosedSets(allowed) /\ {} \notin filtered /\ Unhit(reduced, s) = {}
    BY <1>3, <1>5
  <2>2. PICK leaves : AreLeaves(leaves, reduced, allowed) /\ Leaves(reduced, allowed) = leaves[{}]
    BY <1>2, LeavesAreLeaves
  <2>3. \E leaf \in leaves[{}] : leaf \subseteq s
    BY <1>2, <2>1, <2>2, LeavesAreComplete
  <2> QED BY <2>1, <2>2, <2>3
<1> HIDE DEF found
<1>8. ASSUME NEW s \in found, \A t \in found \ {s} : Before(s, t), NEW t \in sufficient
      PROVE  weight(s) <= weight(t)
  <2>1. PICK u \in found : u \subseteq t
    BY <1>7
  <2>2. /\ s \in SUBSET Mechanisms /\ u \in SUBSET Mechanisms /\ t \in SUBSET Mechanisms
    BY <1>3, <1>6
  <2>3. weight(u) <= weight(t) /\ weight(u) \in Nat /\ weight(t) \in Nat /\ weight(s) \in Nat
    BY <2>1, <2>2, Weights
  <2>4. weight(s) <= weight(u)
    <3>1. CASE u = s
      BY <2>3, <3>1
    <3>2. CASE u # s
      BY <1>8, <2>2, <3>2, BeforeIsOrder
    <3> QED BY <3>1, <3>2
  <2> QED BY <2>3, <2>4
<1>9. found # {} => _minimum_weight_contract(sets, allowed) # {}
  BY <1>1, <1>6, FirstExists
<1> QED BY <1>1, <1>6, <1>7, <1>8, <1>9

(***************************************************************************)
(* The compiler.  The argument: a constraint is only ever added if every   *)
(* auditable contract satisfies it, so the selection, which the search     *)
(* makes a cheapest closed set that meets the constraints, is never dearer *)
(* than any of them.  If the search finds nothing, there is none; and the  *)
(* contract returned is auditable itself.                                  *)
(***************************************************************************)

\* No constraint excludes an auditable contract.
ConstraintsAreNecessary ==
    \A s \in SUBSET Eligible(modes) :
        Auditable(s) => s \in ClosedSets(Eligible(modes)) /\ Hits(s, constraints)

\* Every requirement of the query is among the constraints.
RequirementsAreConstraints ==
    phase = "check" => \A need \in catalogue.needs : Providers(need) \in constraints

\* The second attempt of "auto" is made because the first one was refused, or
\* gave up.
PassiveIsSettled ==
    request = "auto" /\ modes = All /\ ~cutOff =>
        \A s \in SUBSET Eligible(Passive) : ~Auditable(s)

CompilerInv ==
    /\ TypeOK
    /\ ConstraintsAreNecessary
    /\ RequirementsAreConstraints
    /\ SelectionIsLeast
    /\ PassiveIsSettled
    /\ phase # "done" => result = NoResult
    /\ result.status = "ACTIVE_AUDIT_REQUIRED" => request = "auto" /\ modes = All
    /\ LeastAuditable
    /\ RefusalsAreFinal

\* An auditable contract contains the dependencies of its members.
LEMMA AuditableIsClosed ==
    ASSUME NEW m, NEW s \in SUBSET Eligible(m), Auditable(s)
    PROVE  s \in ClosedSets(Eligible(m))
<1>1. ASSUME NEW k \in s, NEW d \in catalogue.requires[k], d \notin s
      PROVE  FALSE
  <2>1. d \in catalogue.requires[k] \ s
    BY <1>1
  <2>2. d \in Missing(s)
    BY <2>1 DEF Missing
  <2> QED BY <2>2 DEF Auditable, Assured
<1> QED BY <1>1 DEF ClosedSets

\* It contains a provider of each requirement.
LEMMA AuditableHasProviders ==
    ASSUME NEW s \in SUBSET Eligible(modes), Auditable(s), NEW need \in catalogue.needs
    PROVE  Providers(need) \cap s # {}
<1>1. PICK k \in s : need \in catalogue.provides[k]
  BY DEF Auditable, Assured, Unmet
<1> QED BY <1>1 DEF Providers

\* And it tells any two worlds apart that the query answers differently.
LEMMA AuditableSeparates ==
    ASSUME NEW s \in SUBSET Eligible(modes), Auditable(s),
           NEW a \in Worlds, NEW b \in Worlds, NEW contract, IsTwin(contract, a, b)
    PROVE  Separators(Eligible(modes), a, b) \cap s # {}
<1>1. ~SameObservation(s, a, b)
  BY DEF Auditable, Determinate, IsTwin
<1>2. PICK k \in s : catalogue.observe[k][a] # catalogue.observe[k][b]
  BY <1>1 DEF SameObservation
<1> QED BY <1>2 DEF Separators

\* The selection has every assurance: it meets the requirements, which are
\* constraints, and is closed.
LEMMA SelectionIsAssured ==
    ASSUME CompilerInv, phase = "check"
    PROVE  Assured(selected)
<1>1. ASSUME NEW need \in catalogue.needs
      PROVE  need \in UNION {catalogue.provides[k] : k \in selected}
  <2>1. Providers(need) \cap selected # {}
    BY DEF CompilerInv, RequirementsAreConstraints, SelectionIsLeast, Hits
  <2> QED BY <2>1 DEF Providers
<1>2. \A k \in selected : catalogue.requires[k] \subseteq selected
  BY DEF CompilerInv, SelectionIsLeast, ClosedSets
<1>3. Unmet(selected) = {}
  BY <1>1 DEF Unmet
<1>4. Missing(selected) = {}
  BY <1>2 DEF Missing
<1> QED BY <1>3, <1>4 DEF Assured

LEMMA CompilerStarts == Init => CompilerInv
<1> SUFFICES ASSUME Init PROVE CompilerInv
  OBVIOUS
<1>1. result = NoResult /\ ~Succeeded /\ phase = "start"
  BY DEF Init, NoResult, Succeeded
<1>2. ConstraintsAreNecessary
  BY AuditableIsClosed DEF Init, ConstraintsAreNecessary, Hits
<1>3. TypeOK
  <2>1. /\ catalogue \in Catalogue /\ 0 \in 0..MaxIterations
        /\ modes \in {Passive, All} /\ request \in {"passive", "all", "auto"}
    BY CataloguesAssumption, IterationsAssumption DEF Init
  <2> QED BY <2>1 DEF Init, TypeOK, NoResult
<1>4. PassiveIsSettled
  <2>1. request = "auto" => modes = Passive
    BY DEF Init
  <2> QED BY <2>1 DEF PassiveIsSettled, Passive, All
<1> QED BY <1>1, <1>2, <1>3, <1>4
        DEF CompilerInv, LeastAuditable, RequirementsAreConstraints, SelectionIsLeast, NoResult,
            RefusalsAreFinal

\* What a step leaves of the definitions when the catalogue stays.
LEMMA Rigid ==
    ASSUME catalogue' = catalogue
    PROVE  /\ \A m : Eligible(m)' = Eligible(m)
           /\ \A s : Auditable(s)' = Auditable(s)
           /\ \A s : ClosedSets(s)' = ClosedSets(s)
           /\ \A s : weight(s)' = weight(s)
           /\ \A s, t : Hits(s, t)' = Hits(s, t)
  BY DEF Eligible, Auditable, Assured, Unmet, Missing, Determinate, IsTwin, SameObservation,
         ClosedSets, weight, Hits

\* The answers that an attempt may come to.
Proper(status, contract, certificates) ==
    /\ status \in {"BLOCKED", "INCONCLUSIVE", "AUDITABLE", "PASSIVE_AUDITABLE"}
    /\ contract \subseteq Eligible(modes)
    /\ \A c \in certificates :
           /\ c.world_a \in Worlds /\ c.world_b \in Worlds
           /\ c.separating_candidates \subseteq Eligible(modes)
    /\ status \in {"AUDITABLE", "PASSIVE_AUDITABLE"} =>
           /\ Auditable(contract)
           /\ \A s \in SUBSET Eligible(modes) : Auditable(s) => weight(contract) <= weight(s)
    /\ status = "AUDITABLE" => modes = All
    /\ status = "BLOCKED" => \A s \in SUBSET Eligible(modes) : ~Auditable(s)

\* A proper answer ends the call, or the passive attempt of "auto", after which
\* everything starts again without constraints.
LEMMA ReturnStep ==
    ASSUME CompilerInv, phase # "done", UNCHANGED <<catalogue, request>>,
           NEW status, NEW contract, NEW certificates,
           Proper(status, contract, certificates), Return(status, contract, certificates)
    PROVE  CompilerInv'
<1>1. CASE request = "auto" /\ modes = Passive /\ status # "PASSIVE_AUDITABLE"
  <2>1. /\ modes' = All /\ phase' = "start" /\ constraints' = {} /\ selected' = {}
        /\ iteration' = 0 /\ cutOff' = (status = "INCONCLUSIVE") /\ result' = NoResult
    BY <1>1 DEF Return, CompilerInv
  <2>2. ASSUME NEW s \in SUBSET Eligible(All), Auditable(s)
        PROVE  s \in ClosedSets(Eligible(All))
    BY <2>2, AuditableIsClosed
  <2>3. Eligible(modes)' = Eligible(All)
    BY <2>1 DEF Eligible
  <2>4. ConstraintsAreNecessary'
    BY <2>1, <2>2, <2>3, Rigid DEF ConstraintsAreNecessary, Hits, ClosedSets
  <2>5. TypeOK'
    <3>1. catalogue' \in Catalogue /\ request' \in {"passive", "all", "auto"}
      BY DEF CompilerInv, TypeOK
    <3> QED BY <2>1, <3>1, IterationsAssumption DEF TypeOK, NoResult
  <2>6. PassiveIsSettled'
    <3> SUFFICES ASSUME ~cutOff' PROVE \A s \in SUBSET Eligible(Passive)' : ~Auditable(s)'
      BY DEF PassiveIsSettled
    <3>1. status # "INCONCLUSIVE" /\ modes # All
      <4>1. modes # All
        BY <1>1 DEF Passive, All
      <4> QED BY <2>1, <4>1, Zenon
    <3>2. status = "BLOCKED"
      BY <1>1, <3>1 DEF Proper
    <3>3. \A s \in SUBSET Eligible(Passive) : ~Auditable(s)
      BY <1>1, <3>2 DEF Proper
    <3> QED BY <3>3, Rigid
  <2> QED BY <2>1, <2>4, <2>5, <2>6
          DEF CompilerInv, LeastAuditable, Succeeded, RequirementsAreConstraints, SelectionIsLeast,
              RefusalsAreFinal, NoResult
<1>2. CASE ~(request = "auto" /\ modes = Passive /\ status # "PASSIVE_AUDITABLE")
  <2> DEFINE answered == IF request = "auto" /\ status = "AUDITABLE"
                         THEN "ACTIVE_AUDIT_REQUIRED" ELSE status
  <2>1. /\ phase' = "done"
        /\ UNCHANGED <<modes, constraints, selected, iteration, cutOff>>
        /\ result'.status = answered /\ result'.contract = contract
        /\ result'.certificates = certificates
    BY <1>2 DEF Return
  <2>2. Eligible(modes)' = Eligible(modes) /\ Eligible(Passive)' = Eligible(Passive)
    BY <2>1 DEF Eligible
  <2>3. ConstraintsAreNecessary'
    BY <2>1, <2>2, Rigid DEF ConstraintsAreNecessary, Hits, ClosedSets, CompilerInv
  <2>4. TypeOK'
    BY <2>1, <2>2 DEF TypeOK, CompilerInv, Proper
  <2>5. PassiveIsSettled'
    BY <2>1, <2>2, Rigid DEF PassiveIsSettled, CompilerInv
  <2>6. /\ Succeeded' => status \in {"AUDITABLE", "PASSIVE_AUDITABLE"}
        /\ result'.status = "BLOCKED" => status = "BLOCKED"
        /\ result'.status = "ACTIVE_AUDIT_REQUIRED" => request = "auto" /\ status = "AUDITABLE"
    BY <2>1 DEF Succeeded, Proper
  <2>7. LeastAuditable'
    <3> SUFFICES ASSUME Succeeded'
                 PROVE  /\ Auditable(result.contract)'
                        /\ \A s \in SUBSET Eligible(modes)' :
                               Auditable(s)' => weight(result.contract)' <= weight(s)'
      BY DEF LeastAuditable
    <3>1. /\ Auditable(contract)
          /\ \A s \in SUBSET Eligible(modes) : Auditable(s) => weight(contract) <= weight(s)
      BY <2>6 DEF Proper
    <3>2. Auditable(contract)' /\ weight(contract)' = weight(contract)
      BY <3>1, Rigid
    <3>3. Auditable(result.contract)' /\ weight(result.contract)' = weight(contract)
      BY <2>1, <3>2 DEF Auditable, Assured, Unmet, Missing, Determinate, IsTwin,
                        SameObservation, weight
    <3> QED BY <2>2, <3>1, <3>3, Rigid
  <2>8. RefusalsAreFinal'
    BY <2>2, <2>6, Rigid DEF RefusalsAreFinal, Proper
  <2>9. result'.status = "ACTIVE_AUDIT_REQUIRED" => request' = "auto" /\ modes' = All
    BY <2>1, <2>6 DEF Proper
  <2> QED BY <2>1, <2>3, <2>4, <2>5, <2>7, <2>8, <2>9
          DEF CompilerInv, RequirementsAreConstraints, SelectionIsLeast
<1> QED BY <1>1, <1>2

\* The loop goes on with what the search has found for necessary constraints.
LEMMA SelectStep ==
    ASSUME CompilerInv, phase # "done", UNCHANGED <<catalogue, request, modes, cutOff, result>>,
           phase' = "check", iteration' \in 0..MaxIterations,
           constraints' \subseteq SUBSET Eligible(modes),
           \A s \in SUBSET Eligible(modes) : Auditable(s) => Hits(s, constraints'),
           \A need \in catalogue.needs : Providers(need) \in constraints',
           selected' \in _minimum_weight_contract(constraints', Eligible(modes))
    PROVE  CompilerInv'
<1>1. Eligible(modes)' = Eligible(modes) /\ Eligible(Passive)' = Eligible(Passive)
  BY DEF Eligible
<1>2. catalogue \in Catalogue /\ Eligible(modes) \in SUBSET Mechanisms
  BY CatalogueFacts DEF CompilerInv, TypeOK
<1>3. /\ selected' \in ClosedSets(Eligible(modes)) /\ Hits(selected', constraints')
      /\ \A s \in ClosedSets(Eligible(modes)) :
             Hits(s, constraints') => weight(selected') <= weight(s)
  <2> DEFINE sufficient == {s \in ClosedSets(Eligible(modes)) : Hits(s, constraints')}
  <2>1. constraints' \in SUBSET SUBSET Mechanisms
    BY <1>2
  <2>2. selected' \in sufficient /\ \A t \in sufficient : weight(selected') <= weight(t)
    BY <1>2, <2>1, SearchIsExact
  <2> QED BY <2>2
<1>4. SelectionIsLeast'
  <2>1. ClosedSets(Eligible(modes))' = ClosedSets(Eligible(modes))
    BY <1>1 DEF ClosedSets
  <2>2. weight(selected)' = weight(selected') /\ \A s : weight(s)' = weight(s)
    BY DEF weight
  <2>3. Hits(selected, constraints)' /\ \A s : Hits(s, constraints)' <=> Hits(s, constraints')
    BY <1>3 DEF Hits
  <2> QED BY <1>3, <2>1, <2>2, <2>3 DEF SelectionIsLeast
<1>5. ConstraintsAreNecessary'
  <2>1. \A s \in SUBSET Eligible(modes) : Auditable(s) => s \in ClosedSets(Eligible(modes))
    BY DEF CompilerInv, ConstraintsAreNecessary
  <2> QED BY <1>1, <2>1, Rigid DEF ConstraintsAreNecessary, Hits, ClosedSets
<1>6. TypeOK'
  BY <1>1, <1>3 DEF TypeOK, CompilerInv, ClosedSets
<1>7. PassiveIsSettled'
  BY <1>1, Rigid DEF PassiveIsSettled, CompilerInv
<1>8. RequirementsAreConstraints'
  BY <1>1 DEF RequirementsAreConstraints, Providers
<1>9. result' = NoResult
  BY DEF CompilerInv
<1> QED BY <1>4, <1>5, <1>6, <1>7, <1>8, <1>9
        DEF CompilerInv, LeastAuditable, Succeeded, RefusalsAreFinal, NoResult

\* If it finds nothing, no set of the eligible mechanisms would do.
LEMMA NothingFits ==
    ASSUME CompilerInv, NEW sets \in SUBSET SUBSET Eligible(modes),
           \A s \in SUBSET Eligible(modes) : Auditable(s) => Hits(s, sets),
           _minimum_weight_contract(sets, Eligible(modes)) = {}
    PROVE  Proper("BLOCKED", {}, {})
<1>1. catalogue \in Catalogue /\ Eligible(modes) \in SUBSET Mechanisms
  BY CatalogueFacts DEF CompilerInv, TypeOK
<1>2. sets \in SUBSET SUBSET Mechanisms
  BY <1>1
<1>3. {s \in ClosedSets(Eligible(modes)) : Hits(s, sets)} = {}
  BY <1>1, <1>2, SearchIsExact
<1>4. \A s \in SUBSET Eligible(modes) : ~Auditable(s)
  BY <1>3 DEF CompilerInv, ConstraintsAreNecessary
<1> QED BY <1>4 DEF Proper

LEMMA BeginStep == CompilerInv /\ Begin => CompilerInv'
<1> SUFFICES ASSUME CompilerInv, Begin PROVE CompilerInv'
  OBVIOUS
<1>1. phase = "start" /\ UNCHANGED <<catalogue, request>>
  BY DEF Begin
<1>2. CASE \E need \in catalogue.needs : Providers(need) = {}
  <2>1. Return("BLOCKED", {}, {})
    BY <1>2 DEF Begin
  <2>2. Proper("BLOCKED", {}, {})
    BY <1>2, AuditableHasProviders DEF Proper
  <2> QED BY <1>1, <2>1, <2>2, ReturnStep
<1>3. CASE ~\E need \in catalogue.needs : Providers(need) = {}
  <2> DEFINE sets == {Providers(need) : need \in catalogue.needs}
  <2>1. Select(sets)
    BY <1>3 DEF Begin
  <2>2. sets \in SUBSET SUBSET Eligible(modes) /\ \A need \in catalogue.needs : Providers(need) \in sets
    BY DEF Providers
  <2>3. \A s \in SUBSET Eligible(modes) : Auditable(s) => Hits(s, sets)
    BY AuditableHasProviders DEF Hits
  <2> HIDE DEF sets
  <2>4. CASE _minimum_weight_contract(sets, Eligible(modes)) = {}
    <3>1. Return("BLOCKED", {}, {})
      BY <2>1, <2>4 DEF Select
    <3> QED BY <1>1, <2>2, <2>3, <2>4, <3>1, NothingFits, ReturnStep
  <2>5. CASE _minimum_weight_contract(sets, Eligible(modes)) # {}
    <3>1. /\ constraints' = sets /\ phase' = "check"
          /\ selected' \in _minimum_weight_contract(sets, Eligible(modes))
          /\ UNCHANGED <<modes, iteration, cutOff, result>>
      BY <2>1, <2>5 DEF Select
    <3>2. iteration' \in 0..MaxIterations
      BY <3>1 DEF CompilerInv, TypeOK
    <3> QED BY <1>1, <2>2, <2>3, <3>1, <3>2, SelectStep
  <2> QED BY <2>4, <2>5
<1> QED BY <1>2, <1>3

\* The first pair of worlds that a contract confuses is over worlds.
LEMMA CertificatesAreTyped ==
    ASSUME NEW contract, NEW m, NEW c \in CertificatesOf(contract, m)
    PROVE  /\ c.world_a \in Worlds /\ c.world_b \in Worlds
           /\ c.separating_candidates \subseteq Eligible(m)
<1>1. PICK p \in Worlds \X Worlds : c = Certificate(contract, m, p[1], p[2])
  BY DEF CertificatesOf
<1> QED BY <1>1 DEF Certificate, Separators

LEMMA ConcludeStep == CompilerInv /\ Conclude => CompilerInv'
<1> SUFFICES ASSUME CompilerInv, Conclude PROVE CompilerInv'
  OBVIOUS
<1>1. phase = "check" /\ UNCHANGED <<catalogue, request>> /\ Determinate(selected)
  BY DEF Conclude
<1>2. Assured(selected)
  BY <1>1, SelectionIsAssured
<1>3. Auditable(selected)
  BY <1>1, <1>2 DEF Auditable
<1>4. \A s \in SUBSET Eligible(modes) : Auditable(s) => weight(selected) <= weight(s)
  BY <1>1 DEF CompilerInv, SelectionIsLeast, ConstraintsAreNecessary
<1> DEFINE status == IF \E k \in selected : catalogue.mode[k] = "active"
                     THEN "AUDITABLE" ELSE "PASSIVE_AUDITABLE"
           certificates == UNION {CertificatesOf(selected \ {k}, modes) : k \in selected}
<1>5. Return(status, selected, certificates)
  BY <1>2 DEF Conclude
<1>6. selected \subseteq Eligible(modes) /\ modes \in {Passive, All}
  BY DEF CompilerInv, TypeOK
<1>7. status = "AUDITABLE" => modes = All
  BY <1>6 DEF Eligible, Passive
<1>8. \A c \in certificates : /\ c.world_a \in Worlds /\ c.world_b \in Worlds
                              /\ c.separating_candidates \subseteq Eligible(modes)
  BY CertificatesAreTyped
<1>9. status \in {"AUDITABLE", "PASSIVE_AUDITABLE"}
  OBVIOUS
<1> HIDE DEF status, certificates
<1>10. Proper(status, selected, certificates)
  BY <1>3, <1>4, <1>6, <1>7, <1>8, <1>9 DEF Proper
<1> QED BY <1>1, <1>5, <1>10, ReturnStep

LEMMA SeparateStep ==
    ASSUME CompilerInv, NEW a \in Worlds, NEW b \in Worlds, Separate(a, b)
    PROVE  CompilerInv'
<1> DEFINE sets == constraints \cup {Separators(Eligible(modes), a, b)}
<1>1. /\ phase = "check" /\ iteration < MaxIterations /\ UNCHANGED <<catalogue, request>>
      /\ IsTwin(selected, a, b)
  BY DEF Separate, FirstTwin
<1>2. sets \in SUBSET SUBSET Eligible(modes) /\ \A need \in catalogue.needs : Providers(need) \in sets
  BY <1>1 DEF CompilerInv, TypeOK, Separators, RequirementsAreConstraints
<1>3. \A s \in SUBSET Eligible(modes) : Auditable(s) => Hits(s, sets)
  BY <1>1, AuditableSeparates DEF CompilerInv, ConstraintsAreNecessary, Hits
<1>4. IF _minimum_weight_contract(sets, Eligible(modes)) = {}
      THEN Return("BLOCKED", {}, {})
      ELSE /\ constraints' = sets
           /\ selected' \in _minimum_weight_contract(sets, Eligible(modes))
           /\ iteration' = iteration + 1
           /\ UNCHANGED <<modes, phase, cutOff, result>>
  BY DEF Separate
<1> HIDE DEF sets
<1>5. CASE _minimum_weight_contract(sets, Eligible(modes)) = {}
  BY <1>1, <1>2, <1>3, <1>4, <1>5, NothingFits, ReturnStep
<1>6. CASE _minimum_weight_contract(sets, Eligible(modes)) # {}
  <2>1. iteration' \in 0..MaxIterations
    BY <1>1, <1>4, <1>6, IterationsAssumption DEF CompilerInv, TypeOK
  <2> QED BY <1>1, <1>2, <1>3, <1>4, <1>6, <2>1, SelectStep
<1> QED BY <1>5, <1>6

LEMMA InseparableStep ==
    ASSUME CompilerInv, NEW a \in Worlds, NEW b \in Worlds, Inseparable(a, b)
    PROVE  CompilerInv'
<1> DEFINE certificate_ == Certificate(selected, modes, a, b)
<1>1. /\ phase = "check" /\ UNCHANGED <<catalogue, request>> /\ IsTwin(selected, a, b)
      /\ Separators(Eligible(modes), a, b) = {}
      /\ Return("BLOCKED", selected, {certificate_})
  BY DEF Inseparable, FirstTwin
<1>2. \A s \in SUBSET Eligible(modes) : ~Auditable(s)
  BY <1>1, AuditableSeparates
<1>3. selected \subseteq Eligible(modes)
  BY DEF CompilerInv, TypeOK
<1>4. /\ certificate_.world_a = a /\ certificate_.world_b = b
      /\ certificate_.separating_candidates = {}
  BY <1>1 DEF Certificate
<1> HIDE DEF certificate_
<1>5. Proper("BLOCKED", selected, {certificate_})
  BY <1>2, <1>3, <1>4 DEF Proper
<1> QED BY <1>1, <1>5, ReturnStep

LEMMA LimitStep == CompilerInv /\ LimitReached => CompilerInv'
<1> SUFFICES ASSUME CompilerInv, LimitReached PROVE CompilerInv'
  OBVIOUS
<1>1. /\ phase = "check" /\ UNCHANGED <<catalogue, request>>
      /\ Return("INCONCLUSIVE", selected, {})
  BY DEF LimitReached
<1>2. Proper("INCONCLUSIVE", selected, {})
  BY DEF Proper, CompilerInv, TypeOK
<1> QED BY <1>1, <1>2, ReturnStep

LEMMA CompilerStutters == CompilerInv /\ UNCHANGED vars => CompilerInv'
<1> SUFFICES ASSUME CompilerInv, UNCHANGED vars PROVE CompilerInv'
  OBVIOUS
<1>1. UNCHANGED <<catalogue, request, modes, phase, constraints, selected, iteration, cutOff, result>>
  BY DEF vars
<1>2. Eligible(modes)' = Eligible(modes) /\ Eligible(Passive)' = Eligible(Passive)
  BY <1>1 DEF Eligible
<1>3. ConstraintsAreNecessary'
  BY <1>1, <1>2, Rigid DEF ConstraintsAreNecessary, Hits, ClosedSets, CompilerInv
<1>4. SelectionIsLeast'
  BY <1>1, <1>2 DEF SelectionIsLeast, CompilerInv, Hits, ClosedSets, weight
<1>5. LeastAuditable'
  <2>1. /\ Auditable(result.contract)' = Auditable(result.contract)
        /\ weight(result.contract)' = weight(result.contract) /\ Succeeded' = Succeeded
    BY <1>1 DEF Auditable, Assured, Unmet, Missing, Determinate, IsTwin, SameObservation,
                weight, Succeeded
  <2> QED BY <1>1, <1>2, <2>1, Rigid DEF LeastAuditable, CompilerInv
<1>6. TypeOK' /\ PassiveIsSettled' /\ RequirementsAreConstraints' /\ RefusalsAreFinal'
  BY <1>1, <1>2, Rigid DEF TypeOK, PassiveIsSettled, RequirementsAreConstraints,
                           RefusalsAreFinal, Providers, CompilerInv
<1> QED BY <1>1, <1>3, <1>4, <1>5, <1>6 DEF CompilerInv

LEMMA CompilerStep == CompilerInv /\ [Next]_vars => CompilerInv'
BY BeginStep, ConcludeStep, SeparateStep, InseparableStep, LimitStep, CompilerStutters DEF Next, Done

LEMMA CompilerInvariant == Spec => []CompilerInv
BY CompilerStarts, CompilerStep, PTL DEF Spec

\* Every choice of the loop and every answer is over the eligible mechanisms and
\* the worlds of the catalogue (compiler.py:126-250).
THEOREM CompilerTypeCorrect == Spec => []TypeOK
<1>1. CompilerInv => TypeOK
  BY DEF CompilerInv
<1> QED BY <1>1, CompilerInvariant, PTL

\* Whatever the catalogue and the number of mechanisms, the branching search
\* chooses a cheapest dependency-closed set that meets the constraints
\* (_minimum_weight_contract, compiler.py:299-374).
THEOREM SelectionsAreLeast == Spec => []SelectionIsLeast
<1>1. CompilerInv => SelectionIsLeast
  BY DEF CompilerInv
<1> QED BY <1>1, CompilerInvariant, PTL

\* The counterexample loop returns a cheapest auditable contract, although it
\* looks at a few pairs of worlds only (synthesize, compiler.py:126-250).
THEOREM CheapestContract == Spec => []LeastAuditable
<1>1. CompilerInv => LeastAuditable
  BY DEF CompilerInv
<1> QED BY <1>1, CompilerInvariant, PTL

\* BLOCKED is said only when no set of the eligible mechanisms is auditable, for
\* whichever of its reasons (compiler.py:145-161, 180-248).
THEOREM RefusalsAreJust == Spec => []RefusalsAreFinal
<1>1. CompilerInv => RefusalsAreFinal
  BY DEF CompilerInv
<1> QED BY <1>1, CompilerInvariant, PTL

\* An active contract is asked for only if no passive one would do, unless the
\* passive attempt was given up (compiler.py:252-297).
THEOREM ActiveIsNeeded == Spec => []ActiveOnlyWhenNeeded
<1>1. CompilerInv => ActiveOnlyWhenNeeded
  BY DEF CompilerInv, ActiveOnlyWhenNeeded, PassiveIsSettled
<1> QED BY <1>1, CompilerInvariant, PTL

(***************************************************************************)
(* The lifecycle of a claim and the pipeline that drives it.               *)
(***************************************************************************)

LifecycleInv == LifecycleTypeOK /\ NoGateSkipped

\* An edge leads past at most one new gate, the one it enters.
LEMMA EdgesAddOneGate ==
    ASSUME NEW e \in ALLOWED_EDGES
    PROVE  /\ GatesBehind(e[1]) \in 0..12 /\ GatesBehind(e[2]) \in 0..12
           /\ \/ GatesBehind(e[2]) <= GatesBehind(e[1])
              \/ /\ GatesBehind(e[2]) = GatesBehind(e[1]) + 1
                 /\ Gates[GatesBehind(e[2])] = e[2]
<1>1. /\ GatesBehind("DECLARED") = 0 /\ GatesBehind("SCOPED") = 1
      /\ GatesBehind("MODEL_VALIDATED") = 2 /\ GatesBehind("SYNTHESIZED") = 3
      /\ GatesBehind("INTERVENTION_REQUIRED") = 3 /\ GatesBehind("INTERVENTION_PLANNED") = 3
  BY DEF GatesBehind
<1>2. /\ GatesBehind("PLANNED") = 4 /\ GatesBehind("CERTIFIED") = 5
      /\ GatesBehind("INSTALLED") = 6 /\ GatesBehind("PREFLIGHT_PASSED") = 7
      /\ GatesBehind("CAPTURING") = 8 /\ GatesBehind("INTERVENTION_EXECUTED") = 8
  BY DEF GatesBehind
<1>3. /\ GatesBehind("RUN_CLOSED") = 9 /\ GatesBehind("VERIFIED_AT_CAPTURE") = 10
      /\ GatesBehind("ARCHIVED") = 11 /\ GatesBehind("REVERIFIED_AT_AUDIT_TIME") = 12
  BY DEF GatesBehind
<1>4. /\ Gates[1] = "SCOPED" /\ Gates[2] = "MODEL_VALIDATED" /\ Gates[3] = "SYNTHESIZED"
      /\ Gates[4] = "PLANNED" /\ Gates[5] = "CERTIFIED" /\ Gates[6] = "INSTALLED"
      /\ Gates[7] = "PREFLIGHT_PASSED" /\ Gates[8] = "CAPTURING" /\ Gates[9] = "RUN_CLOSED"
      /\ Gates[10] = "VERIFIED_AT_CAPTURE" /\ Gates[11] = "ARCHIVED"
      /\ Gates[12] = "REVERIFIED_AT_AUDIT_TIME"
  BY DEF Gates
<1>5. CASE e \in PASSIVE_EDGES
  BY <1>1, <1>2, <1>3, <1>4, <1>5 DEF PASSIVE_EDGES
<1>6. CASE e \in CAUSAL_EDGES
  BY <1>1, <1>2, <1>3, <1>4, <1>6 DEF CAUSAL_EDGES
<1> QED BY <1>5, <1>6 DEF ALLOWED_EDGES

LEMMA EdgesJoinStates ==
    ASSUME NEW s, NEW t, <<s, t>> \in ALLOWED_EDGES
    PROVE  s \in LifecycleStates /\ t \in LifecycleStates
BY DEF LifecycleStates

\* An attempt, whatever its target and outcome, keeps the invariant.
LEMMA AttemptsSkipNoGate ==
    ASSUME LifecycleInv, NEW target, NEW outcome \in Outcomes, attempt(target, outcome)
    PROVE  LifecycleInv'
<1> DEFINE record == [from_state |-> state, attempted |-> target, resulting |-> state',
                      outcome |-> outcome]
<1>1. target \in LifecycleStates /\ state' \in LifecycleStates
  BY EdgesJoinStates DEF attempt
<1>2. record \in Transition
  BY <1>1 DEF LifecycleInv, LifecycleTypeOK, Transition
<1>3. transitions' = Append(transitions, record) /\ transitions \in Seq(Transition)
  BY DEF attempt, LifecycleInv, LifecycleTypeOK
<1>4. LifecycleTypeOK'
  BY <1>1, <1>2, <1>3 DEF LifecycleTypeOK
<1>5. /\ Len(transitions') = Len(transitions) + 1
      /\ \A i \in 1..Len(transitions) : transitions'[i] = transitions[i]
      /\ transitions'[Len(transitions) + 1] = record
  <2> HIDE DEF record
  <2> QED BY <1>2, <1>3
<1>6. ASSUME NEW gate, Passed(gate) PROVE Passed(gate)'
  <2>1. PICK i \in DOMAIN transitions :
            transitions[i].attempted = gate /\ transitions[i].outcome = "PASS"
    BY <1>6 DEF Passed
  <2>2. i \in 1..Len(transitions) /\ i \in DOMAIN transitions'
    BY <1>3, <1>4, <1>5, <2>1 DEF LifecycleTypeOK
  <2> QED BY <1>5, <2>1, <2>2 DEF Passed
<1>7. CASE outcome = "PASS"
  <2>1. state' = target
    BY <1>7 DEF attempt
  <2>2. Passed(target)'
    <3>1. Len(transitions) + 1 \in DOMAIN transitions'
      BY <1>3, <1>4, <1>5 DEF LifecycleTypeOK
    <3>2. record.attempted = target /\ record.outcome = "PASS"
      BY <1>7
    <3> QED BY <1>5, <3>1, <3>2 DEF Passed
  <2>3. <<state, target>> \in ALLOWED_EDGES
    BY DEF attempt
  <2>4. /\ GatesBehind(state) \in 0..12 /\ GatesBehind(target) \in 0..12
        /\ \/ GatesBehind(target) <= GatesBehind(state)
           \/ /\ GatesBehind(target) = GatesBehind(state) + 1
              /\ Gates[GatesBehind(target)] = target
    BY <2>3, EdgesAddOneGate
  <2>5. ASSUME NEW n \in 1..GatesBehind(target) PROVE Passed(Gates[n])'
    <3>1. CASE n <= GatesBehind(state)
      BY <1>6, <2>4, <3>1 DEF LifecycleInv, NoGateSkipped
    <3>2. CASE n > GatesBehind(state)
      BY <2>2, <2>4, <3>2
    <3> QED BY <2>4, <3>1, <3>2
  <2>6. NoGateSkipped'
    BY <2>1, <2>5 DEF NoGateSkipped, Gates
  <2> QED BY <1>4, <2>6 DEF LifecycleInv
<1>8. CASE outcome # "PASS"
  <2>1. state' = state
    BY <1>8 DEF attempt
  <2>2. NoGateSkipped'
    BY <1>6, <2>1 DEF NoGateSkipped, LifecycleInv, Gates
  <2> QED BY <1>4, <2>2 DEF LifecycleInv
<1> QED BY <1>7, <1>8

LEMMA LifecycleStarts == LifecycleInit => LifecycleInv
<1> SUFFICES ASSUME LifecycleInit PROVE LifecycleInv
  OBVIOUS
<1>1. "DECLARED" \in LifecycleStates
  BY <<"DECLARED", "SCOPED">> \in ALLOWED_EDGES, EdgesJoinStates
     DEF ALLOWED_EDGES, PASSIVE_EDGES
<1>2. LifecycleTypeOK
  BY <1>1 DEF LifecycleInit, LifecycleTypeOK
<1>3. NoGateSkipped
  BY DEF NoGateSkipped, LifecycleInit, GatesBehind
<1> QED BY <1>2, <1>3 DEF LifecycleInv

LEMMA LifecycleStutters == LifecycleInv /\ UNCHANGED lifecycleVars => LifecycleInv'
BY DEF LifecycleInv, lifecycleVars, LifecycleTypeOK, NoGateSkipped, Passed

\* The lifecycle by itself, whoever makes the attempts and in whatever order:
\* a state is reached only with a passing record for every gate behind it
\* (core/state_machine.py:99-124).
THEOREM LifecycleSkipsNoGate == LifecycleSpec => []NoGateSkipped
<1>1. LifecycleInit => LifecycleInv
  BY LifecycleStarts
<1>2. LifecycleInv /\ [LifecycleNext]_lifecycleVars => LifecycleInv'
  BY AttemptsSkipNoGate, LifecycleStutters DEF LifecycleNext
<1>3. LifecycleInv => NoGateSkipped
  BY DEF LifecycleInv
<1> QED BY <1>1, <1>2, <1>3, PTL DEF LifecycleSpec

\* A step of either front end is an attempt or leaves the lifecycle alone.
LEMMA StepsAreAttempts ==
    ASSUME [FrontEndsNext]_<<vars, designVars>>
    PROVE  \/ UNCHANGED lifecycleVars
           \/ \E target : \E outcome \in Outcomes : attempt(target, outcome)
<1>1. "PASS" \in Outcomes /\ "TYPED_FAIL" \in Outcomes /\ "LIMIT_REACHED" \in Outcomes
  BY DEF Outcomes
<1>2. CASE UNCHANGED designVars
  BY <1>2 DEF designVars, lifecycleVars
<1>3. ASSUME NEW set, Crosswalk(set) PROVE UNCHANGED lifecycleVars
  BY <1>3 DEF Crosswalk, Raise, lifecycleVars
<1>4. ASSUME NEW claim, Scope(claim)
      PROVE  \E target : \E outcome \in Outcomes : attempt(target, outcome)
  BY <1>1, <1>4 DEF Scope, Fail
<1>5. ASSUME NEW mode, Model(mode)
      PROVE  \/ UNCHANGED lifecycleVars
             \/ \E target : \E outcome \in Outcomes : attempt(target, outcome)
  BY <1>1, <1>5 DEF Model, Fail, Raise, lifecycleVars
<1>6. ASSUME NEW limit, SetBudget(limit) PROVE UNCHANGED lifecycleVars
  BY <1>6 DEF SetBudget, Raise, lifecycleVars
<1>7. ASSUME NEW s, Examine(s)
      PROVE  \/ UNCHANGED lifecycleVars
             \/ \E target : \E outcome \in Outcomes : attempt(target, outcome)
  BY <1>1, <1>7 DEF Examine, Fail, lifecycleVars
<1>8. ASSUME Synthesized
      PROVE  \E target : \E outcome \in Outcomes : attempt(target, outcome)
  BY <1>1, <1>8 DEF Synthesized, Fail
<1>9. ASSUME NEW missing, Plan(missing)
      PROVE  \E target : \E outcome \in Outcomes : attempt(target, outcome)
  BY <1>1, <1>9 DEF Plan, Fail
<1> QED BY <1>2, <1>3, <1>4, <1>5, <1>6, <1>7, <1>8, <1>9
        DEF FrontEndsNext, DesignNext, designVars

\* The pipeline, composed with the compiler, drives the lifecycle along its
\* edges: it inherits the guarantee (core/pipeline.py:128-249).
THEOREM PipelineSkipsNoGate == FrontEndsSpec => []NoGateSkipped
<1>1. FrontEndsInit => LifecycleInv
  BY LifecycleStarts DEF FrontEndsInit, DesignInit
<1>2. LifecycleInv /\ [FrontEndsNext]_<<vars, designVars>> => LifecycleInv'
  BY StepsAreAttempts, AttemptsSkipNoGate, LifecycleStutters
<1>3. LifecycleInv => NoGateSkipped
  BY DEF LifecycleInv
<1> QED BY <1>1, <1>2, <1>3, PTL DEF FrontEndsSpec

(***************************************************************************)
(* The search                                                              *)
(***************************************************************************)

BeforeSearch == {"start", "scope", "model", "budget"}

\* What has been examined is part of the enumeration, nothing is chosen and no
\* gap is reported while the search goes on.
SearchInv ==
    /\ examined \subseteq ClosedSets(candidates)
    /\ step \in BeforeSearch => examined = {}
    /\ step \in BeforeSearch \cup {"search"} => chosen = {} /\ verdict = "none"
    /\ SearchIsExhaustive

LEMMA CatalogueRigid ==
    ASSUME catalogue' = catalogue
    PROVE  /\ \A s : Determinate(s)' = Determinate(s)
           /\ \A s : ClosedSets(s)' = ClosedSets(s)
           /\ \A s, t : Preferred(s, t)' = Preferred(s, t)
BY DEF Determinate, IsTwin, SameObservation, ClosedSets, Preferred, weight, EnumeratedBefore

LEMMA CompilerKeepsCatalogue == [Next]_vars => catalogue' = catalogue
BY DEF Next, vars, Begin, Conclude, Separate, Inseparable, LimitReached, Done

LEMMA SearchStarts == DesignInit => SearchInv
BY DEF DesignInit, SearchInv, SearchIsExhaustive, BeforeSearch

LEMMA SearchStep == SearchInv /\ [FrontEndsNext]_<<vars, designVars>> => SearchInv'
<1> SUFFICES ASSUME SearchInv, [FrontEndsNext]_<<vars, designVars>> PROVE SearchInv'
  OBVIOUS
<1>0. catalogue' = catalogue
  BY CompilerKeepsCatalogue DEF FrontEndsNext, vars
<1>1. CASE UNCHANGED designVars
  <2>1. UNCHANGED <<step, candidates, examined, chosen, verdict>>
    BY <1>1 DEF designVars
  <2> QED BY <1>0, <2>1, CatalogueRigid DEF SearchInv, SearchIsExhaustive, BeforeSearch
<1>2. ASSUME NEW set \in (SUBSET Mechanisms) \ {{}}, Crosswalk(set) PROVE SearchInv'
  BY <1>2 DEF Crosswalk, Raise, searchVars, SearchInv, SearchIsExhaustive, BeforeSearch
<1>3. ASSUME NEW claim \in Claims, Scope(claim) PROVE SearchInv'
  BY <1>0, <1>3, CatalogueRigid
     DEF Scope, Fail, searchVars, SearchInv, SearchIsExhaustive, BeforeSearch
<1>4. ASSUME NEW mode, Model(mode) PROVE SearchInv'
  BY <1>0, <1>4, CatalogueRigid
     DEF Model, Fail, Raise, searchVars, SearchInv, SearchIsExhaustive, BeforeSearch
<1>5. ASSUME NEW limit \in StateCaps, SetBudget(limit) PROVE SearchInv'
  BY <1>0, <1>5, CatalogueRigid
     DEF SetBudget, Raise, SearchInv, SearchIsExhaustive, BeforeSearch
<1>6. ASSUME NEW s \in SUBSET Mechanisms, Examine(s) PROVE SearchInv'
  <2>1. s \in ClosedSets(candidates) /\ step = "search" /\ chosen' = chosen
        /\ candidates' = candidates
    BY <1>6 DEF Examine, NextCandidate, Unexamined
  <2>2. examined' \subseteq ClosedSets(candidates) /\ chosen = {} /\ verdict = "none"
    BY <1>6, <2>1 DEF Examine, SearchInv
  <2>3. step' \in {"search", "returned"} /\ verdict' \in {"none", "ANALYSIS_INCOMPLETE"}
        /\ (step' = "search" => verdict' = "none")
    BY <1>6, <2>1, <2>2 DEF Examine, Fail
  <2> QED BY <1>0, <2>1, <2>2, <2>3, CatalogueRigid
          DEF SearchInv, SearchIsExhaustive, BeforeSearch
<1>7. CASE Synthesized
  <2> DEFINE sufficient == {s \in ClosedSets(candidates) : Determinate(s)}
  <2>1. sufficient = Feasible
    BY <1>7 DEF Synthesized, Unexamined, Feasible, SearchInv
  <2>2. candidates' = candidates /\ examined' = examined /\ step = "search"
        /\ step' \notin BeforeSearch \cup {"search"}
    BY <1>7 DEF Synthesized, searchVars, Fail, BeforeSearch
  <2>3. CASE Feasible = {}
    <3>1. chosen' = {} /\ step' = "returned" /\ sufficient = {}
      BY <1>7, <2>1, <2>2, <2>3 DEF Synthesized, Fail, SearchInv
    <3> QED BY <1>0, <2>2, <3>1, CatalogueRigid DEF SearchInv, SearchIsExhaustive, BeforeSearch
  <2>4. CASE Feasible # {}
    <3>1. /\ chosen' \in sufficient
          /\ \A s \in sufficient \ {chosen'} : Preferred(chosen', s)
          /\ verdict' = "none"
      BY <1>7, <2>1, <2>2, <2>4 DEF Synthesized, SearchInv
    <3>2. sufficient' = sufficient
      BY <1>0, <2>2, CatalogueRigid
    <3>3. \A s : Preferred(chosen', s) <=> Preferred(chosen, s)'
      BY <1>0 DEF Preferred, weight, EnumeratedBefore
    <3> QED BY <2>2, <3>1, <3>2, <3>3, CatalogueRigid, <1>0
            DEF SearchInv, SearchIsExhaustive, BeforeSearch
  <2> QED BY <2>3, <2>4
<1>8. ASSUME NEW missing \in SUBSET Mechanisms, Plan(missing) PROVE SearchInv'
  <2>1. /\ step = "plan" /\ step' = "returned" /\ chosen' = chosen
        /\ verdict' \in {"REALIZATION_GAP", "PLANNED"}
        /\ candidates' = candidates /\ examined' = examined
    BY <1>8 DEF Plan, Fail, searchVars
  <2> QED BY <1>0, <2>1, CatalogueRigid DEF SearchInv, SearchIsExhaustive, BeforeSearch
<1> QED BY <1>1, <1>2, <1>3, <1>4, <1>5, <1>6, <1>7, <1>8
        DEF FrontEndsNext, DesignNext, designVars

\* Whatever the catalogue, the budget and the number of mechanisms, the
\* contract is preferred to every other sufficient set, and EVIDENCE_GAP is
\* said only when there is none (core/finite_backend.py:86-136).
THEOREM PlansAreBest == FrontEndsSpec => []SearchIsExhaustive
<1>1. FrontEndsInit => SearchInv
  BY SearchStarts DEF FrontEndsInit
<1>2. SearchInv => SearchIsExhaustive
  BY DEF SearchInv
<1> QED BY <1>1, SearchStep, <1>2, PTL DEF FrontEndsSpec

(***************************************************************************)
(* The budget of the search, and the reasons it gives for its contract.    *)
(***************************************************************************)

\* If a contract confuses worlds, the scan of the worlds meets a first twin: the
\* one with the least second world, and the world that opened its bucket.
LEMMA FirstTwinExists ==
    ASSUME NEW contract, ~Determinate(contract)
    PROVE  \E a, b \in Worlds : FirstTwin(contract, a, b)
<1> DEFINE Second(b) == \E a \in Worlds : a < b /\ IsTwin(contract, a, b)
           seconds == {b \in Worlds : Second(b)}
<1>1. seconds \in SUBSET Nat /\ seconds # {}
  <2>1. PICK a \in Worlds, b \in Worlds : IsTwin(contract, a, b)
    BY DEF Determinate
  <2>2. IsTwin(contract, b, a) /\ a # b
    BY <2>1 DEF IsTwin, SameObservation
  <2>3. a < b \/ b < a
    BY <2>2, WorldsAssumption
  <2> QED BY <2>1, <2>2, <2>3, WorldsAssumption
<1>2. PICK b \in seconds : \A w \in seconds : b <= w
  <2> HIDE DEF seconds
  <2> QED BY <1>1, LeastNumber
<1> DEFINE bucket == {v \in Worlds : SameObservation(contract, v, b)}
<1>3. b \in bucket /\ bucket \in SUBSET Nat
  BY <1>2, WorldsAssumption DEF SameObservation
<1>4. PICK a \in bucket : \A v \in bucket : a <= v
  <2> HIDE DEF bucket
  <2> QED BY <1>3, LeastNumber
<1>5. PICK v \in Worlds : v < b /\ IsTwin(contract, v, b)
  BY <1>2
<1>6. a \in Nat /\ b \in Nat /\ v \in Nat /\ a <= v /\ v < b
  BY <1>2, <1>3, <1>4, <1>5, WorldsAssumption DEF IsTwin
<1>7. \A w \in Worlds : w < b => w \notin seconds
  BY <1>2, WorldsAssumption
<1>8. IsTwin(contract, a, b)
  <2> SUFFICES ASSUME catalogue.answer[a] = catalogue.answer[b] PROVE FALSE
    BY <1>4 DEF IsTwin
  <2>1. IsTwin(contract, a, v)
    BY <1>4, <1>5 DEF IsTwin, SameObservation
  <2>2. a < v
    BY <1>5, <1>6 DEF IsTwin
  <2> QED BY <1>4, <1>5, <1>7, <2>1, <2>2
<1>9. \A x, w \in Worlds : x < w /\ w < b => ~IsTwin(contract, x, w)
  BY <1>7
<1>10. \A x \in Worlds : x < a => ~SameObservation(contract, x, b)
  BY <1>4, <1>6, WorldsAssumption
<1> QED BY <1>2, <1>4, <1>6, <1>8, <1>9, <1>10 DEF FirstTwin

\* A check observes at least one world and at most all of them.
LEMMA UsedIsNatural == ASSUME NEW contract PROVE Used(contract) \in Nat
<1>1. IsFiniteSet(Worlds) /\ Cardinality(Worlds) \in Nat
  BY DomainAssumption, FS_CardinalityType
<1>2. CASE Determinate(contract)
  BY <1>1, <1>2 DEF Used
<1>3. CASE ~Determinate(contract)
  <2> DEFINE Observes(n) == \E a, b \in Worlds : /\ FirstTwin(contract, a, b)
                                                 /\ n = Cardinality({w \in Worlds : w <= b})
  <2>1. PICK a \in Worlds, b \in Worlds : FirstTwin(contract, a, b)
    BY <1>3, FirstTwinExists
  <2> DEFINE seen == {w \in Worlds : w <= b}
  <2>2. seen \in SUBSET Worlds /\ b \in seen
    BY WorldsAssumption
  <2>3. IsFiniteSet(seen) /\ Cardinality(seen) \in Nat /\ Cardinality(seen) <= Cardinality(Worlds)
    BY <1>1, <2>2, FS_Subset, FS_CardinalityType
  <2>4. Cardinality(seen) # 0
    BY <2>2, <2>3, FS_EmptySet
  <2>5. Cardinality(seen) \in 1..Cardinality(Worlds) /\ Observes(Cardinality(seen))
    <3>1. Cardinality(seen) \in 1..Cardinality(Worlds)
      <4> HIDE DEF seen
      <4> QED BY <1>1, <2>3, <2>4
    <3> QED BY <2>1, <3>1
  <2>6. \E n \in 1..Cardinality(Worlds) : Observes(n)
    BY <2>5
  <2>7. Used(contract) = CHOOSE n \in 1..Cardinality(Worlds) : Observes(n)
    BY <1>3 DEF Used
  <2> HIDE DEF Observes
  <2>8. Used(contract) \in 1..Cardinality(Worlds)
    BY <2>6, <2>7
  <2> QED BY <1>1, <2>8
<1> QED BY <1>2, <1>3

\* One more set costs what its check uses.
LEMMA WorkGrows ==
    ASSUME candidates \in SUBSET Mechanisms, NEW sets \in SUBSET ClosedSets(candidates)
    PROVE  /\ Work(sets) \in Nat /\ Work({}) = 0
           /\ \A s \in ClosedSets(candidates) \ sets :
                  /\ Work(sets \cup {s}) = Work(sets) + Used(s)
                  /\ Work(sets \cup {s}) <= TotalWork
<1> DEFINE all == ClosedSets(candidates)
           used == [s \in all |-> Used(s)]
<1>1. IsFiniteSet(all)
  <2>1. all \in SUBSET SUBSET Mechanisms
    BY DEF ClosedSets
  <2> QED BY <2>1, CollectionsAreFinite
<1>2. \A s \in all : used[s] \in Nat /\ used[s] = Used(s)
  BY UsedIsNatural
<1> HIDE DEF used, all
<1>3. \A part \in SUBSET all : IsFiniteSet(part) /\ TotalCost(used, part) \in Nat
  BY <1>1, <1>2, FS_Subset, TotalIsNatural
<1>4. sets \in SUBSET all /\ \A part : Work(part) = TotalCost(used, part)
  BY DEF Work, used, all
<1>5. TotalWork = TotalCost(used, all)
  BY <1>4 DEF TotalWork, all
<1>6. ASSUME NEW s \in all \ sets
      PROVE  /\ Work(sets \cup {s}) = Work(sets) + Used(s)
             /\ Work(sets \cup {s}) <= TotalWork
  <2> DEFINE more == sets \cup {s}
  <2>1. more \in SUBSET all /\ s \in more /\ more \ {s} = sets
    BY <1>4, <1>6
  <2>2. TotalCost(used, more) = used[s] + TotalCost(used, more \ {s})
    BY <1>2, <1>3, <2>1, TotalWithout
  <2>3. TotalCost(used, more) <= TotalCost(used, all)
    BY <1>1, <1>2, <2>1, TotalOfSubset
  <2>4. used[s] = Used(s) /\ used[s] \in Nat /\ TotalCost(used, sets) \in Nat
    BY <1>2, <1>3, <1>4, <2>1
  <2> HIDE DEF more
  <2>5. Work(more) = TotalCost(used, more) /\ Work(sets) = TotalCost(used, sets)
    BY <1>4
  <2>6. TotalCost(used, more) = TotalCost(used, sets) + Used(s)
    BY <2>1, <2>2, <2>4
  <2> QED BY <1>5, <2>3, <2>5, <2>6 DEF more
<1>7. Work({}) = 0 /\ Work(sets) \in Nat
  BY <1>3, <1>4, TotalOfNothing
<1> QED BY <1>6, <1>7 DEF all

LEMMA WorkIsKept ==
    ASSUME UNCHANGED <<catalogue, candidates>>
    PROVE  /\ \A s : Used(s)' = Used(s)
           /\ \A sets : Work(sets)' = Work(sets)
           /\ TotalWork' = TotalWork
           /\ \A contract, k : MinimalityWitness(contract, k)' = MinimalityWitness(contract, k)
<1>1. /\ \A c, a, b : FirstTwin(c, a, b)' <=> FirstTwin(c, a, b)
      /\ \A c : Determinate(c)' <=> Determinate(c)
      /\ ClosedSets(candidates)' = ClosedSets(candidates)
  BY DEF FirstTwin, Determinate, IsTwin, SameObservation, ClosedSets
<1>2. \A s : Used(s)' = Used(s)
  BY DEF Used, FirstTwin, Determinate, IsTwin, SameObservation
<1>3. \A sets : Work(sets)' = Work(sets)
  BY <1>1, <1>2 DEF Work
<1>4. TotalWork' = TotalWork
  BY <1>1, <1>2 DEF TotalWork, Work
<1>5. \A contract, k : MinimalityWitness(contract, k)' = MinimalityWitness(contract, k)
  BY <1>1 DEF MinimalityWitness
<1> QED BY <1>2, <1>3, <1>4, <1>5

\* What is spent is the work of the sets examined, until the budget runs out.
BudgetInv ==
    /\ catalogue \in Catalogue /\ candidates \in SUBSET Mechanisms
    /\ cap \in Nat /\ explored <= cap
    /\ verdict # "ANALYSIS_INCOMPLETE" => explored = Work(examined)
    /\ verdict = "ANALYSIS_INCOMPLETE" =>
           step = "returned" /\ explored = cap /\ cap < TotalWork
    /\ step = "plan" \/ verdict = "EVIDENCE_GAP" => examined = ClosedSets(candidates)
    /\ step = "plan" => witnesses = {MinimalityWitness(chosen, k) : k \in chosen}

LEMMA BudgetStarts == FrontEndsInit => BudgetInv
<1> SUFFICES ASSUME FrontEndsInit PROVE BudgetInv
  OBVIOUS
<1>1. /\ catalogue \in Catalogue /\ candidates = {} /\ cap = 0 /\ explored = 0 /\ examined = {}
      /\ verdict = "none" /\ step = "start"
  BY CataloguesAssumption DEF FrontEndsInit, Init, DesignInit
<1>2. Work({}) = 0
  BY <1>1, WorkGrows
<1> QED BY <1>1, <1>2 DEF BudgetInv

\* Before the search only the candidates are settled, and nothing is spent.
LEMMA BudgetBefore ==
    ASSUME BudgetInv, SearchInv, step \in BeforeSearch, catalogue' = catalogue,
           candidates' \in SUBSET Mechanisms, cap' \in Nat,
           UNCHANGED <<examined, explored>>,
           step' # "plan", verdict' \notin {"ANALYSIS_INCOMPLETE", "EVIDENCE_GAP"}
    PROVE  BudgetInv'
<1>1. examined' = {} /\ explored' = 0
  BY WorkGrows DEF SearchInv, BudgetInv
<1>2. Work({})' = 0
  BY TotalOfNothing DEF Work
<1>3. Work(examined)' = 0
  BY <1>1, <1>2 DEF Work
<1> QED BY <1>1, <1>3 DEF BudgetInv

LEMMA BudgetStep ==
    BudgetInv /\ SearchInv /\ [FrontEndsNext]_<<vars, designVars>> => BudgetInv'
<1> SUFFICES ASSUME BudgetInv, SearchInv, [FrontEndsNext]_<<vars, designVars>> PROVE BudgetInv'
  OBVIOUS
<1>0. catalogue' = catalogue
  BY CompilerKeepsCatalogue DEF FrontEndsNext, vars
<1>1. ASSUME UNCHANGED <<candidates, cap, examined, explored>>,
             verdict' = "ANALYSIS_INCOMPLETE" =>
                 verdict = "ANALYSIS_INCOMPLETE" /\ step' = "returned",
             verdict = "ANALYSIS_INCOMPLETE" => verdict' = "ANALYSIS_INCOMPLETE",
             step' = "plan" \/ verdict' = "EVIDENCE_GAP" => examined = ClosedSets(candidates),
             step' = "plan" => witnesses' = {MinimalityWitness(chosen', k) : k \in chosen'}
      PROVE  BudgetInv'
  <2>1. /\ Work(examined)' = Work(examined) /\ TotalWork' = TotalWork
        /\ \A contract, k : MinimalityWitness(contract, k)' = MinimalityWitness(contract, k)
    <3>1. Work(examined)' = Work(examined)
      BY <1>0, <1>1 DEF Work, ClosedSets, Used, FirstTwin, Determinate, IsTwin, SameObservation
    <3> QED BY <1>0, <1>1, <3>1, WorkIsKept
  <2>2. ClosedSets(candidates)' = ClosedSets(candidates)
    BY <1>0, <1>1 DEF ClosedSets
  <2>3. {MinimalityWitness(chosen, k) : k \in chosen}'
            = {MinimalityWitness(chosen', k) : k \in chosen'}
    BY <1>0, <1>1 DEF MinimalityWitness, FirstTwin, IsTwin, SameObservation
  <2> QED BY <1>0, <1>1, <2>1, <2>2, <2>3 DEF BudgetInv
<1>2. CASE UNCHANGED designVars
  BY <1>1, <1>2 DEF designVars, BudgetInv
<1>3. ASSUME NEW set \in (SUBSET Mechanisms) \ {{}}, Crosswalk(set) PROVE BudgetInv'
  <2>1. /\ step = "start" /\ candidates' = set /\ UNCHANGED <<cap, examined, explored, verdict>>
        /\ step' \in {"scope", "raised"}
    BY <1>3 DEF Crosswalk, Raise, searchVars
  <2>2. step \in BeforeSearch /\ verdict = "none"
    BY <2>1 DEF SearchInv, BeforeSearch
  <2> QED BY <1>0, <2>1, <2>2, BudgetBefore DEF BudgetInv
<1>4. ASSUME NEW claim \in Claims, Scope(claim) PROVE BudgetInv'
  <2>1. /\ step = "scope" /\ UNCHANGED <<candidates, cap, examined, explored>>
        /\ verdict' \in {verdict, "QUERY_GAP"} /\ step' \in {"returned", "model"}
    BY <1>4 DEF Scope, Fail, searchVars
  <2>2. step \in BeforeSearch /\ verdict = "none"
    BY <2>1 DEF SearchInv, BeforeSearch
  <2> QED BY <1>0, <2>1, <2>2, BudgetBefore DEF BudgetInv
<1>5. ASSUME NEW mode, Model(mode) PROVE BudgetInv'
  <2>1. /\ step = "model" /\ UNCHANGED <<candidates, cap, examined, explored>>
        /\ verdict' \in {verdict, "MODEL_GAP"} /\ step' \in {"returned", "raised", "budget"}
    BY <1>5 DEF Model, Fail, Raise, searchVars
  <2>2. step \in BeforeSearch /\ verdict = "none"
    BY <2>1 DEF SearchInv, BeforeSearch
  <2> QED BY <1>0, <2>1, <2>2, BudgetBefore DEF BudgetInv
<1>6. ASSUME NEW limit \in StateCaps, SetBudget(limit) PROVE BudgetInv'
  <2>1. limit \in Int
    BY CapsAssumption
  <2>2. /\ step = "budget" /\ UNCHANGED <<candidates, examined, explored, verdict>>
        /\ cap' = cap \/ (cap' = limit /\ ~(limit < 0))
        /\ step' \in {"search", "raised"}
    BY <1>6 DEF SetBudget, Raise
  <2>3. cap' \in Nat
    BY <2>1, <2>2 DEF BudgetInv
  <2>4. step' # "plan"
    BY <1>6 DEF SetBudget, Raise
  <2>5. step \in BeforeSearch /\ verdict = "none"
    BY <2>2 DEF SearchInv, BeforeSearch
  <2> QED BY <1>0, <2>2, <2>3, <2>4, <2>5, BudgetBefore DEF BudgetInv
<1>7. ASSUME NEW s \in SUBSET Mechanisms, Examine(s) PROVE BudgetInv'
  <2>1. /\ step = "search" /\ s \in ClosedSets(candidates) \ examined
        /\ UNCHANGED <<candidates, cap>>
    BY <1>7 DEF Examine, NextCandidate, Unexamined
  <2>2. /\ examined \in SUBSET ClosedSets(candidates) /\ verdict = "none"
        /\ candidates \in SUBSET Mechanisms
    BY <2>1 DEF SearchInv, BudgetInv
  <2>3. /\ explored = Work(examined) /\ Work(examined) \in Nat /\ cap \in Nat /\ Used(s) \in Nat
        /\ Work(examined \cup {s}) = Work(examined) + Used(s)
        /\ Work(examined \cup {s}) <= TotalWork
    BY <2>1, <2>2, WorkGrows, UsedIsNatural DEF BudgetInv
  <2>4. /\ \A sets : Work(sets)' = Work(sets)
        /\ TotalWork' = TotalWork
    BY <1>0, <2>1, WorkIsKept
  <2>5. CASE Used(s) > remaining
    <3>1. /\ explored' = cap /\ step' = "returned" /\ verdict' = "ANALYSIS_INCOMPLETE"
      BY <1>7, <2>5 DEF Examine, Fail
    <3>2. cap < Work(examined \cup {s})
      BY <2>3, <2>5 DEF remaining
    <3>3. cap < TotalWork
      <4>1. TotalWork \in Nat
        <5>1. ClosedSets(candidates) \in SUBSET ClosedSets(candidates)
          OBVIOUS
        <5> QED BY <2>2, <5>1, WorkGrows DEF TotalWork
      <4> QED BY <2>3, <3>2, <4>1
    <3> QED BY <1>0, <2>1, <2>2, <2>3, <2>4, <3>1, <3>3 DEF BudgetInv
  <2>6. CASE ~(Used(s) > remaining)
    <3>1. /\ explored' = explored + Used(s) /\ examined' = examined \cup {s}
          /\ step' = "search" /\ verdict' = "none"
      BY <1>7, <2>1, <2>2, <2>6 DEF Examine
    <3>2. explored' <= cap
      BY <2>3, <2>6, <3>1 DEF remaining
    <3>3. Work(examined)' = Work(examined \cup {s})
      BY <1>0, <2>1, <3>1 DEF Work, ClosedSets, Used, FirstTwin, Determinate, IsTwin,
                              SameObservation
    <3> QED BY <1>0, <2>1, <2>2, <2>3, <3>1, <3>2, <3>3 DEF BudgetInv
  <2> QED BY <2>5, <2>6
<1>8. CASE Synthesized
  <2>1. /\ step = "search" /\ examined = ClosedSets(candidates) /\ verdict = "none"
        /\ UNCHANGED <<candidates, cap, examined, explored>>
    BY <1>8 DEF Synthesized, Unexamined, searchVars, SearchInv
  <2>2. CASE Feasible = {}
    <3>1. step' = "returned" /\ verdict' = "EVIDENCE_GAP"
      BY <1>8, <2>2 DEF Synthesized, Fail
    <3> QED BY <1>1, <2>1, <3>1
  <2>3. CASE Feasible # {}
    <3>1. /\ step' = "plan" /\ verdict' = verdict
          /\ witnesses' = {MinimalityWitness(chosen', k) : k \in chosen'}
      BY <1>8, <2>3 DEF Synthesized
    <3> QED BY <1>1, <2>1, <3>1
  <2> QED BY <2>2, <2>3
<1>9. ASSUME NEW missing \in SUBSET Mechanisms, Plan(missing) PROVE BudgetInv'
  <2>1. /\ step = "plan" /\ step' = "returned" /\ verdict' \in {"REALIZATION_GAP", "PLANNED"}
        /\ UNCHANGED <<candidates, cap, examined, explored>>
    BY <1>9 DEF Plan, Fail, searchVars
  <2> QED BY <1>1, <2>1 DEF BudgetInv
<1> QED BY <1>2, <1>3, <1>4, <1>5, <1>6, <1>7, <1>8, <1>9
        DEF FrontEndsNext, DesignNext, designVars

LEMMA FrontEndsInvariant == FrontEndsSpec => [](SearchInv /\ BudgetInv)
<1>1. FrontEndsInit => SearchInv
  BY SearchStarts DEF FrontEndsInit
<1> QED BY <1>1, SearchStep, BudgetStarts, BudgetStep, PTL DEF FrontEndsSpec

\* ANALYSIS_INCOMPLETE is answered exactly when the budget is less than the work
\* of the whole search, for any number of worlds and mechanisms
\* (core/finite_backend.py:86-136).
THEOREM BudgetsAreHonest == FrontEndsSpec => []LimitsAreHonest
<1>1. SearchInv /\ BudgetInv => LimitsAreHonest
  BY DEF LimitsAreHonest, BudgetInv, TotalWork
<1> QED BY <1>1, FrontEndsInvariant, PTL

\* A contract without one of its members is not closed or confuses worlds; else
\* it would have been preferred, with one member less and no more weight.
LEMMA ContractsAreMinimal ==
    ASSUME BudgetInv, SearchInv, step = "plan", NEW k \in chosen
    PROVE  \/ \E j \in chosen \ {k} : k \in catalogue.requires[j]
           \/ ~Determinate(chosen \ {k})
<1> SUFFICES ASSUME ~\E j \in chosen \ {k} : k \in catalogue.requires[j],
                    Determinate(chosen \ {k})
             PROVE  FALSE
  OBVIOUS
<1> DEFINE sufficient == {s \in ClosedSets(candidates) : Determinate(s)}
           reduced == chosen \ {k}
<1>1. chosen \in sufficient /\ \A s \in sufficient \ {chosen} : Preferred(chosen, s)
  BY DEF SearchInv, SearchIsExhaustive
<1>2. chosen \in SUBSET Mechanisms /\ catalogue \in Catalogue
  BY <1>1 DEF ClosedSets, BudgetInv
<1>3. reduced \in sufficient
  BY <1>1 DEF ClosedSets
<1>4. Preferred(chosen, reduced)
  BY <1>1, <1>3
<1>5. /\ weight(reduced) <= weight(chosen) /\ weight(reduced) \in Nat /\ weight(chosen) \in Nat
  BY <1>2, Weights
<1>6. /\ Cardinality(reduced) < Cardinality(chosen)
      /\ Cardinality(reduced) \in Nat /\ Cardinality(chosen) \in Nat
  BY <1>2, Weights, OneFewer
<1> HIDE DEF reduced
<1> QED BY <1>4, <1>5, <1>6 DEF Preferred, EnumeratedBefore

\* Each mechanism of a plan's contract has a witness of one of two kinds
\* (synthesize, core/finite_backend.py:158-185).
THEOREM MinimalityHasWitnesses == FrontEndsSpec => []MinimalityIsWitnessed
<1>1. SearchInv /\ BudgetInv => MinimalityIsWitnessed
  <2> SUFFICES ASSUME SearchInv, BudgetInv, step = "plan"
               PROVE  /\ {x.removed : x \in witnesses} = chosen
                      /\ \A x \in witnesses :
                             \/ x.type = "dependency_nonclosure"
                                /\ \E j \in chosen : x.removed \in catalogue.requires[j]
                             \/ /\ x.type = "twin" /\ x.pairs # {}
                                /\ \A p \in x.pairs : IsTwin(chosen \ {x.removed}, p[1], p[2])
    BY DEF MinimalityIsWitnessed
  <2>1. witnesses = {MinimalityWitness(chosen, k) : k \in chosen}
    BY DEF BudgetInv
  <2>2. \A k \in chosen : MinimalityWitness(chosen, k).removed = k
    BY DEF MinimalityWitness
  <2>3. ASSUME NEW k \in chosen, NEW x, x = MinimalityWitness(chosen, k)
        PROVE  \/ x.type = "dependency_nonclosure"
                  /\ \E j \in chosen : x.removed \in catalogue.requires[j]
               \/ /\ x.type = "twin" /\ x.pairs # {}
                  /\ \A p \in x.pairs : IsTwin(chosen \ {x.removed}, p[1], p[2])
    <3>1. CASE \E j \in chosen \ {k} : k \in catalogue.requires[j]
      BY <2>2, <2>3, <3>1 DEF MinimalityWitness
    <3>2. CASE ~\E j \in chosen \ {k} : k \in catalogue.requires[j]
      <4> DEFINE twins == {p \in Worlds \X Worlds : FirstTwin(chosen \ {k}, p[1], p[2])}
      <4>1. ~Determinate(chosen \ {k})
        BY <3>2, ContractsAreMinimal
      <4>2. PICK a \in Worlds, b \in Worlds : FirstTwin(chosen \ {k}, a, b)
        BY <4>1, FirstTwinExists
      <4>3. <<a, b>> \in twins
        BY <4>2
      <4>4. x.type = "twin" /\ x.pairs = twins /\ x.removed = k
        BY <2>3, <3>2, <4>3 DEF MinimalityWitness
      <4>5. \A p \in twins : IsTwin(chosen \ {k}, p[1], p[2])
        BY DEF FirstTwin
      <4> QED BY <4>3, <4>4, <4>5
    <3> QED BY <3>1, <3>2
  <2>4. {x.removed : x \in witnesses} = chosen
    BY <2>1, <2>2
  <2>5. \A x \in witnesses : \E k \in chosen : x = MinimalityWitness(chosen, k)
    BY <2>1
  <2> QED BY <2>3, <2>4, <2>5
<1> QED BY <1>1, FrontEndsInvariant, PTL

(***************************************************************************)
(* The compiler and the pipeline, asked about the same catalogue.          *)
(***************************************************************************)

\* The front ends run the compiler beside the pipeline.
LEMMA FrontEndsRunTheCompiler == FrontEndsSpec => Spec
<1>1. [FrontEndsNext]_<<vars, designVars>> => [Next]_vars
  BY DEF FrontEndsNext, vars
<1> QED BY <1>1, PTL DEF FrontEndsSpec, FrontEndsInit, Spec

\* "all" is answered for every mode, and a call that is over has one of the
\* statuses of its interface.
AnswerInv ==
    /\ request = "all" => modes = All
    /\ phase = "done" =>
           result.status \in {"BLOCKED", "INCONCLUSIVE", "AUDITABLE", "PASSIVE_AUDITABLE",
                              "ACTIVE_AUDIT_REQUIRED"}

LEMMA AnswerIsTyped == Spec => []AnswerInv
<1>1. Init => AnswerInv
  BY DEF Init, AnswerInv
<1>2. AnswerInv /\ [Next]_vars => AnswerInv'
  <2> SUFFICES ASSUME AnswerInv, [Next]_vars PROVE AnswerInv'
    OBVIOUS
  <2>1. ASSUME NEW status \in {"BLOCKED", "INCONCLUSIVE", "AUDITABLE", "PASSIVE_AUDITABLE"},
               NEW contract, NEW certificates, Return(status, contract, certificates),
               request' = request
        PROVE  AnswerInv'
    BY <2>1 DEF Return, AnswerInv
  <2>2. ASSUME UNCHANGED <<request, modes>>, phase' # "done" \/ UNCHANGED <<phase, result>>
        PROVE  AnswerInv'
    BY <2>2 DEF AnswerInv
  <2>3. CASE Begin
    <3>1. request' = request
      BY <2>3 DEF Begin
    <3>2. \/ Return("BLOCKED", {}, {})
          \/ modes' = modes /\ phase' = "check"
      BY <2>3 DEF Begin, Select
    <3> QED BY <2>1, <2>2, <3>1, <3>2
  <2>4. CASE Conclude
    <3>1. request' = request
      BY <2>4 DEF Conclude
    <3>2. \E status \in {"BLOCKED", "AUDITABLE", "PASSIVE_AUDITABLE"} :
              \E contract, certificates : Return(status, contract, certificates)
      <4>1. CASE Assured(selected)
        <5>1. Return(IF \E k \in selected : catalogue.mode[k] = "active"
                     THEN "AUDITABLE" ELSE "PASSIVE_AUDITABLE", selected,
                     UNION {CertificatesOf(selected \ {k}, modes) : k \in selected})
          BY <2>4, <4>1 DEF Conclude
        <5> QED BY <5>1
      <4>2. CASE ~Assured(selected)
        <5>1. Return("BLOCKED", {}, {})
          BY <2>4, <4>2 DEF Conclude
        <5> QED BY <5>1
      <4> QED BY <4>1, <4>2
    <3> QED BY <2>1, <3>1, <3>2
  <2>5. ASSUME NEW a \in Worlds, NEW b \in Worlds, Separate(a, b) PROVE AnswerInv'
    <3>1. request' = request
      BY <2>5 DEF Separate
    <3>2. \/ Return("BLOCKED", {}, {})
          \/ UNCHANGED <<modes, phase, result>>
      BY <2>5 DEF Separate
    <3> QED BY <2>1, <2>2, <3>1, <3>2
  <2>6. ASSUME NEW a \in Worlds, NEW b \in Worlds, Inseparable(a, b) PROVE AnswerInv'
    BY <2>1, <2>6 DEF Inseparable
  <2>7. CASE LimitReached
    BY <2>1, <2>7 DEF LimitReached
  <2>8. CASE UNCHANGED vars
    BY <2>2, <2>8 DEF vars
  <2> QED BY <2>3, <2>4, <2>5, <2>6, <2>7, <2>8 DEF Next, Done
<1> QED BY <1>1, <1>2, PTL DEF Spec

\* The same question: what the compiler calls auditable is what the pipeline
\* calls sufficient.
LEMMA SameContracts ==
    ASSUME CompilerInv, AnswerInv, SameQuestion
    PROVE  /\ Eligible(modes) = Mechanisms /\ candidates = Mechanisms
           /\ \A s \in SUBSET Mechanisms :
                  Auditable(s) <=> s \in ClosedSets(candidates) /\ Determinate(s)
<1>1. /\ candidates = Mechanisms /\ catalogue.trusted = Mechanisms /\ catalogue.needs = {}
      /\ catalogue.mode \in [Mechanisms -> All] /\ modes = All
  BY DEF SameQuestion, AnswerInv, CompilerInv, TypeOK, Catalogue
<1>2. Eligible(modes) = Mechanisms
  BY <1>1 DEF Eligible
<1>3. ASSUME NEW s \in SUBSET Mechanisms, s \in ClosedSets(candidates), Determinate(s)
      PROVE  Auditable(s)
  BY <1>1, <1>3 DEF ClosedSets, Auditable, Assured, Unmet, Missing
<1>4. ASSUME NEW s \in SUBSET Mechanisms, Auditable(s)
      PROVE  s \in ClosedSets(candidates) /\ Determinate(s)
  <2>1. s \in ClosedSets(Eligible(modes))
    BY <1>2, <1>4, AuditableIsClosed
  <2> QED BY <1>1, <1>2, <1>4, <2>1 DEF Auditable
<1> QED BY <1>1, <1>2, <1>3, <1>4

LEMMA FrontEndsConcur ==
    CompilerInv /\ AnswerInv /\ SearchInv /\ BudgetInv => FrontEndsAgree
<1> SUFFICES ASSUME CompilerInv, AnswerInv, SearchInv, BudgetInv, SameQuestion
             PROVE  /\ step = "plan" /\ result.status # "INCONCLUSIVE" =>
                           Succeeded /\ weight(chosen) = weight(result.contract)
                    /\ verdict = "EVIDENCE_GAP" => ~Succeeded
  BY DEF FrontEndsAgree
<1> DEFINE sufficient == {s \in ClosedSets(candidates) : Determinate(s)}
<1>1. /\ Eligible(modes) = Mechanisms /\ candidates = Mechanisms
      /\ \A s \in SUBSET Mechanisms : Auditable(s) <=> s \in sufficient
  BY SameContracts
<1>2. catalogue \in Catalogue /\ result.contract \in SUBSET Mechanisms
  BY <1>1 DEF CompilerInv, TypeOK
<1>3. Succeeded => result.contract \in sufficient
  BY <1>1, <1>2 DEF CompilerInv, LeastAuditable
<1>4. verdict = "EVIDENCE_GAP" => ~Succeeded
  BY <1>3 DEF SearchInv, SearchIsExhaustive
<1>5. ASSUME step = "plan", result.status # "INCONCLUSIVE"
      PROVE  Succeeded /\ weight(chosen) = weight(result.contract)
  <2>1. chosen \in sufficient /\ \A s \in sufficient \ {chosen} : Preferred(chosen, s)
    BY <1>5 DEF SearchInv, SearchIsExhaustive
  <2>2. chosen \in SUBSET Mechanisms /\ Auditable(chosen)
    BY <1>1, <2>1 DEF ClosedSets
  <2>3. result.status # "BLOCKED"
    BY <1>1, <2>2 DEF CompilerInv, RefusalsAreFinal
  <2>4. Succeeded
    BY <1>5, <2>3 DEF SameQuestion, AnswerInv, Succeeded
  <2>5. weight(result.contract) <= weight(chosen)
    BY <1>1, <2>2, <2>4 DEF CompilerInv, LeastAuditable
  <2>6. weight(chosen) <= weight(result.contract)
    <3>1. weight(chosen) \in Nat /\ weight(result.contract) \in Nat
      BY <1>2, <2>2, Weights
    <3>2. result.contract = chosen \/ Preferred(chosen, result.contract)
      BY <1>3, <2>1, <2>4
    <3> QED BY <3>1, <3>2 DEF Preferred
  <2>7. weight(chosen) \in Nat /\ weight(result.contract) \in Nat
    BY <1>2, <2>2, Weights
  <2> QED BY <2>4, <2>5, <2>6, <2>7
<1> QED BY <1>4, <1>5

\* Two programs without common code, a loop over counterexamples and a search of
\* all subsets, succeed together, with contracts of one weight (compiler.py:126-250,
\* core/finite_backend.py:86-136).
THEOREM FrontEndsConverge == FrontEndsSpec => []FrontEndsAgree
BY FrontEndsRunTheCompiler, CompilerInvariant, AnswerIsTyped, FrontEndsInvariant,
   FrontEndsConcur, PTL

(***************************************************************************)
(* The three engines side by side.                                         *)
(***************************************************************************)

\* No engine changes the catalogue.
LEMMA CatalogueStays ==
    [EnginesNext]_<<vars, designVars, calculusState>> => UNCHANGED catalogue
<1>1. Begin => UNCHANGED catalogue
    BY DEF Begin
<1>2. Conclude => UNCHANGED catalogue
    BY DEF Conclude
<1>3. ASSUME NEW a \in Worlds, NEW b \in Worlds, Separate(a, b) \/ Inseparable(a, b)
      PROVE  UNCHANGED catalogue
    BY <1>3 DEF Separate, Inseparable
<1>4. LimitReached \/ Done => UNCHANGED catalogue
    BY DEF LimitReached, Done, vars
<1> QED BY <1>1, <1>2, <1>3, <1>4 DEF Next, EnginesNext, Ask, Follow, Design, vars

\* Composed with the other two, the compiler and the pipeline behave as
\* DesignPipeline says (compiler.py:252-297, core/pipeline.py:139-218).
THEOREM EnginesRunThePipeline == EnginesSpec => FrontEndsSpec
<1>1. EnginesInit => FrontEndsInit
    BY DEF EnginesInit
<1>2. [EnginesNext]_<<vars, designVars, calculusState>> => [FrontEndsNext]_<<vars, designVars>>
    BY DEF EnginesNext, Ask, Follow, Design, FrontEndsNext
<1> QED BY <1>1, <1>2, PTL DEF EnginesSpec, FrontEndsSpec

\* Whatever is proved of the compiler alone holds of the composition as well:
\* nothing the other two do is seen by it (compiler.py:252-297).
THEOREM EnginesRunTheCompiler == EnginesSpec => Spec
BY EnginesRunThePipeline, FrontEndsRunTheCompiler

\* The calculus, asked about a catalogue, behaves as InformationOrder says
\* (core/information_order.py:115-575).
THEOREM EnginesRunTheCalculus == EnginesSpec => Calculus!CalculusSpec
<1>1. EnginesInit => Calculus!CalculusInit
    BY DEF EnginesInit
<1>2. [EnginesNext]_<<vars, designVars, calculusState>>
          => [Calculus!CalculusNext /\ UNCHANGED TableOf(catalogue)]_<<TableOf(catalogue), Calculus!calculusVars>>
    <2>1. [EnginesNext]_<<vars, designVars, calculusState>> => UNCHANGED TableOf(catalogue)
        BY CatalogueStays DEF TableOf
    <2>2. [EnginesNext]_<<vars, designVars, calculusState>> =>
              Calculus!CalculusNext \/ UNCHANGED calculusState
        BY DEF EnginesNext, Ask, Follow, Design, Calculus!CalculusNext, calculusState
    <2> QED BY <2>1, <2>2 DEF calculusState, Calculus!calculusVars
<1> QED BY <1>1, <1>2, PTL DEF EnginesSpec, Calculus!CalculusSpec

(***************************************************************************)
(* The results about the calculus, carried over.  They are proved in an    *)
(* instance of its module that is not the one AuditEngines reasons with;   *)
(* the lemmas show, definition by definition, that the two are the same.   *)
(***************************************************************************)

Proved == INSTANCE InformationOrder_proofs WITH table <- TableOf(catalogue)

LEMMA ProvedAssumption == Mechanisms \subseteq Nat /\ Proved!IsFiniteSet(Mechanisms)
BY MechanismsAssumption DEF Proved!IsFiniteSet, IsFiniteSet

\* Both instances count alike.
LEMMA SameCardinality ==
    ASSUME NEW set PROVE Calculus!Cardinality(set) = Proved!Cardinality(set)
BY DEF Calculus!Cardinality, Proved!Cardinality

\* Both instances prefer the same contracts.
LEMMA SamePreference ==
    ASSUME NEW s, NEW t PROVE Calculus!tie_break(s, t) <=> Proved!tie_break(s, t)
<1>1. ASSUME NEW set PROVE Calculus!cost(set) = Proved!cost(set)
    BY DEF Calculus!cost, Proved!cost, Calculus!TotalCost, Proved!TotalCost,
        Calculus!MapThenSumSet, Proved!MapThenSumSet,
        Calculus!MapThenFoldSet, Proved!MapThenFoldSet
<1>2. Calculus!LexicallyBefore(s, t) <=> Proved!LexicallyBefore(s, t)
    BY DEF Calculus!LexicallyBefore, Proved!LexicallyBefore
<1> QED BY <1>1, <1>2, SameCardinality DEF Calculus!tie_break, Proved!tie_break

\* Both instances separate the same pairs by the same mechanisms.
LEMMA SameSeparation ==
    /\ Calculus!sufficient_contracts = Proved!sufficient_contracts
    /\ Calculus!feasible_mechanisms = Proved!feasible_mechanisms
    /\ Calculus!_critical_pairs = Proved!_critical_pairs
    /\ \A p : Calculus!separators(p) = Proved!separators(p)
    /\ \A set : Calculus!missing(set) = Proved!missing(set)
    /\ \A set : Calculus!closed(set) <=> Proved!closed(set)
BY DEF Calculus!sufficient_contracts, Proved!sufficient_contracts,
    Calculus!candidate_contracts, Proved!candidate_contracts,
    Calculus!feasible_mechanisms, Proved!feasible_mechanisms,
    Calculus!_critical_pairs, Proved!_critical_pairs, Calculus!separators,
    Proved!separators, Calculus!missing, Proved!missing, Calculus!closed,
    Proved!closed

\* Both instances give the same answers.
LEMMA SameAnswers ==
    ASSUME NEW limit
    PROVE  Calculus!compile_minimum_contract(limit) = Proved!compile_minimum_contract(limit)
<1>1. ASSUME NEW pairs PROVE Calculus!first_of(pairs) = Proved!first_of(pairs)
    BY DEF Calculus!first_of, Proved!first_of
<1>2. ASSUME NEW s PROVE Calculus!Contract(s) = Proved!Contract(s)
  <2>1. \A k : Calculus!minimality_witness(s, k) = Proved!minimality_witness(s, k)
      BY <1>1, SameSeparation DEF Calculus!minimality_witness, Proved!minimality_witness
  <2> QED BY <2>1 DEF Calculus!Contract, Proved!Contract, Calculus!Answer, Proved!Answer
<1> QED
    BY <1>1, <1>2, SameCardinality, SameSeparation, SamePreference
    DEF Calculus!compile_minimum_contract, Proved!compile_minimum_contract,
        Calculus!Answer, Proved!Answer

\* Both instances are the same state machine.
LEMMA SameCalculus == Calculus!CalculusSpec => Proved!CalculusSpec
<1>1. Calculus!CalculusInit => Proved!CalculusInit
    BY DEF Calculus!CalculusInit, Proved!CalculusInit, Calculus!NoCertificate,
        Proved!NoCertificate, Calculus!Answer, Proved!Answer, Calculus!NoBundle, Proved!NoBundle
<1>2. [Calculus!CalculusNext /\ UNCHANGED TableOf(catalogue)]_<<TableOf(catalogue), Calculus!calculusVars>>
          => [Proved!CalculusNext /\ UNCHANGED TableOf(catalogue)]_<<TableOf(catalogue), Proved!calculusVars>>
  <2>1. ASSUME NEW limit, Calculus!Compile(limit) PROVE Proved!Compile(limit)
      BY <2>1, SameAnswers DEF Calculus!Compile, Proved!Compile, Calculus!NoCertificate,
        Proved!NoCertificate, Calculus!Answer, Proved!Answer
  <2>2. ASSUME NEW c, Calculus!Capture(c) PROVE Proved!Capture(c)
      BY <2>2 DEF Calculus!Capture, Proved!Capture, Calculus!Observed, Proved!Observed
  <2>3. ASSUME NEW c, Calculus!NextPoint(c) PROVE Proved!NextPoint(c)
      BY <2>3 DEF Calculus!NextPoint, Proved!NextPoint,
          Calculus!analyze_lifecycle_transformation,
          Proved!analyze_lifecycle_transformation, Calculus!LifecycleStatus,
          Proved!LifecycleStatus, Calculus!deterministic,
          Proved!deterministic, Calculus!factorization_exists,
          Proved!factorization_exists, Calculus!_first_twin,
          Proved!_first_twin, Calculus!Opens, Proved!Opens
  <2>4. ASSUME Calculus!Migrate PROVE Proved!Migrate
      BY <2>4 DEF Calculus!Migrate, Proved!Migrate, Calculus!MigrateWith, Proved!MigrateWith,
        Calculus!NoBundle, Proved!NoBundle, Calculus!Document, Proved!Document,
        Calculus!Statuses, Proved!Statuses, Calculus!AllClaims, Proved!AllClaims
  <2> QED
      BY <2>1, <2>2, <2>3, <2>4 DEF Calculus!CalculusNext, Proved!CalculusNext,
        Calculus!calculusVars, Proved!calculusVars
<1> QED BY <1>1, <1>2, PTL DEF Calculus!CalculusSpec, Proved!CalculusSpec

\* The contract of the calculus decodes the claim, for any catalogue it is asked
\* about beside the other engines (information_order.py:144-236).
THEOREM EnginesContractsDecode == EnginesSpec => []ContractFactors
<1>1. Proved!ContractFactors => ContractFactors
    BY SamePreference DEF ContractFactors, Calculus!ContractFactors, Proved!ContractFactors, Calculus!Decodable,
        Proved!Decodable, Calculus!Joint, Proved!Joint, Calculus!closed,
        Proved!closed
<1>2. Proved!CalculusSpec => []Proved!ContractFactors
    BY Proved!ContractsDecode, ProvedAssumption, WorldsAssumption, PTL
<1> QED BY <1>1, <1>2, EnginesRunTheCalculus, SameCalculus, PTL

\* Without new evidence the horizon of the claims of any catalogue only shrinks
\* (semantic_audit_horizon, information_order.py:535-578).
THEOREM EnginesHorizonsShrink == EnginesSpec => []HorizonIsPrefixClosed
<1>1. Proved!HorizonIsPrefixClosed => HorizonIsPrefixClosed
    BY DEF HorizonIsPrefixClosed, Calculus!HorizonIsPrefixClosed, Proved!HorizonIsPrefixClosed,
        Calculus!HorizonRaises, Proved!HorizonRaises, Calculus!prefix_closed,
        Proved!prefix_closed, Calculus!semantically_sufficient,
        Proved!semantically_sufficient, Calculus!factorization_exists,
        Proved!factorization_exists, Calculus!_first_twin,
        Proved!_first_twin, Calculus!Opens, Proved!Opens
<1>2. Proved!CalculusSpec => []Proved!HorizonIsPrefixClosed
    BY Proved!HorizonsOnlyShrink, ProvedAssumption, WorldsAssumption, PTL
<1> QED BY <1>1, <1>2, EnginesRunTheCalculus, SameCalculus, PTL

\* Python and Rust report one gap for the evidence of any catalogue
\* (information_order.py:398-460, information_order.rs:15-83, evidence_vault.py:1037-1068).
THEOREM EnginesReportOneGap == EnginesSpec => []RuntimesAgree
<1>1. Proved!RuntimesAgree => RuntimesAgree
    BY DEF RuntimesAgree, Calculus!RuntimesAgree, Proved!RuntimesAgree, Calculus!AllClaims,
        Proved!AllClaims, Calculus!MigrationGap, Proved!MigrationGap,
        Calculus!rust_MigrationGap, Proved!rust_MigrationGap, Calculus!GapOf, Proved!GapOf,
        Calculus!verify_migration_bundle, Proved!verify_migration_bundle,
        Calculus!rust_verify_migration_bundle,
        Proved!rust_verify_migration_bundle,
        Calculus!verify_lifecycle_certificate,
        Proved!verify_lifecycle_certificate,
        Calculus!rust_verify_lifecycle_certificate,
        Proved!rust_verify_lifecycle_certificate,
        Calculus!analyze_lifecycle_transformation,
        Proved!analyze_lifecycle_transformation, Calculus!LifecycleStatus,
        Proved!LifecycleStatus, Calculus!deterministic, Proved!deterministic,
        Calculus!rust_deterministic, Proved!rust_deterministic,
        Calculus!factorization_exists, Proved!factorization_exists,
        Calculus!_first_twin, Proved!_first_twin, Calculus!Opens,
        Proved!Opens, Calculus!Decodable, Proved!Decodable
<1>2. Proved!CalculusSpec => []Proved!RuntimesAgree
    BY Proved!RuntimesReportOneGap, ProvedAssumption, WorldsAssumption, PTL
<1> QED BY <1>1, <1>2, EnginesRunTheCalculus, SameCalculus, PTL

\* The tables of a catalogue have integer costs, and the mechanisms they admit.
LEMMA TablesAreTabled == EnginesSpec => []Proved!Tabled
<1>1. EnginesInit => Proved!Tabled
    <2>1. ASSUME catalogue \in Catalogue PROVE Proved!Tabled
        BY <2>1 DEF Proved!Tabled, TableOf, Catalogue
    <2> QED BY <2>1, CataloguesAssumption DEF EnginesInit, FrontEndsInit, Init
<1>2. Proved!Tabled /\ [EnginesNext]_<<vars, designVars, calculusState>> => Proved!Tabled'
    BY CatalogueStays DEF Proved!Tabled, TableOf
<1> QED BY <1>1, <1>2, PTL DEF EnginesSpec

LEMMA CalculusIsWitnessed == EnginesSpec => []Calculus!WitnessesExist
<1>1. Proved!WitnessesExist => Calculus!WitnessesExist
    <2>1. Calculus!Unlimited = Proved!Unlimited
        BY SameSeparation, SameCardinality DEF Calculus!Unlimited, Proved!Unlimited
    <2>2. Calculus!verify_contract_certificate(certificate)
              <=> Proved!verify_contract_certificate(certificate)
        BY <2>1, SameAnswers
        DEF Calculus!verify_contract_certificate, Proved!verify_contract_certificate
    <2>3. \A set : Calculus!Joint(set) = Proved!Joint(set)
        BY DEF Calculus!Joint, Proved!Joint
    <2> QED BY <2>2, <2>3 DEF Calculus!WitnessesExist, Proved!WitnessesExist
<1>2. Proved!Tabled /\ Proved!CalculusSpec => []Proved!WitnessesExist
    BY Proved!CertificatesAreWitnessed, ProvedAssumption, WorldsAssumption, PTL
<1> QED BY <1>1, <1>2, TablesAreTabled, EnginesRunTheCalculus, SameCalculus, PTL

\* The witnesses promised by the calculus and by the pipeline exist, for any
\* catalogue (information_order.py:208-330, core/finite_backend.py:158-185).
THEOREM EnginesWitnesses == EnginesSpec => []WitnessesExist
BY CalculusIsWitnessed, EnginesRunThePipeline, MinimalityHasWitnesses, PTL DEF WitnessesExist

(***************************************************************************)
(* Agreement of the three engines.                                         *)
(***************************************************************************)

\* The pipeline is asked when the calculus has answered.
AskedInv ==
    /\ certificate.status \in {"none", "REFUSED", "ANALYSIS_INCOMPLETE", "EVIDENCE_GAP",
                               "STOP_ITERATION", "CONTRACT"}
    /\ step # "start" => certificate.status \notin {"none", "ANALYSIS_INCOMPLETE"}

LEMMA CalculusAnswers == EnginesSpec => []AskedInv
<1>1. EnginesInit => AskedInv
    BY DEF EnginesInit, FrontEndsInit, DesignInit, Calculus!CalculusInit, Calculus!NoCertificate,
           Calculus!Answer, AskedInv
<1>2. AskedInv /\ [EnginesNext]_<<vars, designVars, calculusState>> => AskedInv'
    <2> SUFFICES ASSUME AskedInv, [EnginesNext]_<<vars, designVars, calculusState>>
                 PROVE  AskedInv'
        OBVIOUS
    <2>1. ASSUME UNCHANGED certificate, step' = "start" => step = "start",
                 step' # step => certificate.status \notin {"none", "ANALYSIS_INCOMPLETE"}
          PROVE  AskedInv'
        BY <2>1 DEF AskedInv
    <2>2. CASE Next /\ UNCHANGED <<designVars, calculusState>>
        BY <2>1, <2>2 DEF designVars, calculusState
    <2>3. CASE Ask
        <3>1. PICK limit \in StateLimits : Calculus!Compile(limit)
            BY <2>3 DEF Ask
        <3>2. certificate'.status \in {"REFUSED", "ANALYSIS_INCOMPLETE", "EVIDENCE_GAP",
                                       "STOP_ITERATION", "CONTRACT"}
            BY <3>1 DEF Calculus!Compile, Calculus!compile_minimum_contract, Calculus!Answer,
                        Calculus!Contract
        <3>3. step' = "start"
            BY <2>3 DEF Ask, designVars
        <3> QED BY <3>2, <3>3 DEF AskedInv
    <2>4. CASE Follow
        <3>1. UNCHANGED <<certificate, step>>
            BY <2>4 DEF Follow, Calculus!Capture, Calculus!NextPoint, Calculus!Migrate,
                   Calculus!MigrateWith, designVars
        <3> QED BY <2>1, <3>1
    <2>5. CASE Design
        <3>1. UNCHANGED certificate /\ certificate.status \notin {"none", "ANALYSIS_INCOMPLETE"}
            BY <2>5 DEF Design, calculusState
        <3> QED BY <3>1 DEF AskedInv
    <2>6. CASE UNCHANGED <<vars, designVars, calculusState>>
        BY <2>1, <2>6 DEF designVars, calculusState
    <2> QED BY <2>2, <2>3, <2>4, <2>5, <2>6 DEF EnginesNext
<1> QED BY <1>1, <1>2, PTL DEF EnginesSpec

\* Asked the same question, both programs have the same sets to choose from ...
LEMMA SameSufficientSets ==
    ASSUME catalogue.trusted = Mechanisms
    PROVE  Proved!sufficient_contracts = {s \in ClosedSets(Mechanisms) : Determinate(s)}
<1>1. \A s : Proved!closed(s) <=> \A k \in s : catalogue.requires[k] \subseteq s
    BY DEF Proved!closed, TableOf
<1>2. ASSUME NEW s PROVE s \subseteq Proved!feasible_mechanisms /\ Proved!closed(s)
                             <=> s \in ClosedSets(Mechanisms)
    <2>1. Proved!feasible_mechanisms
              = {k \in Mechanisms : \E t \in SUBSET Mechanisms : k \in t /\ Proved!closed(t)}
        BY DEF Proved!feasible_mechanisms, TableOf
    <2> QED BY <1>1, <2>1 DEF ClosedSets
<1>3. ASSUME NEW s, s \subseteq Proved!feasible_mechanisms
      PROVE  Proved!missing(s) = {} <=> Determinate(s)
    <2>1. Proved!missing(s) = {} <=> Proved!Refines(Proved!Joint(s), catalogue.answer)
        BY <1>3, Proved!HittingIsRefinement, ProvedAssumption, WorldsAssumption DEF TableOf
    <2>2. ASSUME NEW a \in Worlds, NEW b \in Worlds
          PROVE  Proved!Joint(s)[a] = Proved!Joint(s)[b]
                     <=> \A k \in s : catalogue.observe[k][a] = catalogue.observe[k][b]
        <3>1. Proved!Joint(s)[a] = Proved!Joint(s)[b]
                  <=> \A k \in s : TableOf(catalogue).observe[k][a]
                                        = TableOf(catalogue).observe[k][b]
            BY Proved!JointObservation, ProvedAssumption, WorldsAssumption
        <3>2. TableOf(catalogue).observe = catalogue.observe
            BY DEF TableOf
        <3> QED BY <3>1, <3>2
    <2> QED BY <2>1, <2>2 DEF Proved!Refines, Determinate, IsTwin, SameObservation
<1>4. \A s : s \in Proved!sufficient_contracts
          <=> s \subseteq Proved!feasible_mechanisms /\ Proved!closed(s) /\ Proved!missing(s) = {}
    BY DEF Proved!sufficient_contracts, Proved!candidate_contracts
<1> QED BY <1>2, <1>3, <1>4

\* ... and the same preference among them.
LEMMA SameOrder ==
    ASSUME NEW s, NEW t PROVE Proved!tie_break(s, t) <=> Preferred(s, t)
<1>1. \A set : Proved!cost(set) = weight(set)
    BY DEF Proved!cost, weight, Proved!TotalCost, TotalCost, Proved!MapThenSumSet, MapThenSumSet,
        Proved!MapThenFoldSet, MapThenFoldSet, TableOf
<1>2. \A set : Proved!Cardinality(set) = Cardinality(set)
    BY DEF Proved!Cardinality, Cardinality
<1>3. Proved!LexicallyBefore(s, t) <=> LexicallyBefore(s, t)
    BY DEF Proved!LexicallyBefore, LexicallyBefore
<1> QED BY <1>1, <1>2, <1>3 DEF Proved!tie_break, Preferred, EnumeratedBefore

\* A preferred set is the only one.
LEMMA PreferredIsUnique ==
    ASSUME catalogue \in Catalogue, NEW s \in SUBSET Mechanisms, NEW t \in SUBSET Mechanisms,
           Preferred(s, t), Preferred(t, s)
    PROVE  FALSE
<1>1. /\ weight(s) \in Nat /\ weight(t) \in Nat /\ s \in SUBSET Nat /\ t \in SUBSET Nat
      /\ Cardinality(s) \in Nat /\ Cardinality(t) \in Nat
    BY Weights
<1>2. LexicallyBefore(s, t) /\ LexicallyBefore(t, s)
    BY <1>1 DEF Preferred, EnumeratedBefore
<1>3. s # t
    BY <1>2, LexicallyStrict
<1> QED BY <1>1, <1>2, <1>3, LexicallyTotal

LEMMA EnginesConcur ==
    ASSUME SearchInv, BudgetInv, AskedInv, FrontEndsAgree,
           Proved!Justified(certificate), Calculus!WitnessesExist,
           step = "plan" \/ verdict = "EVIDENCE_GAP" => step # "start"
    PROVE  EnginesAgree
<1> SUFFICES ASSUME SameQuestion, certificate.status # "REFUSED"
             PROVE  /\ step = "plan" =>
                           certificate.status = "CONTRACT" /\ certificate.selected = chosen
                    /\ verdict = "EVIDENCE_GAP" => certificate.status = "EVIDENCE_GAP"
    BY DEF EnginesAgree
<1> DEFINE sufficient == {s \in ClosedSets(candidates) : Determinate(s)}
<1>1. /\ candidates = Mechanisms /\ Proved!sufficient_contracts = sufficient
      /\ sufficient \subseteq SUBSET Mechanisms
    BY SameSufficientSets DEF SameQuestion, ClosedSets
<1>2. ASSUME step # "start" PROVE certificate.status \in {"EVIDENCE_GAP", "CONTRACT"}
    BY <1>2 DEF AskedInv, Calculus!WitnessesExist
<1>3. certificate.status = "EVIDENCE_GAP" => sufficient = {}
    BY <1>1 DEF Proved!Justified
<1>4. certificate.status = "CONTRACT" =>
          /\ certificate.selected \in sufficient
          /\ \A s \in sufficient \ {certificate.selected} : Preferred(certificate.selected, s)
    BY <1>1, SameOrder DEF Proved!Justified
<1>5. ASSUME step = "plan"
      PROVE  certificate.status = "CONTRACT" /\ certificate.selected = chosen
    <2>1. chosen \in sufficient /\ \A s \in sufficient \ {chosen} : Preferred(chosen, s)
        BY <1>5 DEF SearchInv, SearchIsExhaustive
    <2>2. certificate.status = "CONTRACT"
        BY <1>2, <1>3, <1>5, <2>1
    <2>3. certificate.selected = chosen
        <3> SUFFICES ASSUME certificate.selected # chosen PROVE FALSE
            OBVIOUS
        <3>1. Preferred(chosen, certificate.selected) /\ Preferred(certificate.selected, chosen)
            BY <1>4, <2>1, <2>2
        <3> QED BY <1>1, <1>4, <2>1, <2>2, <3>1, PreferredIsUnique DEF BudgetInv
    <2> QED BY <2>2, <2>3
<1>6. ASSUME verdict = "EVIDENCE_GAP" PROVE certificate.status = "EVIDENCE_GAP"
    <2>1. sufficient = {}
        BY <1>6 DEF SearchInv, SearchIsExhaustive
    <2> QED BY <1>2, <1>4, <1>6, <2>1
<1> QED BY <1>5, <1>6

\* Asked the same question about any catalogue, the calculus and the pipeline
\* return the very same contract, or both find that there is none, and the
\* compiler returns one of the same weight (compiler.py:299-374,
\* core/finite_backend.py:86-136, core/information_order.py:208-236).
THEOREM EnginesConverge == EnginesSpec => []EnginesAgree
<1>1. SearchInv => (step = "plan" \/ verdict = "EVIDENCE_GAP" => step # "start")
    BY DEF SearchInv, BeforeSearch
<1>2. Proved!CalculusSpec => []Proved!Justified(certificate)
    BY Proved!JustifiedIsKept, ProvedAssumption, WorldsAssumption, PTL
<1> QED BY <1>1, <1>2, EnginesConcur, EnginesRunThePipeline, FrontEndsInvariant, FrontEndsConverge,
           CalculusAnswers, CalculusIsWitnessed, EnginesRunTheCalculus, SameCalculus, PTL
=============================================================================
