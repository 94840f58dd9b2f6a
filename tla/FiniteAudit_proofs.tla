-------------------------- MODULE FiniteAudit_proofs --------------------------
(***************************************************************************)
(* What the engines' proofs have in common: sums over finite sets of any   *)
(* size, the order in which the code sorts sets of mechanisms, and least   *)
(* members of finite sets under such an order.                             *)
(***************************************************************************)
EXTENDS FiniteAudit, FiniteSetTheorems, WellFoundedInduction, TLAPS

(***************************************************************************)
(* Least numbers and minimal counterexamples                               *)
(***************************************************************************)

\* A nonempty set of natural numbers has a least member.
LEMMA LeastNumber ==
    ASSUME NEW N \in SUBSET Nat, N # {}
    PROVE  \E n \in N : \A m \in N : n <= m
<1>1. PICK n \in N : \A m \in N : <<m, n>> \notin OpToRel(<, Nat)
  BY WFMin, NatLessThanWellFounded, Zenon
<1>2. \A m \in N : ~(m < n)
  BY <1>1, Zenon DEF OpToRel
<1> QED BY <1>2

\* A nonempty set of finite sets has a member with fewest elements.
LEMMA SmallestSet ==
    ASSUME NEW sets, sets # {}, \A s \in sets : IsFiniteSet(s)
    PROVE  \E s \in sets : \A t \in sets : Cardinality(s) <= Cardinality(t)
<1> DEFINE sizes == {Cardinality(s) : s \in sets}
<1>1. sizes \in SUBSET Nat /\ sizes # {}
  BY FS_CardinalityType
<1> HIDE DEF sizes
<1>2. PICK n \in sizes : \A m \in sizes : n <= m
  BY <1>1, LeastNumber
<1> USE DEF sizes
<1>3. PICK s \in sets : n = Cardinality(s)
  OBVIOUS
<1> QED BY <1>2, <1>3

\* Taking a member out of a finite set.
LEMMA OneFewer ==
    ASSUME NEW set, IsFiniteSet(set), NEW x \in set
    PROVE  /\ IsFiniteSet(set \ {x})
           /\ Cardinality(set \ {x}) < Cardinality(set)
           /\ Cardinality(set \ {x}) = Cardinality(set) - 1
           /\ Cardinality(set \ {x}) \in Nat /\ Cardinality(set) \in Nat
  BY FS_RemoveElement, FS_CardinalityType

(***************************************************************************)
(* Sums                                                                    *)
(***************************************************************************)

\* One member of a set, and the partial sums over the subsets of a set.
Some(set) == CHOOSE k \in set : TRUE

IsSum(sum, cost, set) ==
    sum = [s \in SUBSET set |-> IF s = {} THEN 0 ELSE cost[Some(s)] + sum[s \ {Some(s)}]]

LEMMA SomeMember == \A set : set # {} => Some(set) \in set
  BY DEF Some

\* The recursion has a solution: by size, one subset after the other.
LEMMA SumExists ==
    ASSUME NEW cost, NEW set, IsFiniteSet(set)
    PROVE  \E sum : IsSum(sum, cost, set)
<1> DEFINE UpTo(n) == {s \in SUBSET set : Cardinality(s) <= n}
           Partial(sum, n) ==
               sum = [s \in UpTo(n) |->
                         IF s = {} THEN 0 ELSE cost[Some(s)] + sum[s \ {Some(s)}]]
           without == {n \in Nat : ~\E sum : Partial(sum, n)}
<1>1. \A s \in SUBSET set : IsFiniteSet(s) /\ Cardinality(s) \in Nat
  BY FS_Subset, FS_CardinalityType
<1>2. ASSUME without # {} PROVE FALSE
  <2>1. without \in SUBSET Nat
    OBVIOUS
  <2>2. PICK n \in without : \A m \in without : n <= m
    BY <1>2, <2>1, LeastNumber
  <2>3. CASE n = 0
    <3>1. \A s \in UpTo(0) : s = {}
      BY <1>1, FS_EmptySet
    <3>2. Partial([s \in UpTo(0) |-> 0], 0)
      BY <3>1
    <3> QED BY <2>2, <2>3, <3>2
  <2>4. CASE n # 0
    <3>1. n - 1 \in Nat /\ n - 1 \notin without
      <4> HIDE DEF Partial
      <4>1. n \in Nat
        BY <2>2
      <4>2. n - 1 \in Nat /\ ~(n <= n - 1)
        BY <2>4, <4>1
      <4> QED BY <2>2, <4>2
    <3>2. PICK fewer : Partial(fewer, n - 1)
      BY <3>1
    <3> DEFINE sum == [s \in UpTo(n) |->
                          IF s = {} THEN 0 ELSE cost[Some(s)] + fewer[s \ {Some(s)}]]
    <3>3. ASSUME NEW s \in UpTo(n), s # {}
          PROVE  sum[s \ {Some(s)}] = fewer[s \ {Some(s)}]
      <4>1. s \ {Some(s)} \in SUBSET set /\ Cardinality(s \ {Some(s)}) <= n - 1
        BY <1>1, <3>1, <3>3, SomeMember, OneFewer
      <4>2. Cardinality(s \ {Some(s)}) <= n
        BY <1>1, <3>1, <4>1
      <4> QED BY <3>2, <4>1, <4>2
    <3>4. sum = [s \in UpTo(n) |->
                    IF s = {} THEN 0 ELSE cost[Some(s)] + sum[s \ {Some(s)}]]
      <4> DEFINE again == [s \in UpTo(n) |->
                              IF s = {} THEN 0 ELSE cost[Some(s)] + sum[s \ {Some(s)}]]
      <4>1. \A s \in UpTo(n) : sum[s] = again[s]
        BY <3>3
      <4> QED BY <4>1
    <3>5. Partial(sum, n)
      BY <3>4
    <3> HIDE DEF sum, Partial
    <3> QED BY <2>2, <3>5
  <2> QED BY <2>3, <2>4
<1>3. Cardinality(set) \in Nat /\ UpTo(Cardinality(set)) = SUBSET set
  BY <1>1, FS_CardinalityType, FS_Subset
<1>4. PICK sum : Partial(sum, Cardinality(set))
  BY <1>2, <1>3
<1> QED BY <1>3, <1>4 DEF IsSum

LEMMA SumStep ==
    ASSUME NEW cost, NEW set, NEW sum, IsSum(sum, cost, set), NEW s \in SUBSET set
    PROVE  sum[s] = IF s = {} THEN 0 ELSE cost[Some(s)] + sum[s \ {Some(s)}]
  BY DEF IsSum

\* Sums over two sets agree on what the sets have in common.
LEMMA SumsAgree ==
    ASSUME NEW cost, NEW S, NEW T, IsFiniteSet(S), NEW f, NEW g,
           IsSum(f, cost, S), IsSum(g, cost, T), NEW s \in SUBSET S, s \in SUBSET T
    PROVE  f[s] = g[s]
<1> DEFINE wrong == {t \in SUBSET s : f[t] # g[t]}
<1>1. ASSUME wrong # {} PROVE FALSE
  <2>1. \A t \in wrong : IsFiniteSet(t)
    BY FS_Subset
  <2>2. PICK t \in wrong : \A u \in wrong : Cardinality(t) <= Cardinality(u)
    BY <1>1, <2>1, SmallestSet
  <2>3. /\ f[t] = IF t = {} THEN 0 ELSE cost[Some(t)] + f[t \ {Some(t)}]
        /\ g[t] = IF t = {} THEN 0 ELSE cost[Some(t)] + g[t \ {Some(t)}]
    BY SumStep
  <2>4. t # {}
    BY <2>2, <2>3
  <2>5. t \ {Some(t)} \notin wrong
    BY <2>1, <2>2, <2>4, SomeMember, OneFewer
  <2> QED BY <2>2, <2>3, <2>4, <2>5
<1> QED BY <1>1

LEMMA TotalIsSum ==
    ASSUME NEW cost, NEW set, IsFiniteSet(set)
    PROVE  \E sum : IsSum(sum, cost, set) /\ TotalCost(cost, set) = sum[set]
<1>1. TotalCost(cost, set) = (CHOOSE sum : IsSum(sum, cost, set))[set]
  BY DEF TotalCost, MapThenSumSet, MapThenFoldSet, IsSum, Some
<1>2. IsSum(CHOOSE sum : IsSum(sum, cost, set), cost, set)
  BY SumExists
<1> QED BY <1>1, <1>2

\* The equations of a sum.
LEMMA TotalOfNothing == ASSUME NEW cost PROVE TotalCost(cost, {}) = 0
<1>1. PICK sum : IsSum(sum, cost, {}) /\ TotalCost(cost, {}) = sum[{}]
  BY TotalIsSum, FS_EmptySet
<1> QED BY <1>1, SumStep

LEMMA TotalOfSome ==
    ASSUME NEW cost, NEW set, IsFiniteSet(set), set # {}
    PROVE  TotalCost(cost, set) = cost[Some(set)] + TotalCost(cost, set \ {Some(set)})
<1> DEFINE rest == set \ {Some(set)}
<1>1. IsFiniteSet(rest) /\ rest \in SUBSET set
  BY FS_Subset
<1>2. PICK f : IsSum(f, cost, set) /\ TotalCost(cost, set) = f[set]
  BY TotalIsSum
<1>3. PICK g : IsSum(g, cost, rest) /\ TotalCost(cost, rest) = g[rest]
  BY <1>1, TotalIsSum
<1>4. f[rest] = g[rest]
  BY <1>1, <1>2, <1>3, SumsAgree
<1>5. f[set] = cost[Some(set)] + f[rest]
  BY <1>2, SumStep
<1> QED BY <1>2, <1>3, <1>4, <1>5

\* A sum of natural numbers is one, ...
LEMMA TotalIsNatural ==
    ASSUME NEW cost, NEW set, IsFiniteSet(set), \A k \in set : cost[k] \in Nat
    PROVE  TotalCost(cost, set) \in Nat
<1> DEFINE wrong == {s \in SUBSET set : TotalCost(cost, s) \notin Nat}
<1>1. ASSUME wrong # {} PROVE FALSE
  <2>1. \A s \in wrong : IsFiniteSet(s)
    BY FS_Subset
  <2>2. PICK s \in wrong : \A t \in wrong : Cardinality(s) <= Cardinality(t)
    BY <1>1, <2>1, SmallestSet
  <2>3. s # {}
    BY <2>2, TotalOfNothing
  <2>4. s \ {Some(s)} \notin wrong /\ Some(s) \in s
    BY <2>1, <2>2, <2>3, SomeMember, OneFewer
  <2>5. TotalCost(cost, s \ {Some(s)}) \in Nat /\ cost[Some(s)] \in Nat
    BY <2>4
  <2> QED BY <2>1, <2>2, <2>3, <2>5, TotalOfSome
<1> QED BY <1>1

\* ... whose terms may be taken in any order, ...
LEMMA TotalWithout ==
    ASSUME NEW cost, NEW set, IsFiniteSet(set), \A k \in set : cost[k] \in Nat, NEW x \in set
    PROVE  TotalCost(cost, set) = cost[x] + TotalCost(cost, set \ {x})
<1> DEFINE wrong == {s \in SUBSET set :
                        \E k \in s : TotalCost(cost, s) # cost[k] + TotalCost(cost, s \ {k})}
<1>1. ASSUME wrong # {} PROVE FALSE
  <2>1. \A s \in SUBSET set : IsFiniteSet(s)
    BY FS_Subset
  <2>2. PICK s \in wrong : \A t \in wrong : Cardinality(s) <= Cardinality(t)
    BY <1>1, <2>1, SmallestSet
  <2>3. PICK k \in s : TotalCost(cost, s) # cost[k] + TotalCost(cost, s \ {k})
    BY <2>2
  <2> DEFINE first == Some(s)
  <2>4. first \in s
    BY <2>3, SomeMember
  <2>5. TotalCost(cost, s) = cost[first] + TotalCost(cost, s \ {first})
    BY <2>1, <2>3, TotalOfSome
  <2>6. first # k
    BY <2>3, <2>5
  <2> HIDE DEF first
  <2>7. s \ {k} \notin wrong /\ s \ {first} \notin wrong
    <3>1. /\ Cardinality(s \ {k}) < Cardinality(s)
          /\ Cardinality(s \ {first}) < Cardinality(s)
          /\ Cardinality(s) \in Nat
          /\ Cardinality(s \ {k}) \in Nat /\ Cardinality(s \ {first}) \in Nat
      BY <2>1, <2>2, <2>3, <2>4, OneFewer
    <3> HIDE DEF wrong
    <3> QED BY <2>2, <3>1
  <2>8. /\ TotalCost(cost, s \ {first}) = cost[k] + TotalCost(cost, (s \ {first}) \ {k})
        /\ TotalCost(cost, s \ {k}) = cost[first] + TotalCost(cost, (s \ {k}) \ {first})
    BY <2>4, <2>6, <2>7
  <2>9. (s \ {first}) \ {k} = (s \ {k}) \ {first}
    OBVIOUS
  <2>10. /\ cost[first] \in Nat /\ cost[k] \in Nat
         /\ TotalCost(cost, (s \ {k}) \ {first}) \in Nat
    BY <2>1, <2>4, TotalIsNatural
  <2>11. \A a, b, r \in Nat : a + (b + r) = b + (a + r)
    OBVIOUS
  <2>12. TotalCost(cost, s) = cost[first] + (cost[k] + TotalCost(cost, (s \ {k}) \ {first}))
    BY <2>5, <2>8, <2>9
  <2> QED BY <2>3, <2>8, <2>10, <2>11, <2>12
<1> QED BY <1>1

\* ... and of which a part is not more than the whole.
LEMMA TotalOfSubset ==
    ASSUME NEW cost, NEW set, IsFiniteSet(set), \A k \in set : cost[k] \in Nat,
           NEW part \in SUBSET set
    PROVE  TotalCost(cost, part) <= TotalCost(cost, set)
<1> DEFINE wrong == {s \in SUBSET set : part \subseteq s
                                        /\ ~(TotalCost(cost, part) <= TotalCost(cost, s))}
<1>1. \A s \in SUBSET set : IsFiniteSet(s) /\ TotalCost(cost, s) \in Nat
  BY FS_Subset, TotalIsNatural
<1>2. ASSUME wrong # {} PROVE FALSE
  <2>1. PICK s \in wrong : \A t \in wrong : Cardinality(s) <= Cardinality(t)
    BY <1>1, <1>2, SmallestSet
  <2>2. PICK k \in s : k \notin part
    BY <1>1, <2>1
  <2>3. s \ {k} \notin wrong
    BY <1>1, <2>1, <2>2, OneFewer
  <2>4. TotalCost(cost, part) <= TotalCost(cost, s \ {k})
    BY <2>1, <2>2, <2>3
  <2>5. TotalCost(cost, s) = cost[k] + TotalCost(cost, s \ {k}) /\ cost[k] \in Nat
    BY <1>1, <2>1, <2>2, TotalWithout
  <2> QED BY <1>1, <2>1, <2>4, <2>5
<1> QED BY <1>2

(***************************************************************************)
(* The order of sorted tuples of names                                     *)
(***************************************************************************)

\* The first name that two sets do not have in common.
FirstDifference(s, t, d) ==
    /\ d \in (s \ t) \cup (t \ s)
    /\ \A x \in (s \ t) \cup (t \ s) : d <= x

LEMMA DifferenceExists ==
    ASSUME NEW s \in SUBSET Nat, NEW t \in SUBSET Nat, s # t
    PROVE  \E d \in Nat : FirstDifference(s, t, d)
<1>1. (s \ t) \cup (t \ s) \in SUBSET Nat /\ (s \ t) \cup (t \ s) # {}
  OBVIOUS
<1> QED BY <1>1, LeastNumber DEF FirstDifference

LEMMA LexicallyAt ==
    ASSUME NEW s \in SUBSET Nat, NEW t \in SUBSET Nat, NEW d \in Nat, FirstDifference(s, t, d)
    PROVE  /\ LexicallyBefore(s, t) <=> IF d \in s THEN \E x \in t : x > d
                                        ELSE ~\E x \in s : x > d
           /\ \A x \in Nat : x < d => (x \in s <=> x \in t)
           /\ d \in s <=> d \notin t
<1> DEFINE first == CHOOSE x \in (s \ t) \cup (t \ s) : \A y \in (s \ t) \cup (t \ s) : x <= y
<1>1. first = d
  <2>1. \E x \in (s \ t) \cup (t \ s) : \A y \in (s \ t) \cup (t \ s) : x <= y
    BY DEF FirstDifference
  <2>2. first \in (s \ t) \cup (t \ s) /\ \A y \in (s \ t) \cup (t \ s) : first <= y
    BY <2>1
  <2>3. first <= d /\ d <= first /\ first \in Nat
    BY <2>2 DEF FirstDifference
  <2> HIDE DEF first
  <2> QED BY <2>3
<1>2. s # t
  BY DEF FirstDifference
<1>3. LexicallyBefore(s, t) <=> IF d \in s THEN \E x \in t : x > d ELSE ~\E x \in s : x > d
  BY <1>1, <1>2 DEF LexicallyBefore
<1>4. \A x \in Nat : x < d => (x \in s <=> x \in t)
  <2> SUFFICES ASSUME NEW x \in Nat, x < d, ~(x \in s <=> x \in t) PROVE FALSE
    OBVIOUS
  <2>1. d <= x
    BY DEF FirstDifference
  <2> QED BY <2>1
<1> QED BY <1>3, <1>4 DEF FirstDifference

\* Any two different sets are in order one way round, and only one.
LEMMA LexicallyTotal ==
    ASSUME NEW s \in SUBSET Nat, NEW t \in SUBSET Nat, s # t
    PROVE  LexicallyBefore(s, t) <=> ~LexicallyBefore(t, s)
<1>1. PICK d \in Nat : FirstDifference(s, t, d)
  BY DifferenceExists
<1>2. FirstDifference(t, s, d)
  BY <1>1 DEF FirstDifference
<1>3. /\ LexicallyBefore(s, t) <=> IF d \in s THEN \E x \in t : x > d ELSE ~\E x \in s : x > d
      /\ LexicallyBefore(t, s) <=> IF d \in t THEN \E x \in s : x > d ELSE ~\E x \in t : x > d
      /\ d \in s <=> d \notin t
  BY <1>1, <1>2, LexicallyAt
<1> QED BY <1>3

LEMMA LexicallyStrict == ASSUME NEW s, NEW t, LexicallyBefore(s, t) PROVE s # t
  BY DEF LexicallyBefore

LEMMA LexicallyTransitive ==
    ASSUME NEW s \in SUBSET Nat, NEW t \in SUBSET Nat, NEW u \in SUBSET Nat,
           LexicallyBefore(s, t), LexicallyBefore(t, u)
    PROVE  LexicallyBefore(s, u)
<1>1. PICK d \in Nat : FirstDifference(s, t, d)
  BY DifferenceExists, LexicallyStrict
<1>2. PICK e \in Nat : FirstDifference(t, u, e)
  BY DifferenceExists, LexicallyStrict
<1>3. /\ IF d \in s THEN \E x \in t : x > d ELSE ~\E x \in s : x > d
      /\ \A x \in Nat : x < d => (x \in s <=> x \in t)
      /\ d \in s <=> d \notin t
  BY <1>1, LexicallyAt
<1>4. /\ IF e \in t THEN \E x \in u : x > e ELSE ~\E x \in t : x > e
      /\ \A x \in Nat : x < e => (x \in t <=> x \in u)
      /\ e \in t <=> e \notin u
  BY <1>2, LexicallyAt
<1>5. CASE d < e
  <2>1. d \in t <=> d \in u
    BY <1>4, <1>5
  <2>2. FirstDifference(s, u, d)
    <3>1. \A x \in Nat : x < d => (x \in s <=> x \in u)
      BY <1>3, <1>4, <1>5
    <3> QED BY <1>3, <2>1, <3>1 DEF FirstDifference
  <2>3. d \in s => \E x \in u : x > d
    <3>1. CASE e \in t
      BY <1>4, <1>5, <3>1
    <3>2. CASE e \in u
      BY <1>5, <3>2
    <3> QED BY <1>4, <3>1, <3>2
  <2> QED BY <1>3, <2>2, <2>3, LexicallyAt
<1>6. CASE e < d
  <2>1. e \in s <=> e \in t
    BY <1>3, <1>6
  <2>2. FirstDifference(s, u, e)
    <3>1. \A x \in Nat : x < e => (x \in s <=> x \in u)
      BY <1>3, <1>4, <1>6
    <3> QED BY <1>4, <2>1, <3>1 DEF FirstDifference
  <2>3. CASE e \in t
    BY <1>4, <2>1, <2>2, <2>3, LexicallyAt
  <2>4. CASE e \notin t
    <3>1. \A x \in t : ~(x > e)
      BY <1>4, <2>4
    <3>2. d \in s
      BY <1>3, <1>6, <3>1
    <3>3. \E x \in t : x > d
      BY <1>3, <3>2
    <3> QED BY <1>6, <3>1, <3>3
  <2> QED BY <2>3, <2>4
<1>7. CASE d = e
  <2>1. CASE d \in s
    BY <1>3, <1>4, <1>7, <2>1
  <2>2. CASE d \notin s
    <3>1. d \in t /\ d \notin u /\ \A x \in s : ~(x > d)
      BY <1>3, <1>4, <1>7, <2>2
    <3>2. PICK y \in u : y > d
      BY <1>4, <1>7, <3>1
    <3>3. y \notin s
      BY <3>1, <3>2
    <3>4. PICK f \in Nat : FirstDifference(s, u, f)
      BY <3>2, <3>3, DifferenceExists
    <3>5. \A x \in Nat : x < d => (x \in s <=> x \in u)
      BY <1>3, <1>4, <1>7
    <3>6. f > d
      <4>1. f \in s <=> f \notin u
        BY <3>4, LexicallyAt
      <4>2. ~(f < d)
        BY <3>5, <4>1
      <4>3. f # d
        BY <2>2, <3>1, <4>1
      <4> QED BY <4>2, <4>3
    <3>7. f \notin s /\ \A x \in s : ~(x > f)
      BY <3>1, <3>6
    <3> QED BY <3>4, <3>7, LexicallyAt
  <2> QED BY <2>1, <2>2
<1> QED BY <1>5, <1>6, <1>7

(***************************************************************************)
(* Least members                                                           *)
(***************************************************************************)

IsOrder(order, set) ==
    /\ \A s, t \in set : s # t => <<s, t>> \in order \/ <<t, s>> \in order
    /\ \A s, t, u \in set : <<s, t>> \in order /\ <<t, u>> \in order => <<s, u>> \in order

IsLeast(s, order, set) == s \in set /\ \A t \in set \ {s} : <<s, t>> \in order

\* A nonempty finite set has a least member in a total and transitive order.
LEMMA LeastMember ==
    ASSUME NEW set, IsFiniteSet(set), set # {}, NEW order, IsOrder(order, set)
    PROVE  \E s : IsLeast(s, order, set)
<1> USE DEF IsOrder, IsLeast
<1> DEFINE HasLeast(part) == \E s \in part : \A t \in part \ {s} : <<s, t>> \in order
           wrong == {part \in SUBSET set : part # {} /\ ~HasLeast(part)}
<1>1. ASSUME wrong # {} PROVE FALSE
  <2>1. \A part \in wrong : IsFiniteSet(part)
    BY FS_Subset
  <2>2. PICK part \in wrong : \A other \in wrong : Cardinality(part) <= Cardinality(other)
    BY <1>1, <2>1, SmallestSet
  <2>3. PICK x \in part : TRUE
    BY <2>2
  <2> DEFINE rest == part \ {x}
  <2>4. rest \notin wrong
    <3>1. /\ Cardinality(rest) < Cardinality(part)
          /\ Cardinality(rest) \in Nat /\ Cardinality(part) \in Nat
      BY <2>1, <2>2, <2>3, OneFewer
    <3> HIDE DEF wrong, rest
    <3> QED BY <2>2, <3>1
  <2>5. CASE rest = {}
    BY <2>2, <2>3, <2>5
  <2>6. CASE rest # {}
    <3>1. PICK s \in rest : \A t \in rest \ {s} : <<s, t>> \in order
      BY <2>2, <2>4, <2>6
    <3>2. <<s, x>> \in order \/ <<x, s>> \in order
      BY <2>2, <2>3, <3>1
    <3>3. CASE <<s, x>> \in order
      <4>1. \A t \in part \ {s} : <<s, t>> \in order
        BY <3>1, <3>3
      <4> QED BY <2>2, <3>1, <4>1
    <3>4. CASE <<x, s>> \in order
      <4>1. \A t \in part \ {x} : <<x, t>> \in order
        <5> TAKE t \in part \ {x}
        <5>1. CASE t = s
          BY <3>4, <5>1
        <5>2. CASE t # s
          <6>1. <<s, t>> \in order
            BY <3>1, <5>2
          <6> QED BY <2>2, <2>3, <3>1, <3>4, <6>1
        <5> QED BY <5>1, <5>2
      <4> QED BY <2>2, <2>3, <4>1
    <3> QED BY <3>2, <3>3, <3>4
  <2> QED BY <2>5, <2>6
<1> QED BY <1>1

=============================================================================
