------------------------ MODULE InformationOrder_proofs ------------------------
(***************************************************************************)
(* Proofs about the calculus, for any rows, mechanisms, channels and       *)
(* timelines.  The criteria of the code speak of the first row of a group  *)
(* of equal evidence, those of the Rust program of the latest one; the     *)
(* lemmas show that all of them say that equal evidence implies equal      *)
(* values, from which the two results about evidence over time follow.     *)
(***************************************************************************)
EXTENDS InformationOrder, FiniteAudit_proofs

\* Equal values of f imply equal values of g.
Refines(f, g) == \A a, b \in Worlds : f[a] = f[b] => g[a] = g[b]

\* Every group of equal evidence has a first row (_partition,
\* information_order.py:707-721).
LEMMA GroupHasFirstRow ==
    ASSUME NEW f, NEW r \in Worlds
    PROVE  \E a \in Worlds : /\ f[a] = f[r] /\ (a = r \/ Opens(f, a, r))
                             /\ \A q \in Worlds : q < a => f[q] # f[r]
<1> DEFINE Group == {q \in Worlds : f[q] = f[r]}
<1>1. Group \subseteq Nat /\ r \in Group
    BY WorldsAssumption
<1>2. PICK a \in Group : \A q \in Group : a <= q
    BY <1>1, LeastNumber
<1>3. a \in Worlds /\ f[a] = f[r] /\ a <= r
    BY <1>1, <1>2
<1>4. ASSUME NEW q \in Worlds, q < a PROVE f[q] # f[r]
    BY <1>1, <1>2, <1>4, WorldsAssumption
<1>5. a = r \/ a < r
    BY <1>1, <1>3, WorldsAssumption
<1> QED BY <1>3, <1>4, <1>5 DEF Opens

\* Comparing every row with the first of its group decides whether equal
\* evidence implies equal values (_first_twin and _lifecycle_rows).
LEMMA FirstRowsDecide ==
    ASSUME NEW f, NEW g
    PROVE  (\A a, b \in Worlds : Opens(f, a, b) => g[a] = g[b]) <=> Refines(f, g)
<1>1. ASSUME \A a, b \in Worlds : Opens(f, a, b) => g[a] = g[b],
             NEW a \in Worlds, NEW b \in Worlds, f[a] = f[b]
      PROVE  g[a] = g[b]
    <2>1. PICK x \in Worlds : /\ f[x] = f[a] /\ (x = a \/ Opens(f, x, a))
                              /\ \A q \in Worlds : q < x => f[q] # f[a]
        BY GroupHasFirstRow
    <2>2. PICK y \in Worlds : /\ f[y] = f[b] /\ (y = b \/ Opens(f, y, b))
                              /\ \A q \in Worlds : q < y => f[q] # f[b]
        BY GroupHasFirstRow
    <2>3. x = y
        BY <1>1, <2>1, <2>2, WorldsAssumption
    <2>4. g[x] = g[a] /\ g[y] = g[b]
        BY <1>1, <2>1, <2>2
    <2> QED BY <2>3, <2>4
<1> QED BY <1>1 DEF Opens, Refines

\* Comparing every row with the latest one of its group decides the same
\* (normalize_rows, information_order.rs:244-261).
LEMMA LatestRowsDecide ==
    ASSUME NEW f, NEW g
    PROVE  rust_deterministic(f, g) <=> Refines(f, g)
<1>1. SUFFICES ASSUME rust_deterministic(f, g) PROVE Refines(f, g)
    BY DEF rust_deterministic, Refines
<1> DEFINE Unequal(b) == \E a \in Worlds : a < b /\ f[a] = f[b] /\ g[a] # g[b]
           Later == {b \in Worlds : Unequal(b)}
<1>2. ASSUME Later # {} PROVE FALSE
    <2>1. PICK b \in Later : \A c \in Later : b <= c
        BY <1>2, LeastNumber, WorldsAssumption
    <2>2. PICK a \in Worlds : a < b /\ f[a] = f[b] /\ g[a] # g[b]
        BY <2>1
    <2> DEFINE Before == {n \in Nat : \E c \in Worlds : c < b /\ f[c] = f[b] /\ n = b - c}
    <2>3. b - a \in Before
        BY <2>1, <2>2, WorldsAssumption
    <2>4. PICK n \in Before : \A k \in Before : n <= k
        BY <2>3, LeastNumber
    <2>5. PICK c \in Worlds : c < b /\ f[c] = f[b] /\ n = b - c
        BY <2>4
    <2>6. ASSUME NEW r \in Worlds, c < r, r < b PROVE f[r] # f[b]
        BY <2>1, <2>4, <2>5, <2>6, WorldsAssumption
    <2>7. g[c] = g[b]
        BY <1>1, <2>1, <2>5, <2>6 DEF rust_deterministic
    <2>8. a = c \/ a < c
        BY <2>1, <2>2, <2>5, <2>6, WorldsAssumption
    <2>9. CASE a < c
        <3>1. c \in Later
            BY <2>2, <2>5, <2>7, <2>9
        <3> QED BY <3>1, <2>1, <2>5, WorldsAssumption
    <2> QED BY <2>2, <2>7, <2>8, <2>9
<1>3. ASSUME NEW a \in Worlds, NEW b \in Worlds, f[a] = f[b] PROVE g[a] = g[b]
    <2>1. a < b \/ b < a \/ a = b
        BY WorldsAssumption
    <2> QED BY <1>2, <1>3, <2>1
<1> QED BY <1>3 DEF Refines

\* The tests of the two programs, in terms of equal values.
LEMMA DeterminismIsRefinement ==
    ASSUME NEW f, NEW g
    PROVE  deterministic(f, g) <=> Refines(f, g)
BY FirstRowsDecide DEF deterministic

LEMMA FactorizationIsRefinement ==
    ASSUME NEW claim, NEW channel
    PROVE  factorization_exists(claim, channel) <=> Refines(channel, claim)
<1>1. factorization_exists(claim, channel)
          <=> \A a, b \in Worlds : Opens(channel, a, b) => claim[a] = claim[b]
    <2>1. factorization_exists(claim, channel)
              <=> \A p \in Worlds \X Worlds :
                      ~(Opens(channel, p[1], p[2]) /\ claim[p[1]] # claim[p[2]])
        BY Zenon DEF factorization_exists, _first_twin
    <2>2. ASSUME factorization_exists(claim, channel),
                 NEW a \in Worlds, NEW b \in Worlds, Opens(channel, a, b)
          PROVE  claim[a] = claim[b]
        <3>1. <<a, b>> \in Worlds \X Worlds /\ <<a, b>>[1] = a /\ <<a, b>>[2] = b
            OBVIOUS
        <3> QED BY <2>1, <2>2, <3>1
    <2>3. ASSUME \A a, b \in Worlds : Opens(channel, a, b) => claim[a] = claim[b]
          PROVE  factorization_exists(claim, channel)
        BY <2>1, <2>3
    <2> QED BY <2>2, <2>3
<1> QED BY <1>1, FirstRowsDecide

\* Two transformations of evidence that lose nothing and something: a claim that
\* the later evidence decides was decided by the earlier one.
LEMMA LossIsFinal ==
    ASSUME NEW claim, NEW f, NEW g, Refines(f, g), Refines(g, claim)
    PROVE  Refines(f, claim)
BY DEF Refines

(***************************************************************************)
(* Contracts: hitting the critical pairs is factoring the claim through    *)
(* what the mechanisms observe together.                                   *)
(***************************************************************************)

LEMMA JointObservation ==
    ASSUME NEW set, NEW a \in Worlds, NEW b \in Worlds
    PROVE  Joint(set)[a] = Joint(set)[b]
               <=> \A k \in set : table.observe[k][a] = table.observe[k][b]
<1>1. \A q \in Worlds : q \in Joint(set)[a]
          <=> \A k \in set : table.observe[k][q] = table.observe[k][a]
    BY DEF Joint
<1>2. \A q \in Worlds : q \in Joint(set)[b]
          <=> \A k \in set : table.observe[k][q] = table.observe[k][b]
    BY DEF Joint
<1>3. Joint(set)[a] \subseteq Worlds /\ Joint(set)[b] \subseteq Worlds
    BY DEF Joint
<1>4. ASSUME Joint(set)[a] = Joint(set)[b]
      PROVE  \A k \in set : table.observe[k][a] = table.observe[k][b]
    <2>1. a \in Joint(set)[a]
        BY <1>1
    <2> QED BY <2>1, <1>2, <1>4
<1>5. ASSUME \A k \in set : table.observe[k][a] = table.observe[k][b]
      PROVE  Joint(set)[a] = Joint(set)[b]
    <2>1. \A q \in Worlds : q \in Joint(set)[a] <=> q \in Joint(set)[b]
        BY <1>1, <1>2, <1>5
    <2> QED BY <2>1, <1>3
<1> QED BY <1>4, <1>5

LEMMA DecodingIsRefinement ==
    ASSUME NEW claim, NEW channel
    PROVE  Decodable(claim, channel) <=> Refines(channel, claim)
<1>1. ASSUME Decodable(claim, channel) PROVE Refines(channel, claim)
    BY <1>1 DEF Decodable, Refines
<1>2. ASSUME Refines(channel, claim) PROVE Decodable(claim, channel)
    <2> DEFINE row(v) == CHOOSE r \in Worlds : channel[r] = v
               decoder == [v \in {channel[r] : r \in Worlds} |-> claim[row(v)]]
    <2>1. \A r \in Worlds : row(channel[r]) \in Worlds /\ channel[row(channel[r])] = channel[r]
        OBVIOUS
    <2>2. \A r \in Worlds : claim[row(channel[r])] = claim[r]
        BY <1>2, <2>1 DEF Refines
    <2>3. decoder \in [{channel[r] : r \in Worlds} -> {claim[r] : r \in Worlds}]
        BY <2>1
    <2>4. \A r \in Worlds : decoder[channel[r]] = claim[r]
        BY <2>2
    <2> HIDE DEF decoder
    <2> QED BY <2>3, <2>4 DEF Decodable
<1> QED BY <1>1, <1>2

LEMMA HittingIsRefinement ==
    ASSUME NEW set, set \subseteq feasible_mechanisms
    PROVE  missing(set) = {} <=> Refines(Joint(set), table.claim)
<1>1. missing(set) = {} <=>
          \A a, b \in Worlds : a < b /\ table.claim[a] # table.claim[b] =>
              \E k \in set : table.observe[k][a] # table.observe[k][b]
    <2>1. ASSUME missing(set) = {}, NEW a \in Worlds, NEW b \in Worlds,
                 a < b, table.claim[a] # table.claim[b]
          PROVE  \E k \in set : table.observe[k][a] # table.observe[k][b]
        <3>1. <<a, b>> \in _critical_pairs
            BY <2>1 DEF _critical_pairs
        <3>2. set \cap separators(<<a, b>>) # {}
            BY <2>1, <3>1 DEF missing
        <3> QED BY <3>2 DEF separators
    <2>2. ASSUME \A a, b \in Worlds : a < b /\ table.claim[a] # table.claim[b] =>
                     \E k \in set : table.observe[k][a] # table.observe[k][b],
                 NEW p \in missing(set)
          PROVE  FALSE
        BY <2>2 DEF missing, _critical_pairs, separators
    <2> QED BY <2>1, <2>2
<1>2. Refines(Joint(set), table.claim) <=>
          \A a, b \in Worlds : table.claim[a] # table.claim[b] =>
              \E k \in set : table.observe[k][a] # table.observe[k][b]
    BY JointObservation DEF Refines
<1>3. ASSUME \A a, b \in Worlds : a < b /\ table.claim[a] # table.claim[b] =>
                 \E k \in set : table.observe[k][a] # table.observe[k][b],
             NEW a \in Worlds, NEW b \in Worlds, table.claim[a] # table.claim[b]
      PROVE  \E k \in set : table.observe[k][a] # table.observe[k][b]
    <2>1. a < b \/ b < a
        BY <1>3, WorldsAssumption
    <2> QED BY <1>3, <2>1
<1> QED BY <1>1, <1>2, <1>3

\* The sets that ContractFactors speaks of.
Decoding == {s \in SUBSET table.admissible : closed(s) /\ Decodable(table.claim, Joint(s))}

LEMMA SufficientIsDecoding == sufficient_contracts = Decoding
<1>1. ASSUME NEW s PROVE s \in sufficient_contracts <=> s \in Decoding
    <2>1. s \in SUBSET table.admissible /\ closed(s) => s \subseteq feasible_mechanisms
        BY DEF feasible_mechanisms
    <2>2. s \subseteq feasible_mechanisms => s \in SUBSET table.admissible
        BY DEF feasible_mechanisms
    <2>3. s \subseteq feasible_mechanisms =>
              (missing(s) = {} <=> Decodable(table.claim, Joint(s)))
        BY HittingIsRefinement, DecodingIsRefinement
    <2> QED BY <2>1, <2>2, <2>3 DEF sufficient_contracts, candidate_contracts, Decoding
<1> QED BY <1>1

\* What an answer says about the sufficient sets.
Justified(c) ==
    /\ c.status = "CONTRACT" =>
           /\ c.selected \in sufficient_contracts
           /\ \A s \in sufficient_contracts \ {c.selected} : tie_break(c.selected, s)
    /\ c.status = "EVIDENCE_GAP" => sufficient_contracts = {}

LEMMA AnswersAreJustified ==
    ASSUME NEW limit, NEW c \in compile_minimum_contract(limit)
    PROVE  Justified(c)
<1> USE DEF Answer
<1>1. CASE \E k \in Mechanisms : table.cost[k] <= 0
    BY <1>1 DEF compile_minimum_contract, Justified
<1>2. CASE /\ ~\E k \in Mechanisms : table.cost[k] <= 0
           /\ limit < Cardinality(SUBSET feasible_mechanisms)
    BY <1>2 DEF compile_minimum_contract, Justified
<1>3. CASE /\ ~\E k \in Mechanisms : table.cost[k] <= 0
           /\ ~(limit < Cardinality(SUBSET feasible_mechanisms))
           /\ sufficient_contracts = {}
    BY <1>3 DEF compile_minimum_contract, Justified
<1>4. CASE /\ ~\E k \in Mechanisms : table.cost[k] <= 0
           /\ ~(limit < Cardinality(SUBSET feasible_mechanisms))
           /\ sufficient_contracts # {}
    <2>1. PICK selected \in sufficient_contracts :
              /\ \A t \in sufficient_contracts \ {selected} : tie_break(selected, t)
              /\ c = Contract(selected)
        BY <1>4 DEF compile_minimum_contract
    <2>2. c.selected = selected /\ c.status # "EVIDENCE_GAP"
        BY <2>1 DEF Contract
    <2> QED BY <2>1, <2>2 DEF Justified
<1> QED BY <1>1, <1>2, <1>3, <1>4

LEMMA TableIsKept ==
    ASSUME table' = table
    PROVE  /\ sufficient_contracts' = sufficient_contracts
           /\ \A s, t : tie_break(s, t)' = tie_break(s, t)
<1>1. sufficient_contracts' = sufficient_contracts
    BY DEF sufficient_contracts, candidate_contracts, missing, feasible_mechanisms, closed,
           separators, _critical_pairs
<1>2. \A s : cost(s)' = cost(s)
    BY DEF cost
<1>3. \A s, t : tie_break(s, t)' = tie_break(s, t)
    BY <1>2 DEF tie_break, LexicallyBefore
<1> QED BY <1>1, <1>3

LEMMA JustifiedIsKept == CalculusSpec => []Justified(certificate)
<1>1. CalculusInit => Justified(certificate)
    BY DEF CalculusInit, NoCertificate, Answer, Justified
<1>2. Justified(certificate) /\ [CalculusNext /\ UNCHANGED table]_<<table, calculusVars>>
          => Justified(certificate)'
    <2> SUFFICES ASSUME Justified(certificate),
                        [CalculusNext /\ UNCHANGED table]_<<table, calculusVars>>
                 PROVE  Justified(certificate)'
        OBVIOUS
    <2>1. table' = table
        BY DEF calculusVars
    <2>2. Justified(certificate') => Justified(certificate)'
        BY <2>1, TableIsKept DEF Justified
    <2>3. CASE certificate' = certificate
        BY <2>2, <2>3
    <2>4. ASSUME NEW limit \in StateLimits, Compile(limit)
          PROVE  Justified(certificate)'
        BY <2>2, <2>4, AnswersAreJustified DEF Compile
    <2> QED BY <2>3, <2>4 DEF CalculusNext, Capture, NextPoint, Migrate, MigrateWith, calculusVars
<1> QED BY <1>1, <1>2, PTL DEF CalculusSpec

\* The contract of the calculus decodes the claim, every other set that does so
\* is less preferred, and after EVIDENCE_GAP there is none, for any catalogue
\* (information_order.py:144-188, 208-236).
THEOREM ContractsDecode == CalculusSpec => []ContractFactors
<1>1. Justified(certificate) => ContractFactors
    BY SufficientIsDecoding DEF Justified, ContractFactors, Decoding
<1> QED BY <1>1, JustifiedIsKept, PTL

(***************************************************************************)
(* The witnesses of an answer, over tables whose costs are integers.       *)
(***************************************************************************)

Tabled ==
    /\ table.cost \in [Mechanisms -> Int]
    /\ table.admissible \subseteq Mechanisms

\* What an answer names as its reasons exists.
Witnessed(c) ==
    c.status \notin {"none", "REFUSED"} =>
        /\ c.status # "STOP_ITERATION"
        /\ c.status = "EVIDENCE_GAP" => c.obstruction # {}
        /\ \A w \in c.minimality : \A p \in w.pair :
               LET rest == Joint(c.selected \ {w.removed})
               IN  rest[p[1]] = rest[p[2]] /\ table.claim[p[1]] # table.claim[p[2]]
        /\ verify_contract_certificate(c)

\* Of some pairs of rows, one comes first.
LEMMA FirstPairExists ==
    ASSUME NEW pairs \in SUBSET (Worlds \X Worlds), pairs # {}
    PROVE  first_of(pairs) # {}
<1> DEFINE lefts == {p[1] : p \in pairs}
<1>1. lefts \in SUBSET Nat /\ lefts # {}
  BY WorldsAssumption
<1>2. PICK m \in lefts : \A x \in lefts : m <= x
  <2> HIDE DEF lefts
  <2> QED BY <1>1, LeastNumber
<1> DEFINE rights == {p[2] : p \in {q \in pairs : q[1] = m}}
<1>3. rights \in SUBSET Nat /\ rights # {}
  BY <1>2, WorldsAssumption
<1>4. PICK n \in rights : \A x \in rights : n <= x
  <2> HIDE DEF rights
  <2> QED BY <1>3, LeastNumber
<1>5. PICK p \in pairs : p[1] = m /\ p[2] = n
  BY <1>4
<1>6. ASSUME NEW q \in pairs \ {p} PROVE p[1] < q[1] \/ (p[1] = q[1] /\ p[2] < q[2])
  <2>1. /\ p[1] \in Nat /\ p[2] \in Nat /\ q[1] \in Nat /\ q[2] \in Nat
        /\ p = <<p[1], p[2]>> /\ q = <<q[1], q[2]>>
    <3>1. p \in Worlds \X Worlds /\ q \in Worlds \X Worlds
      OBVIOUS
    <3>2. \A r \in Worlds \X Worlds : r[1] \in Worlds /\ r[2] \in Worlds /\ r = <<r[1], r[2]>>
      OBVIOUS
    <3>3. \A x \in Worlds : x \in Nat
      BY WorldsAssumption
    <3> HIDE DEF lefts, rights
    <3> QED BY <3>1, <3>2, <3>3
  <2>2. p[1] <= q[1]
    BY <1>2, <1>5
  <2>3. CASE q[1] = p[1]
    <3>1. q[2] \in rights
      BY <1>5, <2>3
    <3>2. p[2] <= q[2]
      BY <1>4, <1>5, <3>1
    <3> QED BY <2>1, <2>3, <3>2
  <2> QED BY <2>1, <2>2, <2>3
<1> QED BY <1>6 DEF first_of

\* If no set suffices, all feasible mechanisms together do not, and the pair that
\* they leave is separated by none.
LEMMA GapHasPair ==
    ASSUME sufficient_contracts = {}
    PROVE  first_of({p \in _critical_pairs : separators(p) = {}}) # {}
<1>1. closed(feasible_mechanisms)
  BY DEF closed, feasible_mechanisms
<1>2. missing(feasible_mechanisms) # {}
  BY <1>1 DEF sufficient_contracts, candidate_contracts
<1>3. PICK p \in _critical_pairs : separators(p) = {}
  BY <1>2 DEF missing, separators
<1> QED BY <1>3, FirstPairExists DEF _critical_pairs

\* A set that suffices without one of its members would be preferred.
LEMMA RemovalIsWitnessed ==
    ASSUME Tabled, ~\E j \in Mechanisms : table.cost[j] <= 0,
           NEW s \in sufficient_contracts,
           \A t \in sufficient_contracts \ {s} : tie_break(s, t),
           NEW k \in s, closed(s \ {k})
    PROVE  first_of(missing(s \ {k})) # {}
<1>1. s \in SUBSET Mechanisms
  BY DEF sufficient_contracts, candidate_contracts, feasible_mechanisms, Tabled
<1>2. IsFiniteSet(s)
  BY <1>1, MechanismsAssumption, FS_Subset
<1>3. \A j \in s : table.cost[j] \in Nat
  BY <1>1 DEF Tabled
<1>4. /\ cost(s \ {k}) <= cost(s) /\ cost(s) \in Nat /\ cost(s \ {k}) \in Nat
  BY <1>2, <1>3, OneFewer, TotalOfSubset, TotalIsNatural DEF cost
<1>5. /\ Cardinality(s \ {k}) < Cardinality(s)
      /\ Cardinality(s) \in Nat /\ Cardinality(s \ {k}) \in Nat
  BY <1>2, OneFewer
<1>6. ~tie_break(s, s \ {k})
  BY <1>4, <1>5 DEF tie_break
<1>7. s \ {k} \notin sufficient_contracts
  BY <1>6
<1>8. missing(s \ {k}) # {}
  BY <1>7 DEF sufficient_contracts, candidate_contracts
<1> QED BY <1>8, FirstPairExists DEF missing, _critical_pairs

\* The pair of a removal is one that the rest of the contract does not separate.
LEMMA RemovalMergesPair ==
    ASSUME NEW s \in sufficient_contracts, NEW k \in s, NEW p \in minimality_witness(s, k).pair
    PROVE  /\ Joint(s \ {k})[p[1]] = Joint(s \ {k})[p[2]]
           /\ table.claim[p[1]] # table.claim[p[2]]
<1>1. p \in missing(s \ {k})
  BY DEF minimality_witness, first_of
<1>2. /\ p[1] \in Worlds /\ p[2] \in Worlds /\ table.claim[p[1]] # table.claim[p[2]]
      /\ (s \ {k}) \cap separators(p) = {}
  BY <1>1 DEF missing, _critical_pairs
<1>3. s \ {k} \subseteq feasible_mechanisms
  BY DEF sufficient_contracts, candidate_contracts
<1>4. \A j \in s \ {k} : table.observe[j][p[1]] = table.observe[j][p[2]]
  BY <1>2, <1>3 DEF separators
<1> QED BY <1>2, <1>4, JointObservation

LEMMA AnswersAreWitnessed ==
    ASSUME Tabled, NEW limit, NEW c \in compile_minimum_contract(limit)
    PROVE  Witnessed(c)
<1> USE DEF Answer
<1>0. ~(Unlimited < Cardinality(SUBSET feasible_mechanisms))
  <2>1. feasible_mechanisms \in SUBSET Mechanisms
    BY DEF feasible_mechanisms, Tabled
  <2>2. Cardinality(SUBSET feasible_mechanisms) \in Nat
    BY <2>1, MechanismsAssumption, FS_Subset, FS_SUBSET, FS_CardinalityType
  <2> QED BY <2>2 DEF Unlimited
<1>1. CASE \E k \in Mechanisms : table.cost[k] <= 0
  BY <1>1 DEF compile_minimum_contract, Witnessed
<1>2. CASE /\ ~\E k \in Mechanisms : table.cost[k] <= 0
           /\ limit < Cardinality(SUBSET feasible_mechanisms)
  BY <1>2 DEF compile_minimum_contract, Witnessed, verify_contract_certificate
<1>3. CASE /\ ~\E k \in Mechanisms : table.cost[k] <= 0
           /\ ~(limit < Cardinality(SUBSET feasible_mechanisms))
           /\ sufficient_contracts = {}
  <2>1. c = Answer("EVIDENCE_GAP", {}, {},
                   first_of({p \in _critical_pairs : separators(p) = {}}))
    BY <1>3 DEF compile_minimum_contract
  <2>2. c \in compile_minimum_contract(Unlimited)
    BY <1>0, <1>3, <2>1 DEF compile_minimum_contract
  <2> QED BY <1>3, <2>1, <2>2, GapHasPair DEF Witnessed, verify_contract_certificate
<1>4. CASE /\ ~\E k \in Mechanisms : table.cost[k] <= 0
           /\ ~(limit < Cardinality(SUBSET feasible_mechanisms))
           /\ sufficient_contracts # {}
  <2>1. PICK s \in sufficient_contracts :
            /\ \A t \in sufficient_contracts \ {s} : tie_break(s, t)
            /\ c = Contract(s)
    BY <1>4 DEF compile_minimum_contract
  <2>2. c \in compile_minimum_contract(Unlimited)
    BY <1>0, <1>4, <2>1 DEF compile_minimum_contract
  <2>3. \A k \in s : LET w == minimality_witness(s, k)
                     IN  w.removed = k /\ (w.type = "critical_pair" => w.pair # {})
    BY <1>4, <2>1, RemovalIsWitnessed DEF minimality_witness
  <2>4. c.status = "CONTRACT"
    BY <2>1, <2>3 DEF Contract
  <2>5. c.selected = s /\ c.minimality = {minimality_witness(s, k) : k \in s}
    BY <2>1 DEF Contract
  <2>6. ASSUME NEW w \in c.minimality, NEW p \in w.pair
        PROVE  LET rest == Joint(c.selected \ {w.removed})
               IN  rest[p[1]] = rest[p[2]] /\ table.claim[p[1]] # table.claim[p[2]]
    <3>1. PICK k \in s : w = minimality_witness(s, k)
      BY <2>5
    <3>2. w.removed = k
      BY <2>3, <3>1
    <3> QED BY <2>5, <2>6, <3>1, <3>2, RemovalMergesPair
  <2> QED BY <2>2, <2>4, <2>6 DEF Witnessed, verify_contract_certificate
<1> QED BY <1>1, <1>2, <1>3, <1>4

LEMMA WitnessesAreKept ==
    ASSUME table' = table
    PROVE  /\ Tabled' = Tabled
           /\ \A c : Witnessed(c)' <=> Witnessed(c)
<1>1. /\ feasible_mechanisms' = feasible_mechanisms /\ _critical_pairs' = _critical_pairs
      /\ \A p : separators(p)' = separators(p)
      /\ \A set : missing(set)' = missing(set)
      /\ \A set : closed(set)' <=> closed(set)
      /\ \A set : Joint(set)' = Joint(set)
  BY DEF feasible_mechanisms, _critical_pairs, separators, missing, closed, Joint
<1>2. \A s : Contract(s)' = Contract(s)
  <2>1. \A s, k : minimality_witness(s, k)' = minimality_witness(s, k)
    BY <1>1 DEF minimality_witness, first_of
  <2> QED BY <2>1 DEF Contract, Answer
<1>3. compile_minimum_contract(Unlimited)' = compile_minimum_contract(Unlimited)
  BY <1>1, <1>2, TableIsKept DEF compile_minimum_contract, Unlimited, Answer, first_of
<1>4. \A c : verify_contract_certificate(c)' <=> verify_contract_certificate(c)
  BY <1>3 DEF verify_contract_certificate
<1> QED BY <1>1, <1>4 DEF Witnessed, Tabled

\* No removal ends in the StopIteration of information_order.py:259, a gap names
\* a pair that nothing separates, the pairs of the removals are merged by the
\* rest of the contract, and every certificate verifies (information_order.py:208-330).
THEOREM CertificatesAreWitnessed == Tabled /\ CalculusSpec => []WitnessesExist
<1>1. Tabled /\ CalculusInit => Tabled /\ Witnessed(certificate)
  BY DEF CalculusInit, NoCertificate, Answer, Witnessed
<1>2. Tabled /\ Witnessed(certificate) /\ [CalculusNext /\ UNCHANGED table]_<<table, calculusVars>>
          => (Tabled /\ Witnessed(certificate))'
  <2> SUFFICES ASSUME Tabled, Witnessed(certificate),
                      [CalculusNext /\ UNCHANGED table]_<<table, calculusVars>>
               PROVE  (Tabled /\ Witnessed(certificate))'
    OBVIOUS
  <2>1. table' = table
    BY DEF calculusVars
  <2>2. Tabled'
    BY <2>1, WitnessesAreKept
  <2>3. Witnessed(certificate') => Witnessed(certificate)'
    BY <2>1, WitnessesAreKept
  <2>4. CASE certificate' = certificate
    BY <2>2, <2>3, <2>4
  <2>5. ASSUME NEW limit \in StateLimits, Compile(limit)
        PROVE  (Tabled /\ Witnessed(certificate))'
    BY <2>2, <2>3, <2>5, AnswersAreWitnessed DEF Compile
  <2> QED BY <2>4, <2>5 DEF CalculusNext, Capture, NextPoint, Migrate, MigrateWith, calculusVars
<1>3. Witnessed(certificate) => WitnessesExist
  BY DEF Witnessed, WitnessesExist
<1> QED BY <1>1, <1>2, <1>3, PTL DEF CalculusSpec

(***************************************************************************)
(* Evidence over time.                                                     *)
(***************************************************************************)

\* What the contract's mechanisms observe decides the claim.
LEMMA ObservedDecides ==
    ASSUME certificate.selected \in sufficient_contracts, NEW channel, Observed(channel)
    PROVE  Refines(channel, table.claim)
<1>1. Refines(Joint(certificate.selected), table.claim)
    BY HittingIsRefinement DEF sufficient_contracts, candidate_contracts
<1>2. Refines(channel, Joint(certificate.selected))
    BY JointObservation DEF Observed, Refines
<1> QED BY <1>1, <1>2, LossIsFinal

\* The points of the timeline, and what holds of them without new evidence.
PointLifecycles == {"captured", "PRESERVED", "HARD_SEMANTIC_GAP", "RAISED"}

PointsAreLinked ==
    /\ timeline \in Seq([channel : Channels, lifecycle : PointLifecycles])
    /\ timeline # <<>> => evidence = timeline[Len(timeline)].channel

Held(i) == timeline[i].lifecycle \in {"captured", "PRESERVED"}

HorizonFollowsLifecycle ==
    ~recaptured =>
        /\ \A i, j \in DOMAIN timeline :
               i < j /\ semantically_sufficient(j) => semantically_sufficient(i)
        /\ \A i \in DOMAIN timeline :
               semantically_sufficient(i) <=> \A j \in 1..i : Held(j)

HorizonInv == PointsAreLinked /\ HorizonFollowsLifecycle

\* Every certificate of the bundle states one of the two statuses.
BundleInv ==
    bundle.form = "bundle" =>
        \A q \in DOMAIN bundle.certificates : bundle.certificates[q].status \in Statuses

LEMMA LifecycleIsPreservation ==
    ASSUME NEW claim, NEW f, NEW g
    PROVE  /\ analyze_lifecycle_transformation(claim, f, g)
                  \in {"PRESERVED", "HARD_SEMANTIC_GAP", "RAISED"}
           /\ analyze_lifecycle_transformation(claim, f, g) = "PRESERVED"
                  <=> /\ deterministic(f, g) /\ factorization_exists(claim, f)
                      /\ factorization_exists(claim, g)
BY DEF analyze_lifecycle_transformation, LifecycleStatus

LEMMA CaptureStartsHorizon ==
    ASSUME certificate.status = "CONTRACT" => certificate.selected \in sufficient_contracts,
           NEW c \in Channels, Capture(c), table' = table
    PROVE  HorizonInv'
<1>1. timeline' = <<[channel |-> c, lifecycle |-> "captured"]>> /\ evidence' = c
    BY DEF Capture
<1>2. Len(timeline') = 1 /\ timeline'[1].channel = c /\ timeline'[1].lifecycle = "captured"
      /\ DOMAIN timeline' = {1}
    BY <1>1
<1>3. PointsAreLinked'
    <2>1. [channel |-> c, lifecycle |-> "captured"] \in [channel : Channels, lifecycle : PointLifecycles]
        BY DEF PointLifecycles
    <2>2. timeline' \in Seq([channel : Channels, lifecycle : PointLifecycles])
        BY <1>1, <2>1
    <2>3. timeline'[Len(timeline')].channel = evidence'
        BY <1>1, <1>2
    <2> QED BY <2>2, <2>3 DEF PointsAreLinked
<1>4. factorization_exists(table.claim, c)
    BY ObservedDecides, FactorizationIsRefinement DEF Capture
<1>5. HorizonFollowsLifecycle'
    BY <1>2, <1>4 DEF HorizonFollowsLifecycle, semantically_sufficient, Held,
                      factorization_exists, _first_twin, Opens
<1> QED BY <1>3, <1>5 DEF HorizonInv

LEMMA NextPointKeepsHorizon ==
    ASSUME HorizonInv, NEW c \in Channels, NextPoint(c), table' = table
    PROVE  HorizonInv'
<1> DEFINE n == Len(timeline)
           point == [channel |-> c,
                     lifecycle |-> analyze_lifecycle_transformation(table.claim, evidence, c)]
<1>1. /\ timeline \in Seq([channel : Channels, lifecycle : PointLifecycles]) /\ timeline # <<>>
      /\ n = Len(timeline) /\ evidence = timeline[n].channel
      /\ n \in Nat \ {0} /\ DOMAIN timeline = 1..n
    BY DEF HorizonInv, PointsAreLinked, NextPoint
<1>2. point \in [channel : Channels, lifecycle : PointLifecycles]
    <2>1. analyze_lifecycle_transformation(table.claim, evidence, c) \in PointLifecycles
        BY LifecycleIsPreservation DEF PointLifecycles
    <2> QED BY <2>1
<1>3. /\ timeline' = Append(timeline, point) /\ evidence' = c
      /\ recaptured' = (recaptured \/ ~deterministic(evidence, c))
    BY DEF NextPoint
<1> HIDE DEF point, n
<1>n. n \in Nat /\ n > 0
    BY <1>1
<1>4. /\ timeline' \in Seq([channel : Channels, lifecycle : PointLifecycles])
      /\ Len(timeline') = n + 1 /\ DOMAIN timeline' = 1..(n + 1)
      /\ timeline'[n + 1] = point /\ \A i \in 1..n : timeline'[i] = timeline[i]
    BY <1>1, <1>2, <1>3
<1>5. PointsAreLinked'
    BY <1>3, <1>4 DEF PointsAreLinked, point
<1>6. ASSUME ~recaptured' PROVE HorizonFollowsLifecycle'
    <2>1. ~recaptured /\ deterministic(evidence, c)
        BY <1>3, <1>6
    <2> DEFINE sufficient(i) == factorization_exists(table.claim, timeline'[i].channel)
               held(i) == timeline'[i].lifecycle \in {"captured", "PRESERVED"}
    <2>h. \A i \in 1..(n + 1) : Held(i)' <=> held(i)
        BY DEF Held
    <2>2. \A i \in 1..n : sufficient(i) <=> semantically_sufficient(i)
        BY <1>4 DEF semantically_sufficient
    <2>3. \A i \in 1..(n + 1) : semantically_sufficient(i)' <=> sufficient(i)
        BY DEF semantically_sufficient, factorization_exists, _first_twin, Opens
    <2>4. semantically_sufficient(n) <=> factorization_exists(table.claim, evidence)
        BY <1>1 DEF semantically_sufficient
    <2>5. sufficient(n + 1) <=> factorization_exists(table.claim, c)
        BY <1>4 DEF point
    <2>6. sufficient(n + 1) => semantically_sufficient(n)
        BY <2>1, <2>4, <2>5, LossIsFinal, DeterminismIsRefinement, FactorizationIsRefinement
    <2>7. held(n + 1) <=> semantically_sufficient(n) /\ sufficient(n + 1)
        <3>1. point.lifecycle = analyze_lifecycle_transformation(table.claim, evidence, c)
            BY DEF point
        <3>2. held(n + 1) <=> point.lifecycle \in {"captured", "PRESERVED"}
            BY <1>4 DEF Held
        <3>3. point.lifecycle \in {"captured", "PRESERVED"} <=> point.lifecycle = "PRESERVED"
            BY <3>1, LifecycleIsPreservation
        <3> QED BY <2>1, <2>4, <2>5, <3>1, <3>2, <3>3, LifecycleIsPreservation
    <2>8. \A i \in 1..n : held(i) <=> Held(i)
        BY <1>4 DEF Held
    <2>9. \A i, j \in 1..n : i < j /\ semantically_sufficient(j) => semantically_sufficient(i)
        BY <1>1, <2>1 DEF HorizonInv, HorizonFollowsLifecycle
    <2>10. \A i \in 1..n : semantically_sufficient(i) <=> \A j \in 1..i : Held(j)
        BY <1>1, <2>1 DEF HorizonInv, HorizonFollowsLifecycle
    <2> HIDE DEF sufficient, held
    <2>11. ASSUME NEW i \in 1..(n + 1), NEW j \in 1..(n + 1), i < j, sufficient(j)
           PROVE  sufficient(i)
        <3>1. CASE j = n + 1
            <4>1. semantically_sufficient(n)
                BY <2>6, <2>11, <3>1
            <4>2. i = n \/ (i \in 1..n /\ i < n)
                BY <1>n, <2>11, <3>1
            <4> QED BY <1>n, <2>2, <2>9, <4>1, <4>2
        <3>2. CASE j \in 1..n
            BY <1>1, <2>2, <2>9, <2>11, <3>2
        <3> QED BY <1>1, <3>1, <3>2
    <2>12. ASSUME NEW i \in 1..(n + 1)
           PROVE  sufficient(i) <=> \A j \in 1..i : held(j)
        <3>1. CASE i \in 1..n
            BY <1>1, <2>2, <2>8, <2>10, <3>1
        <3>2. CASE i = n + 1
            <4>0. \A j \in 1..i : j \in 1..n \/ j = n + 1
                BY <1>n, <3>2
            <4>1. (\A j \in 1..i : held(j)) <=> (\A j \in 1..n : Held(j)) /\ held(n + 1)
                BY <1>n, <2>8, <3>2, <4>0
            <4>2. (\A j \in 1..n : Held(j)) <=> semantically_sufficient(n)
                BY <1>1, <2>10
            <4> QED BY <2>6, <2>7, <3>2, <4>1, <4>2
        <3> QED BY <1>1, <3>1, <3>2
    <2> QED BY <1>4, <2>3, <2>h, <2>11, <2>12 DEF HorizonFollowsLifecycle
<1>7. HorizonFollowsLifecycle'
    BY <1>6 DEF HorizonFollowsLifecycle
<1> QED BY <1>5, <1>7 DEF HorizonInv

LEMMA EvidenceIsFollowed == CalculusSpec => [](HorizonInv /\ BundleInv)
<1> DEFINE Inv == HorizonInv /\ BundleInv
<1>1. CalculusInit => Inv
    <2> SUFFICES ASSUME CalculusInit PROVE Inv
        OBVIOUS
    <2>1. timeline = <<>> /\ bundle.form = "none" /\ DOMAIN timeline = {}
        BY DEF CalculusInit, NoBundle
    <2> QED BY <2>1 DEF HorizonInv, PointsAreLinked, HorizonFollowsLifecycle, BundleInv
<1>2. Inv /\ Justified(certificate) /\ [CalculusNext /\ UNCHANGED table]_<<table, calculusVars>>
          => Inv'
    <2> SUFFICES ASSUME Inv, Justified(certificate),
                        [CalculusNext /\ UNCHANGED table]_<<table, calculusVars>>
                 PROVE  Inv'
        OBVIOUS
    <2>1. table' = table
        BY DEF calculusVars
    <2>2. UNCHANGED <<evidence, timeline, recaptured>> => HorizonInv'
        BY <2>1 DEF HorizonInv, PointsAreLinked, HorizonFollowsLifecycle, semantically_sufficient,
                    Held, factorization_exists, _first_twin, Opens
    <2>3. UNCHANGED bundle => BundleInv'
        BY DEF BundleInv
    <2>4. CASE UNCHANGED <<evidence, timeline, recaptured, bundle>>
        BY <2>2, <2>3, <2>4
    <2>5. ASSUME NEW c \in Channels, Capture(c) PROVE Inv'
        BY <2>1, <2>3, <2>5, CaptureStartsHorizon DEF Justified, Capture
    <2>6. ASSUME NEW c \in Channels, NextPoint(c) PROVE Inv'
        BY <2>1, <2>3, <2>6, NextPointKeepsHorizon DEF NextPoint
    <2>7. CASE Migrate
        <3>1. CASE \E form \in {"absent", "null", "list"} : MigrateWith(NoBundle(form))
            BY <2>2, <3>1 DEF MigrateWith, NoBundle, BundleInv
        <3>2. ASSUME NEW claims, NEW source, NEW target, NEW status \in Statuses, NEW claim_of,
                     MigrateWith([form |-> "bundle", certificates |->
                         [q \in claims |-> Document(claim_of[q], source, target, status)]])
              PROVE  Inv'
            <4>1. BundleInv'
                BY <3>2 DEF MigrateWith, BundleInv, Document
            <4> QED BY <2>2, <3>2, <4>1 DEF MigrateWith
        <3>3. ASSUME NEW claims \in SUBSET AllClaims, NEW source \in Channels,
                     NEW target \in Channels, NEW status \in Statuses,
                     \E claim_of \in [claims -> AllClaims] :
                         MigrateWith([form |-> "bundle", certificates |->
                             [q \in claims |-> Document(claim_of[q], source, target, status)]])
              PROVE  Inv'
            BY <3>2, <3>3
        <3> HIDE DEF Inv
        <3> QED BY <2>7, <3>1, <3>3 DEF Migrate
    <2> QED BY <2>4, <2>5, <2>6, <2>7 DEF CalculusNext, Compile, calculusVars
<1> QED BY <1>1, <1>2, JustifiedIsKept, PTL DEF CalculusSpec

\* As long as no point brings new evidence, semantic_audit_horizon never raises,
\* and a point is sufficient exactly if every transformation up to it was
\* PRESERVED (information_order.py:551-566).
THEOREM HorizonsOnlyShrink == CalculusSpec => []HorizonIsPrefixClosed
<1>1. HorizonInv => HorizonIsPrefixClosed
    BY DEF HorizonInv, HorizonFollowsLifecycle, HorizonIsPrefixClosed, HorizonRaises,
           prefix_closed, Held
<1> QED BY <1>1, EvidenceIsFollowed, PTL

\* For any migration bundle the Python and the Rust reader of the vault report
\* the same gap; they report none only if the claim that the certificate is about
\* can still be computed from its transformed rows, and a loss only if it no
\* longer can (information_order.py:398-460, information_order.rs:15-83).
THEOREM RuntimesReportOneGap == CalculusSpec => []RuntimesAgree
<1>1. BundleInv => RuntimesAgree
    <2> SUFFICES ASSUME BundleInv, bundle.form \in {"absent", "bundle"}, NEW q \in AllClaims
                 PROVE  LET gap == MigrationGap(q)
                            d == bundle.certificates[q]
                        IN  /\ gap = rust_MigrationGap(q)
                            /\ gap = "none" => Decodable(d.claim, d.target)
                            /\ gap = "MIGRATION_CLAIM_INFORMATION_LOSS" =>
                                   Decodable(d.claim, d.source) /\ ~Decodable(d.claim, d.target)
        BY DEF RuntimesAgree
    <2>1. CASE bundle.form = "absent"
        BY <2>1 DEF MigrationGap, rust_MigrationGap
    <2>2. CASE bundle.form = "bundle"
        <3> DEFINE d == bundle.certificates[q]
        <3>1. /\ MigrationGap(q) = GapOf(verify_migration_bundle(q), q)
              /\ rust_MigrationGap(q) = GapOf(rust_verify_migration_bundle(q), q)
            BY <2>2 DEF MigrationGap, rust_MigrationGap
        <3>2. ASSUME q \in DOMAIN bundle.certificates
              PROVE  verify_lifecycle_certificate(d) <=> rust_verify_lifecycle_certificate(d)
            <4>1. d.status \in {"PRESERVED", "HARD_SEMANTIC_GAP"}
                BY <2>2, <3>2 DEF BundleInv, Statuses
            <4>2. deterministic(d.source, d.target) <=> rust_deterministic(d.source, d.target)
                BY DeterminismIsRefinement, LatestRowsDecide
            <4> QED BY <4>1, <4>2 DEF verify_lifecycle_certificate, rust_verify_lifecycle_certificate,
                                      analyze_lifecycle_transformation
        <3>3. verify_migration_bundle(q) <=> rust_verify_migration_bundle(q)
            BY <3>2 DEF verify_migration_bundle, rust_verify_migration_bundle
        <3>4. ASSUME verify_migration_bundle(q)
              PROVE  /\ d.status \in {"PRESERVED", "HARD_SEMANTIC_GAP"}
                     /\ d.status = analyze_lifecycle_transformation(d.claim, d.source, d.target)
            BY <2>2, <3>4 DEF verify_migration_bundle, verify_lifecycle_certificate, BundleInv,
                              Statuses
        <3>5. ASSUME MigrationGap(q) = "none" PROVE Decodable(d.claim, d.target)
            <4>1. verify_migration_bundle(q) /\ d.status = "PRESERVED"
                BY <3>1, <3>5 DEF GapOf
            <4>2. factorization_exists(d.claim, d.target)
                BY <3>4, <4>1, LifecycleIsPreservation
            <4> QED BY <4>2, FactorizationIsRefinement, DecodingIsRefinement
        <3>6. ASSUME MigrationGap(q) = "MIGRATION_CLAIM_INFORMATION_LOSS"
              PROVE  Decodable(d.claim, d.source) /\ ~Decodable(d.claim, d.target)
            <4>1. verify_migration_bundle(q) /\ d.status = "HARD_SEMANTIC_GAP"
                BY <3>1, <3>4, <3>6 DEF GapOf
            <4>2. factorization_exists(d.claim, d.source) /\ ~factorization_exists(d.claim, d.target)
                BY <3>4, <4>1 DEF analyze_lifecycle_transformation, LifecycleStatus
            <4> QED BY <4>2, FactorizationIsRefinement, DecodingIsRefinement
        <3>7. MigrationGap(q) = rust_MigrationGap(q)
            BY <3>1, <3>3 DEF GapOf
        <3> HIDE DEF d
        <3> QED BY <3>5, <3>6, <3>7 DEF d
    <2> QED BY <2>1, <2>2
<1> QED BY <1>1, EvidenceIsFollowed, PTL
=============================================================================
