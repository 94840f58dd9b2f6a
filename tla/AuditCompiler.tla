---------------------------- MODULE AuditCompiler ----------------------------
(***************************************************************************)
(* The bounded contract compiler (compiler.py): a counterexample-guided    *)
(* loop that picks a cheapest dependency-closed set of mechanisms, looks   *)
(* for two worlds the set cannot tell apart although the query answers     *)
(* them differently, and asks for one more separating mechanism.           *)
(*                                                                         *)
(* A catalogue is what the specification file says under one query, one    *)
(* threat model and one choice of weights; Init picks any of Catalogues.   *)
(* Mechanism names and worlds are numbered in the order the code sorts or  *)
(* lists them.  Weighted costs are natural numbers, the code's are floats. *)
(***************************************************************************)
EXTENDS FiniteAudit

CONSTANTS
    Requirements,   \* structural requirements a query may derive
    Catalogues,     \* the catalogues explored
    MaxIterations   \* synthesize's max_iterations

ASSUME IterationsAssumption == MaxIterations \in Nat

Passive == {"passive"}
All == {"passive", "active"}

(* trusted: admissible under the threat model, with a valid adapter and
   replay contract; provides: effective capabilities; needs: the query's
   derived requirements. *)
Catalogue ==
    [trusted : SUBSET Mechanisms,
     mode : [Mechanisms -> All],
     observe : [Mechanisms -> [Worlds -> Nat]],
     cost : [Mechanisms -> Nat],
     requires : [Mechanisms -> SUBSET Mechanisms],
     provides : [Mechanisms -> SUBSET Requirements],
     needs : SUBSET Requirements,
     answer : [Worlds -> Nat]]

ASSUME CataloguesAssumption == Catalogues \subseteq Catalogue

VARIABLES
    catalogue,    \* the specification compiled
    request,      \* the mode asked for: "passive", "all" or "auto"
    modes,        \* modes of the current attempt
    phase,        \* "start", "check" or "done"
    constraints,  \* sets of mechanisms a contract must hit
    selected,     \* the current choice
    iteration,    \* checks made in the current attempt
    cutOff,       \* the passive attempt of "auto" ran out of iterations (history)
    result        \* what synthesize returns

vars == <<catalogue, request, modes, phase, constraints, selected, iteration, cutOff, result>>

Eligible(m) == {k \in catalogue.trusted : catalogue.mode[k] \in m}

(***************************************************************************)
(* check_contract                                                          *)
(***************************************************************************)

SameObservation(contract, a, b) ==
    \A k \in contract : catalogue.observe[k][a] = catalogue.observe[k][b]

Unmet(contract) == catalogue.needs \ UNION {catalogue.provides[k] : k \in contract}

Missing(contract) == UNION {catalogue.requires[k] \ contract : k \in contract}

Assured(contract) == Unmet(contract) = {} /\ Missing(contract) = {}

IsTwin(contract, a, b) ==
    SameObservation(contract, a, b) /\ catalogue.answer[a] # catalogue.answer[b]

Determinate(contract) == \A a, b \in Worlds : ~IsTwin(contract, a, b)

Auditable(contract) == Assured(contract) /\ Determinate(contract)

\* The pair the scan of the worlds meets first: b is the first world that
\* disagrees with its bucket and a the world that opened the bucket.
FirstTwin(contract, a, b) ==
    /\ IsTwin(contract, a, b)
    /\ \A v, w \in Worlds : v < w /\ w < b => ~IsTwin(contract, v, w)
    /\ a < b
    /\ \A v \in Worlds : v < a => ~SameObservation(contract, v, b)

Separators(candidates, a, b) ==
    {k \in candidates : catalogue.observe[k][a] # catalogue.observe[k][b]}

Certificate(contract, m, a, b) ==
    [contract |-> contract, world_a |-> a, world_b |-> b,
     separating_candidates |-> Separators(Eligible(m), a, b)]

CertificatesOf(contract, m) ==
    {Certificate(contract, m, p[1], p[2]) :
        p \in {q \in Worlds \X Worlds : FirstTwin(contract, q[1], q[2])}}

verify_certificate(c) ==
    /\ c.contract \subseteq Eligible(All)
    /\ IsTwin(c.contract, c.world_a, c.world_b)
    /\ c.separating_candidates = Separators(Eligible(All), c.world_a, c.world_b)

(***************************************************************************)
(* _minimum_weight_contract                                                *)
(***************************************************************************)

weight(set) == TotalCost(catalogue.cost, set)

\* Mutant: the set with fewer members wins, whatever it costs.
FewerFirst(s, t) ==
    \/ Cardinality(s) < Cardinality(t)
    \/ Cardinality(s) = Cardinality(t) /\ LexicallyBefore(s, t)

Before(s, t) ==
    \/ weight(s) < weight(t)
    \/ weight(s) = weight(t) /\ LexicallyBefore(s, t)

ClosedSets(allowed) ==
    {s \in SUBSET allowed : \A k \in s : catalogue.requires[k] \subseteq s}

\* Mutant: dependencies are left out of the choice.
NoClosure(chosen, allowed) == {chosen}

\* The closure of chosen, or nothing if a dependency is not allowed.
_dependency_closure(chosen, allowed) ==
    LET closed == {s \in ClosedSets(allowed) : chosen \subseteq s}
    IN  {s \in closed : \A t \in closed : s \subseteq t}

PivotBefore(s, t) ==
    \/ Cardinality(s) < Cardinality(t)
    \/ Cardinality(s) = Cardinality(t) /\ Before(s, t)

Pivot(remaining) ==
    CHOOSE s \in remaining : \A t \in remaining \ {s} : PivotBefore(s, t)

\* The constraints that a choice does not meet yet.
Unhit(sets, chosen) == {s \in sets : s \cap chosen = {}}

\* Mutant: the search follows the cheapest name of each pivot only.
GreedyBranches(chosen, sets, allowed) ==
    LET pivot == Pivot(Unhit(sets, chosen))
        cheapest == {k \in pivot : \A j \in pivot \ {k} : Before({k}, {j})}
    IN  UNION {_dependency_closure(chosen \cup {k}, allowed) : k \in cheapest}

Branches(chosen, sets, allowed) ==
    UNION {_dependency_closure(chosen \cup {k}, allowed) : k \in Pivot(Unhit(sets, chosen))}

\* The sets at which the branching ends.  The code prunes a branch that is
\* already dearer than the best set found, which no best set is.
Leaves(sets, allowed) ==
    LET leaves[chosen \in SUBSET allowed] ==
            IF Unhit(sets, chosen) = {} THEN {chosen}
            ELSE UNION {leaves[closed] : closed \in Branches(chosen, sets, allowed)}
    IN  leaves[{}]

\* The singleton of the best leaf, or nothing: the code's None.
_minimum_weight_contract(sets, allowed) ==
    LET filtered == {s \cap allowed : s \in sets}
        reduced == {s \in filtered : \A t \in filtered : t \subseteq s => t = s}
        leaves == IF {} \in filtered THEN {} ELSE Leaves(reduced, allowed)
    IN  {s \in leaves : \A t \in leaves \ {s} : Before(s, t)}

(***************************************************************************)
(* synthesize                                                              *)
(***************************************************************************)

NoResult == [status |-> "none", contract |-> {}, certificates |-> {}]

\* Mutant: "auto" starts with every mode.
InitComplete ==
    /\ catalogue \in Catalogues
    /\ request \in {"passive", "all", "auto"}
    /\ modes = IF request = "passive" THEN Passive ELSE All
    /\ phase = "start"
    /\ constraints = {}
    /\ selected = {}
    /\ iteration = 0
    /\ cutOff = FALSE
    /\ result = NoResult

Init ==
    /\ catalogue \in Catalogues
    /\ request \in {"passive", "all", "auto"}
    /\ modes = IF request = "all" THEN All ELSE Passive
    /\ phase = "start"
    /\ constraints = {}
    /\ selected = {}
    /\ iteration = 0
    /\ cutOff = FALSE
    /\ result = NoResult

\* The first answer ends the call, except that the passive attempt of "auto"
\* is followed by an attempt with every mode unless it succeeded.
Return(status, contract, certificates) ==
    IF request = "auto" /\ modes = Passive /\ status # "PASSIVE_AUDITABLE"
    THEN /\ modes' = All
         /\ phase' = "start"
         /\ constraints' = {}
         /\ selected' = {}
         /\ iteration' = 0
         /\ cutOff' = (status = "INCONCLUSIVE")
         /\ UNCHANGED result
    ELSE /\ phase' = "done"
         /\ result' = [status |-> IF request = "auto" /\ status = "AUDITABLE"
                                  THEN "ACTIVE_AUDIT_REQUIRED" ELSE status,
                       contract |-> contract, certificates |-> certificates]
         /\ UNCHANGED <<modes, constraints, selected, iteration, cutOff>>

Select(sets) ==
    LET choice == _minimum_weight_contract(sets, Eligible(modes))
    IN  IF choice = {}
        THEN Return("BLOCKED", {}, {})
        ELSE /\ constraints' = sets
             /\ selected' \in choice
             /\ phase' = "check"
             /\ UNCHANGED <<modes, iteration, cutOff, result>>

Providers(need) == {k \in Eligible(modes) : need \in catalogue.provides[k]}

Begin ==
    /\ phase = "start"
    /\ IF \E need \in catalogue.needs : Providers(need) = {}
       THEN Return("BLOCKED", {}, {})
       ELSE Select({Providers(need) : need \in catalogue.needs})
    /\ UNCHANGED <<catalogue, request>>

\* No twin: the contract is returned with a witness for each of its members.
Conclude ==
    /\ phase = "check" /\ iteration < MaxIterations
    /\ Determinate(selected)
    /\ IF Assured(selected)
       THEN Return(IF \E k \in selected : catalogue.mode[k] = "active"
                   THEN "AUDITABLE" ELSE "PASSIVE_AUDITABLE",
                   selected,
                   UNION {CertificatesOf(selected \ {k}, modes) : k \in selected})
       ELSE Return("BLOCKED", {}, {})
    /\ UNCHANGED <<catalogue, request>>

\* A twin that some eligible mechanism separates becomes a constraint.
Separate(a, b) ==
    LET separators == Separators(Eligible(modes), a, b)
    IN  /\ phase = "check" /\ iteration < MaxIterations
        /\ FirstTwin(selected, a, b)
        /\ separators # {}
        /\ LET choice == _minimum_weight_contract(constraints \cup {separators}, Eligible(modes))
           IN  IF choice = {}
               THEN Return("BLOCKED", {}, {})
               ELSE /\ constraints' = constraints \cup {separators}
                    /\ selected' \in choice
                    /\ iteration' = iteration + 1
                    /\ UNCHANGED <<modes, phase, cutOff, result>>
        /\ UNCHANGED <<catalogue, request>>

\* A twin that nothing separates is returned as the reason of the refusal.
Inseparable(a, b) ==
    /\ phase = "check" /\ iteration < MaxIterations
    /\ FirstTwin(selected, a, b)
    /\ Separators(Eligible(modes), a, b) = {}
    /\ Return("BLOCKED", selected, {Certificate(selected, modes, a, b)})
    /\ UNCHANGED <<catalogue, request>>

LimitReached ==
    /\ phase = "check" /\ iteration = MaxIterations
    /\ Return("INCONCLUSIVE", selected, {})
    /\ UNCHANGED <<catalogue, request>>

Done == phase = "done" /\ UNCHANGED vars

Next ==
    \/ Begin
    \/ Conclude
    \/ \E a, b \in Worlds : Separate(a, b) \/ Inseparable(a, b)
    \/ LimitReached
    \/ Done

Spec == Init /\ [][Next]_vars

(***************************************************************************)
(* Properties                                                              *)
(***************************************************************************)

\* Every choice of the loop is made of eligible mechanisms and every answer
\* names a contract and certificates over worlds of the catalogue.
TypeOK ==
    /\ catalogue \in Catalogue
    /\ request \in {"passive", "all", "auto"}
    /\ modes \in {Passive, All}
    /\ phase \in {"start", "check", "done"}
    /\ constraints \subseteq SUBSET Eligible(modes)
    /\ selected \subseteq Eligible(modes)
    /\ iteration \in 0..MaxIterations
    /\ cutOff \in BOOLEAN
    /\ result.contract \subseteq Eligible(modes)
    /\ \A c \in result.certificates :
           /\ c.world_a \in Worlds /\ c.world_b \in Worlds
           /\ c.separating_candidates \subseteq Eligible(modes)

Hits(set, sets) == \A s \in sets : s \cap set # {}

\* The branching search returns what its name promises: a dependency-closed
\* hitting set of the constraints than which no other is cheaper.
SelectionIsLeast ==
    phase = "check" =>
        /\ selected \in ClosedSets(Eligible(modes))
        /\ Hits(selected, constraints)
        /\ \A s \in ClosedSets(Eligible(modes)) :
               Hits(s, constraints) => weight(selected) <= weight(s)

Succeeded == result.status \in {"PASSIVE_AUDITABLE", "AUDITABLE", "ACTIVE_AUDIT_REQUIRED"}

\* A contract that synthesize returns determines the query, has every required
\* assurance, and costs no more than any other contract that does, although
\* the loop looked at a few pairs of worlds only.
LeastAuditable ==
    Succeeded =>
        /\ Auditable(result.contract)
        /\ \A s \in SUBSET Eligible(modes) :
               Auditable(s) => weight(result.contract) <= weight(s)

\* A refusal is never premature: no set of eligible mechanisms is auditable.
RefusalsAreFinal ==
    result.status = "BLOCKED" => \A s \in SUBSET Eligible(modes) : ~Auditable(s)

\* ACTIVE_AUDIT_REQUIRED means that no passive contract would do, unless the
\* passive attempt was given up at the iteration limit.
ActiveOnlyWhenNeeded ==
    result.status = "ACTIVE_AUDIT_REQUIRED" /\ ~cutOff =>
        \A s \in SUBSET Eligible(Passive) : ~Auditable(s)

\* Certificates of an attempt with every mode pass verify_certificate.
CompleteCertificatesVerify ==
    modes = All => \A c \in result.certificates : verify_certificate(c)

\* Every certificate synthesize returns, as the reason of a refusal or as a
\* minimality witness, passes verify_certificate.
CertificatesVerify == \A c \in result.certificates : verify_certificate(c)

=============================================================================
