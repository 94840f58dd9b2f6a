---------------------------- MODULE DesignPipeline ----------------------------
(***************************************************************************)
(* The core design pipeline (core/pipeline.py): compile_overlay_data takes *)
(* a claim from DECLARED to PLANNED through four gates, or stops with a    *)
(* typed failure at one of them.  It reads the same kind of specification  *)
(* file as the compiler of AuditCompiler (legacy_crosswalk.py translates   *)
(* it) and shares none of its code: its synthesis enumerates every closed  *)
(* set of mechanisms under one budget of observed worlds.                  *)
(*                                                                         *)
(* The module composes the two front ends: once the compiler has returned, *)
(* the pipeline is called on the same catalogue.  An exception (CrosswalkError, *)
(* ValueError) leaves no failure record; its step is "raised".             *)
(***************************************************************************)
EXTENDS AuditCompiler, DesignLifecycle

CONSTANTS
    CompareAfter,    \* the compiler requests after which the pipeline is called
    Claims,          \* claim sections of overlays
    BaseOf,          \* the variables of a world other than ledger_commit_count
    RowCount,        \* ledger_commit_count of a world
    RowCountDomain,  \* its declared domain
    StateCaps        \* values of state_cap

ASSUME DomainAssumption ==
    /\ RowCount \in [Worlds -> RowCountDomain]
    /\ RowCountDomain \subseteq Nat
    /\ IsFiniteSet(Worlds)
ASSUME CapsAssumption == StateCaps \subseteq Int

VARIABLES
    step,        \* where compile_overlay_data is
    candidates,  \* candidate_mechanisms of the overlay
    adequate,    \* the abstraction that passed the adequacy check, or "none"
    cap,         \* state_cap
    examined,    \* closed sets whose determinacy synthesize has decided
    explored,    \* worlds observed so far
    chosen,      \* SynthesisPass.selected
    witnesses,   \* SynthesisPass.minimality_twins
    verdict,     \* of the CompileFailure, "PLANNED", or "none"
    packages     \* registries: [id, records] of every registered package

designVars ==
    <<state, transitions, step, candidates, adequate, cap, examined, explored, chosen,
      witnesses, verdict, packages>>

searchVars == <<cap, examined, explored>>

DesignInit ==
    /\ LifecycleInit
    /\ step = "start"
    /\ candidates = {}
    /\ adequate = "none"
    /\ cap = 0 /\ examined = {} /\ explored = 0
    /\ chosen = {} /\ witnesses = {}
    /\ verdict = "none"
    /\ packages = {}

(***************************************************************************)
(* build_crosswalk                                                         *)
(***************************************************************************)

Boolean == \A w \in Worlds : catalogue.answer[w] \in {0, 1}

\* A finite relation has a cycle if each member of some set depends on another.
Acyclic(set) ==
    \A s \in (SUBSET set) \ {{}} : \E k \in s : catalogue.requires[k] \cap s = {}

\* MechanismCatalog.build
BuildsCatalog(set) ==
    /\ \A k \in set : catalogue.requires[k] \subseteq set \ {k}
    /\ Acyclic(set)

Raise ==
    /\ step' = "raised"
    /\ UNCHANGED <<state, transitions>>

Package(id, records) == [id |-> id, records |-> records]

Crosswalk(set) ==
    /\ step = "start"
    /\ phase = "done" /\ request \in CompareAfter
    /\ candidates' = set
    /\ IF Boolean /\ BuildsCatalog(set)
       THEN /\ step' = "scope"
            /\ packages' = {Package("bootstrap", {"policies"}), Package("schema", {"descriptors"}),
                            Package("domain", {"domain"}), Package("claim", {"claim"}),
                            Package("mechanism", set), Package("adapter", set)}
            /\ UNCHANGED <<state, transitions>>
       ELSE Raise /\ UNCHANGED packages
    /\ UNCHANGED <<adequate, searchVars, chosen, witnesses, verdict>>

\* A failed attempt of the lifecycle, reported as a CompileFailure.
Fail(target, outcome, why) ==
    /\ attempt(target, outcome)
    /\ step' = "returned"
    /\ verdict' = why

(***************************************************************************)
(* validate_and_scope, as far as a claim section decides it: the crosswalk *)
(* computes commitments and the world scope itself and gives every claim   *)
(* no intervention target.                                                 *)
(***************************************************************************)

Causal(claim) == claim.kind = "causality"

TemporalErrors(claim) ==
    {e \in {"window", "horizon", "schedule", "grace"} :
        \/ e = "window" /\ claim.from > claim.to
        \/ e = "horizon" /\ claim.deadline < claim.to
        \/ e = "schedule" /\ claim.schedule # "on_demand"
        \/ e = "grace" /\ claim.grace = 0}

Q_errors(claim) ==
    {e \in {"domain", "kind", "anchor", "quantifier", "target", "assurance"} :
        \/ e = "domain" /\ claim.domain \notin {"interaction", "effect", "config", "lifecycle", "authority"}
        \/ e = "kind" /\ claim.kind \notin {"fact", "authorization", "compliance", "attribution",
                                            "coverage", "causality"}
        \/ e = "anchor" /\ claim.anchor \notin claim.entities
        \/ e = "quantifier" /\ \/ (claim.quantifier = "counterfactual") # Causal(claim)
                               \/ claim.quantifier \notin {"forall", "exists", "counterfactual"}
        \/ e = "target" /\ Causal(claim)
        \/ e = "assurance" /\ \/ (claim.assurance = "active") # Causal(claim)
                              \/ claim.assurance \notin {"passive", "active"}}
    \cup TemporalErrors(claim)

Scope(claim) ==
    /\ step = "scope"
    /\ IF Q_errors(claim) # {}
       THEN Fail("SCOPED", "TYPED_FAIL", "QUERY_GAP") /\ UNCHANGED packages
       ELSE /\ attempt("SCOPED", "PASS")
            /\ packages' = packages \cup {Package("scoped_claim", {"scoped"})}
            /\ step' = "model"
            /\ UNCHANGED verdict
    /\ UNCHANGED <<candidates, adequate, searchVars, chosen, witnesses>>

(***************************************************************************)
(* check_sqlite_count_adequacy: concrete executions are row populations,   *)
(* enumerated apart from the abstract count; their truth is SQLite's.      *)
(***************************************************************************)

Executions == {[base |-> BaseOf[w], rows |-> n] : w \in Worlds, n \in RowCountDomain}

external_truth(x) == x.rows = 1

Abstraction(mode, x) ==
    [base |-> x.base, count |-> IF mode = "cap_at_one" /\ x.rows > 1 THEN 1 ELSE x.rows]

ReleasedWorlds == {[base |-> BaseOf[w], count |-> RowCount[w]] : w \in Worlds}

\* Executions whose abstraction is not a released world are passed over.
Checked(mode) == {x \in Executions : Abstraction(mode, x) \in ReleasedWorlds}

IsModelTwin(mode, x, y) ==
    Abstraction(mode, x) = Abstraction(mode, y) /\ external_truth(x) # external_truth(y)

Model(mode) ==
    /\ step = "model"
    /\ IF mode \notin {"exact_row_count", "cap_at_one"} \/ Checked(mode) = {}
       THEN Raise /\ UNCHANGED <<adequate, verdict>>
       ELSE IF \E x, y \in Checked(mode) : IsModelTwin(mode, x, y)
       THEN Fail("MODEL_VALIDATED", "TYPED_FAIL", "MODEL_GAP") /\ UNCHANGED adequate
       ELSE /\ attempt("MODEL_VALIDATED", "PASS")
            /\ adequate' = mode
            /\ step' = "budget"
            /\ UNCHANGED verdict
    /\ UNCHANGED <<candidates, searchVars, chosen, witnesses, packages>>

(***************************************************************************)
(* synthesize                                                              *)
(***************************************************************************)

SetBudget(limit) ==
    /\ step = "budget"
    /\ IF limit < 0
       THEN Raise /\ UNCHANGED cap
       ELSE cap' = limit /\ step' = "search" /\ UNCHANGED <<state, transitions>>
    /\ UNCHANGED <<candidates, adequate, examined, explored, chosen, witnesses, verdict, packages>>

\* The worlds _check_determinacy observes: all, or up to the second of a twin.
Used(contract) ==
    IF Determinate(contract) THEN Cardinality(Worlds)
    ELSE CHOOSE n \in 1..Cardinality(Worlds) :
             \E a, b \in Worlds : /\ FirstTwin(contract, a, b)
                                  /\ n = Cardinality({w \in Worlds : w <= b})

EnumeratedBefore(s, t) ==
    \/ Cardinality(s) < Cardinality(t)
    \/ Cardinality(s) = Cardinality(t) /\ LexicallyBefore(s, t)

\* Mutant: sets larger than a sufficient one are left out.
UnexaminedSmall ==
    {s \in ClosedSets(candidates) \ examined :
        \A t \in examined : Determinate(t) => Cardinality(s) <= Cardinality(t)}

Unexamined == ClosedSets(candidates) \ examined

NextCandidate(s) ==
    /\ s \in Unexamined
    /\ \A t \in Unexamined \ {s} : EnumeratedBefore(s, t)

\* Mutant: every set gets the whole budget.
remainingForEach == cap

remaining == cap - explored

Examine(s) ==
    /\ step = "search"
    /\ NextCandidate(s)
    /\ IF Used(s) > remaining
       THEN /\ explored' = cap
            /\ Fail("SYNTHESIZED", "LIMIT_REACHED", "ANALYSIS_INCOMPLETE")
            /\ UNCHANGED examined
       ELSE /\ explored' = explored + Used(s)
            /\ examined' = examined \cup {s}
            /\ UNCHANGED <<state, transitions, step, verdict>>
    /\ UNCHANGED <<candidates, adequate, cap, chosen, witnesses, packages>>

Feasible == {s \in examined : Determinate(s)}

\* Scalar cost, then cardinality, then names.
Preferred(s, t) ==
    \/ weight(s) < weight(t)
    \/ weight(s) = weight(t) /\ EnumeratedBefore(s, t)

MinimalityWitness(contract, k) ==
    LET reduced == contract \ {k}
        twins == {p \in Worlds \X Worlds : FirstTwin(reduced, p[1], p[2])}
    IN  [removed |-> k,
         type |-> IF \E j \in reduced : k \in catalogue.requires[j] THEN "dependency_nonclosure"
                  ELSE IF twins # {} THEN "twin" ELSE "global_cost_witness",
         pairs |-> IF \E j \in reduced : k \in catalogue.requires[j] THEN {} ELSE twins]

ContractPackages(contract) ==
    {Package("optimization", {"witness"}), Package("trace", {"Q", "WorldScope", "A", "D"}),
     Package("minimality", contract), Package("premise", {"open_premises"}),
     Package("contract", {"contract"})}

\* Every closed set has been examined: EVIDENCE_GAP, or the contract.
Synthesized ==
    /\ step = "search" /\ Unexamined = {}
    /\ IF Feasible = {}
       THEN /\ Fail("SYNTHESIZED", "TYPED_FAIL", "EVIDENCE_GAP")
            /\ UNCHANGED <<chosen, witnesses, packages>>
       ELSE /\ chosen' \in {s \in Feasible : \A t \in Feasible \ {s} : Preferred(s, t)}
            /\ witnesses' = {MinimalityWitness(chosen', k) : k \in chosen'}
            /\ packages' = packages \cup ContractPackages(chosen')
            /\ attempt("SYNTHESIZED", "PASS")
            /\ step' = "plan"
            /\ UNCHANGED verdict
    /\ UNCHANGED <<candidates, adequate, searchVars>>

(***************************************************************************)
(* build_plan.  Its other refusals compare an adapter with the mechanism   *)
(* that the crosswalk built from the same lines, and cannot happen here.   *)
(***************************************************************************)

Plan(missing_adapters) ==
    /\ step = "plan"
    /\ IF chosen \cap missing_adapters # {}
       THEN Fail("PLANNED", "TYPED_FAIL", "REALIZATION_GAP") /\ UNCHANGED packages
       ELSE /\ attempt("PLANNED", "PASS")
            /\ packages' = packages \cup {Package("plan", {"plan"})}
            /\ step' = "returned"
            /\ verdict' = "PLANNED"
    /\ UNCHANGED <<candidates, adequate, searchVars, chosen, witnesses>>

DesignNext ==
    \/ \E set \in (SUBSET Mechanisms) \ {{}} : Crosswalk(set)
    \/ \E claim \in Claims : Scope(claim)
    \/ \E mode \in {"exact_row_count", "cap_at_one", "other"} : Model(mode)
    \/ \E limit \in StateCaps : SetBudget(limit)
    \/ \E s \in SUBSET Mechanisms : Examine(s)
    \/ Synthesized
    \/ \E missing \in SUBSET Mechanisms : Plan(missing)

FrontEndsInit == Init /\ DesignInit

FrontEndsNext ==
    \/ Next /\ UNCHANGED designVars
    \/ DesignNext /\ UNCHANGED vars

FrontEndsSpec == FrontEndsInit /\ [][FrontEndsNext]_<<vars, designVars>>

(***************************************************************************)
(* Properties                                                              *)
(***************************************************************************)

\* The contract is preferred to every other closed determinate set of
\* candidates, and EVIDENCE_GAP means that there is none
\* (finite_backend.py:130-136).
SearchIsExhaustive ==
    LET sufficient == {s \in ClosedSets(candidates) : Determinate(s)}
    IN  /\ chosen # {} \/ step = "plan" =>
               /\ chosen \in sufficient
               /\ \A s \in sufficient \ {chosen} : Preferred(chosen, s)
        /\ verdict = "EVIDENCE_GAP" => sufficient = {}

\* The work of examining some of the closed sets, and of an unlimited search.
Work(sets) == TotalCost([s \in ClosedSets(candidates) |-> Used(s)], sets)

TotalWork == Work(ClosedSets(candidates))

\* ANALYSIS_INCOMPLETE is answered exactly when the budget is less than the
\* work of the whole search, so a larger budget never changes a decided answer,
\* and the count it reports is the whole budget (finite_backend.py:110-116).
LimitsAreHonest ==
    /\ explored <= cap
    /\ verdict = "ANALYSIS_INCOMPLETE" => explored = cap /\ cap < TotalWork
    /\ step = "plan" \/ verdict = "EVIDENCE_GAP" => explored = TotalWork

\* Every mechanism of the contract has a reason to be there: another one needs
\* it, or without it two worlds with different answers look alike.  The third
\* kind of witness, global_cost_witness, is never issued, because a sufficient
\* set with one member less would have been preferred (finite_backend.py:160-185).
MinimalityIsWitnessed ==
    step = "plan" =>
        /\ {x.removed : x \in witnesses} = chosen
        /\ \A x \in witnesses :
               \/ x.type = "dependency_nonclosure"
                  /\ \E j \in chosen : x.removed \in catalogue.requires[j]
               \/ /\ x.type = "twin" /\ x.pairs # {}
                  /\ \A p \in x.pairs : IsTwin(chosen \ {x.removed}, p[1], p[2])

\* Whether the compiler and the pipeline are asked the same question: every
\* mechanism a candidate, all trusted, and no structural requirement.
SameQuestion ==
    /\ request = "all" /\ phase = "done"
    /\ candidates = Mechanisms /\ catalogue.trusted = Mechanisms /\ catalogue.needs = {}

\* The two front ends, which share no code, agree: they succeed together, with
\* contracts of equal weight (compiler.py:299, finite_backend.py:86).
FrontEndsAgree ==
    SameQuestion =>
        /\ step = "plan" /\ result.status # "INCONCLUSIVE" =>
               Succeeded /\ weight(chosen) = weight(result.contract)
        /\ verdict = "EVIDENCE_GAP" => ~Succeeded

=============================================================================
