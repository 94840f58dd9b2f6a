--------------------------- MODULE InformationOrder ---------------------------
(***************************************************************************)
(* The finite auditability calculus (core/information_order.py) and its    *)
(* Rust twin (information_order.rs): a contract is a dependency-closed set *)
(* of mechanisms that separates every pair of worlds with different claim  *)
(* values; evidence supports a claim if the claim factors through it; and  *)
(* what happens to evidence later is judged by the same criterion.         *)
(*                                                                         *)
(* The calculus keeps nothing between two calls.  The variables hold what  *)
(* its callers hold: the contract, the evidence as it is at the time, the  *)
(* points of its timeline, and one migration bundle.  Rows are numbered in *)
(* the order of their identifiers.  The code compares values by == in some *)
(* places and as canonical JSON in others; the tables here hold no two     *)
(* values, such as 1 and true, on which the two differ.                    *)
(***************************************************************************)
EXTENDS FiniteAudit, Sequences

CONSTANTS
    Channels,      \* functions from rows to evidence values
    StateLimits,   \* values of state_cap
    OtherClaims,   \* claim columns of the other claims of a migration
    MaxTimeline    \* points of a timeline

VARIABLES
    table,         \* [claim, observe, cost, requires, admissible]
    certificate,   \* what compile_minimum_contract answered
    evidence,      \* the channel that evidence is at the moment, or <<>>
    timeline,      \* points: [channel, lifecycle]
    recaptured,    \* a later point did not come from an earlier one (history)
    bundle         \* [form, certificates: claim id -> lifecycle certificate]

calculusVars == <<certificate, evidence, timeline, recaptured, bundle>>

(***************************************************************************)
(* analyze_auditability.  A twin is a row whose claim value differs from   *)
(* that of the first row with the same evidence.                           *)
(***************************************************************************)
Opens(channel, a, b) ==
    /\ a < b /\ channel[a] = channel[b]
    /\ \A r \in Worlds : r < a => channel[r] # channel[b]

\* Mutant: a row is held against its predecessor only.
TwinOfNeighbours(claim, channel) ==
    {p \in Worlds \X Worlds :
        p[2] = p[1] + 1 /\ channel[p[1]] = channel[p[2]] /\ claim[p[1]] # claim[p[2]]}

_first_twin(claim, channel) ==
    {p \in Worlds \X Worlds : Opens(channel, p[1], p[2]) /\ claim[p[1]] # claim[p[2]]}

factorization_exists(claim, channel) == _first_twin(claim, channel) = {}

(***************************************************************************)
(* compile_minimum_contract                                                *)
(***************************************************************************)
closed(set) == \A k \in set : table.requires[k] \subseteq set

feasible_mechanisms ==
    {k \in table.admissible : \E s \in SUBSET table.admissible : k \in s /\ closed(s)}

\* Mutant: only neighbouring rows are compared.
neighbouringPairs ==
    {p \in Worlds \X Worlds : p[2] = p[1] + 1 /\ table.claim[p[1]] # table.claim[p[2]]}

_critical_pairs ==
    {p \in Worlds \X Worlds : p[1] < p[2] /\ table.claim[p[1]] # table.claim[p[2]]}

\* Mutant: what an infeasible mechanism observes counts as well.
separatorsOfAll(p) == {k \in Mechanisms : table.observe[k][p[1]] # table.observe[k][p[2]]}

separators(p) ==
    {k \in feasible_mechanisms : table.observe[k][p[1]] # table.observe[k][p[2]]}

missing(set) == {p \in _critical_pairs : set \cap separators(p) = {}}

candidate_contracts == {s \in SUBSET feasible_mechanisms : closed(s)}

sufficient_contracts == {s \in candidate_contracts : missing(s) = {}}

cost(set) == TotalCost(table.cost, set)

\* Mutant: ties are not broken by the number of mechanisms.
cost_then_tuple(s, t) ==
    \/ cost(s) < cost(t)
    \/ cost(s) = cost(t) /\ LexicallyBefore(s, t)

tie_break(s, t) ==
    \/ cost(s) < cost(t)
    \/ cost(s) = cost(t) /\ Cardinality(s) < Cardinality(t)
    \/ cost(s) = cost(t) /\ Cardinality(s) = Cardinality(t) /\ LexicallyBefore(s, t)

\* next(...) over the critical pairs, which are listed by left and right index.
first_of(pairs) ==
    {p \in pairs :
        \A q \in pairs \ {p} : p[1] < q[1] \/ (p[1] = q[1] /\ p[2] < q[2])}

minimality_witness(set, k) ==
    IF closed(set \ {k})
    THEN [removed |-> k, type |-> "critical_pair", pair |-> first_of(missing(set \ {k}))]
    ELSE [removed |-> k, type |-> "dependency_nonclosure", pair |-> {}]

Answer(status, selected, minimality, obstruction) ==
    [status |-> status, selected |-> selected, minimality |-> minimality,
     obstruction |-> obstruction]

NoCertificate == Answer("none", {}, {}, {})

Contract(selected) ==
    LET minimality == {minimality_witness(selected, k) : k \in selected}
    IN  Answer(IF \E w \in minimality : w.type = "critical_pair" /\ w.pair = {}
               THEN "STOP_ITERATION" ELSE "CONTRACT",
               selected, minimality, {})

\* The one answer for a state_cap: the cap is met before the last subset has
\* been looked at, no candidate is sufficient, or the preferred one is returned.
\* A cost that is not positive is refused, and StopIteration escapes if a
\* removal leaves the contract closed and no pair unseparated.
compile_minimum_contract(limit) ==
    IF \E k \in Mechanisms : table.cost[k] <= 0
    THEN {Answer("REFUSED", {}, {}, {})}
    ELSE IF limit < Cardinality(SUBSET feasible_mechanisms)
    THEN {Answer("ANALYSIS_INCOMPLETE", {}, {}, {})}
    ELSE IF sufficient_contracts = {}
    THEN {Answer("EVIDENCE_GAP", {}, {},
                 first_of({p \in _critical_pairs : separators(p) = {}}))}
    ELSE {Contract(selected) :
             selected \in {s \in sufficient_contracts :
                              \A t \in sufficient_contracts \ {s} : tie_break(s, t)}}

\* The limit without a state_cap.
Unlimited == Cardinality(SUBSET feasible_mechanisms)

\* Only the digest of an incomplete analysis is checked; anything else is
\* rebuilt without a limit.
verify_contract_certificate(c) ==
    c.status = "ANALYSIS_INCOMPLETE" \/ c \in compile_minimum_contract(Unlimited)

(***************************************************************************)
(* analyze_lifecycle_transformation and the certificates of a migration.   *)
(***************************************************************************)

\* Mutant: equal evidence may become different evidence.
anyTransformation(source, target) == TRUE

\* _lifecycle_rows compares every row with the first of the same evidence,
\* normalize_rows of the Rust program with the latest one.
deterministic(source, target) ==
    \A a, b \in Worlds : Opens(source, a, b) => target[a] = target[b]

rust_deterministic(source, target) ==
    \A a, b \in Worlds :
        /\ a < b /\ source[a] = source[b]
        /\ \A r \in Worlds : a < r /\ r < b => source[r] # source[b]
        => target[a] = target[b]

LifecycleStatus(claim, target) ==
    IF factorization_exists(claim, target) THEN "PRESERVED" ELSE "HARD_SEMANTIC_GAP"

analyze_lifecycle_transformation(claim, source, target) ==
    IF deterministic(source, target) /\ factorization_exists(claim, source)
    THEN LifecycleStatus(claim, target) ELSE "RAISED"

\* A lifecycle certificate: the claim, the source and the transformed evidence
\* of its own rows, and the status it states.
Document(claim, source, target, status) ==
    [claim |-> claim, source |-> source, target |-> target, status |-> status]

\* It is rebuilt from its own claim and rows, whatever was asked for and captured.
verify_lifecycle_certificate(d) ==
    d.status = analyze_lifecycle_transformation(d.claim, d.source, d.target)

rust_verify_lifecycle_certificate(d) ==
    /\ rust_deterministic(d.source, d.target)
    /\ factorization_exists(d.claim, d.source)
    /\ d.status = LifecycleStatus(d.claim, d.target)

\* What the metadata of a lossy schema hold under claim_relative_migration: a
\* bundle, a bundle whose certificates are a list, null, or nothing ("none" is a
\* schema that was not migrated).  Only a bundle has certificates.
NoBundle(form) == [form |-> form, certificates |-> <<>>]

verify_migration_bundle(q) ==
    /\ bundle.form = "bundle"
    /\ q \in DOMAIN bundle.certificates
    /\ verify_lifecycle_certificate(bundle.certificates[q])

rust_verify_migration_bundle(q) ==
    /\ bundle.form = "bundle"
    /\ q \in DOMAIN bundle.certificates
    /\ rust_verify_lifecycle_certificate(bundle.certificates[q])

\* What the two readers of the vault report of evidence for a claim.  Nothing
\* catches the AttributeError of a list, which has no get.
GapOf(verified, q) ==
    IF ~verified THEN "MIGRATION_CERTIFICATE_INVALID"
    ELSE IF bundle.certificates[q].status = "PRESERVED" THEN "none"
    ELSE "MIGRATION_CLAIM_INFORMATION_LOSS"

MigrationGap(q) ==
    CASE bundle.form \in {"absent", "null"} -> "LOSSY_SCHEMA_MIGRATION"
      [] bundle.form = "list" -> "raised"
      [] OTHER -> GapOf(verify_migration_bundle(q), q)

rust_MigrationGap(q) ==
    IF bundle.form = "absent" THEN "LOSSY_SCHEMA_MIGRATION"
    ELSE GapOf(rust_verify_migration_bundle(q), q)

(***************************************************************************)
(* semantic_audit_horizon over the points of the timeline.                 *)
(***************************************************************************)
semantically_sufficient(i) == factorization_exists(table.claim, timeline[i].channel)

prefix_closed ==
    \A i, j \in DOMAIN timeline :
        i < j /\ semantically_sufficient(j) => semantically_sufficient(i)

\* The horizon is refused when it is regained although no new evidence is declared.
HorizonRaises(no_new_evidence) == no_new_evidence /\ ~prefix_closed

(***************************************************************************)
(* The callers.                                                            *)
(***************************************************************************)
CalculusInit ==
    /\ certificate = NoCertificate
    /\ evidence = <<>>
    /\ timeline = <<>>
    /\ recaptured = FALSE
    /\ bundle = NoBundle("none")

Compile(limit) ==
    /\ certificate = NoCertificate
    /\ certificate' \in compile_minimum_contract(limit)
    /\ UNCHANGED <<evidence, timeline, recaptured, bundle>>

\* The evidence captured by the mechanisms of the contract.
Observed(channel) ==
    \A a, b \in Worlds :
        channel[a] = channel[b] <=>
            \A k \in certificate.selected : table.observe[k][a] = table.observe[k][b]

Capture(channel) ==
    /\ certificate.status = "CONTRACT"
    /\ timeline = <<>>
    /\ Observed(channel)
    /\ evidence' = channel
    /\ timeline' = <<[channel |-> channel, lifecycle |-> "captured"]>>
    /\ UNCHANGED <<certificate, recaptured, bundle>>

\* Time passes: fields are redacted, values re-encoded, or other evidence is
\* used from now on.
NextPoint(channel) ==
    /\ timeline # <<>> /\ Len(timeline) < MaxTimeline
    /\ bundle.form = "none"
    /\ evidence' = channel
    /\ recaptured' = (recaptured \/ ~deterministic(evidence, channel))
    /\ timeline' = Append(timeline,
           [channel |-> channel,
            lifecycle |-> analyze_lifecycle_transformation(table.claim, evidence, channel)])
    /\ UNCHANGED <<certificate, bundle>>

\* The schema of the evidence as captured is migrated with losses.  The bundle
\* holds certificates under the ids of claims, right or wrong, each of one of
\* the claims, for this evidence or another.
MigrateWith(migration) ==
    /\ Len(timeline) = 1 /\ bundle.form = "none"
    /\ bundle' = migration
    /\ UNCHANGED <<certificate, evidence, timeline, recaptured>>

AllClaims == {table.claim} \cup OtherClaims

Statuses == {"PRESERVED", "HARD_SEMANTIC_GAP"}

Migrate ==
    \/ \E form \in {"absent", "null", "list"} : MigrateWith(NoBundle(form))
    \/ \E claims \in SUBSET AllClaims, source, target \in Channels, status \in Statuses :
           \E claim_of \in [claims -> AllClaims] :
               MigrateWith([form |-> "bundle", certificates |->
                   [q \in claims |-> Document(claim_of[q], source, target, status)]])

CalculusNext ==
    \/ \E limit \in StateLimits : Compile(limit)
    \/ \E c \in Channels : Capture(c) \/ NextPoint(c)
    \/ Migrate

CalculusSpec ==
    CalculusInit /\ [][CalculusNext /\ UNCHANGED table]_<<table, calculusVars>>

(***************************************************************************)
(* Properties                                                              *)
(***************************************************************************)

\* Some function computes the claim from the evidence.
Decodable(claim, channel) ==
    \E decoder \in [{channel[r] : r \in Worlds} -> {claim[r] : r \in Worlds}] :
        \A r \in Worlds : decoder[channel[r]] = claim[r]

\* What the mechanisms of a set observe together.
Joint(set) == [r \in Worlds |-> {q \in Worlds : \A k \in set :
                                     table.observe[k][q] = table.observe[k][r]}]

\* Hitting the critical pairs is the same as factoring the claim through the
\* joint observation: the contract decodes the claim, every other admissible
\* closed set that does so is less preferred, and after EVIDENCE_GAP there is
\* none (information_order.py:144-188, 208-236).
ContractFactors ==
    LET decoding == {s \in SUBSET table.admissible :
                        closed(s) /\ Decodable(table.claim, Joint(s))}
    IN  /\ certificate.status = "CONTRACT" =>
               /\ certificate.selected \in decoding
               /\ \A s \in decoding \ {certificate.selected} :
                      tie_break(certificate.selected, s)
        /\ certificate.status = "EVIDENCE_GAP" => decoding = {}

\* Every witness a certificate promises exists: a gap names a pair that nothing
\* separates, no removal ends in StopIteration, the pair of a removal is merged
\* by the rest of the contract, and the certificate verifies.
WitnessesExist ==
    certificate.status \notin {"none", "REFUSED"} =>
        /\ certificate.status # "STOP_ITERATION"
        /\ certificate.status = "EVIDENCE_GAP" => certificate.obstruction # {}
        /\ \A w \in certificate.minimality : \A p \in w.pair :
               LET rest == Joint(certificate.selected \ {w.removed})
               IN  rest[p[1]] = rest[p[2]] /\ table.claim[p[1]] # table.claim[p[2]]
        /\ verify_contract_certificate(certificate)

\* Without new evidence the horizon only shrinks: once the claim is lost, no
\* later form of the evidence decides it, so semantic_audit_horizon never
\* raises; and up to the horizon every transformation was PRESERVED.
HorizonIsPrefixClosed ==
    ~recaptured =>
        /\ ~HorizonRaises(TRUE)
        /\ \A i \in DOMAIN timeline :
               semantically_sufficient(i) <=>
                   \A j \in 1..i : timeline[j].lifecycle \in {"captured", "PRESERVED"}

\* Both programs report the same gap for evidence under a lossy migration, null
\* and a list of certificates apart, which only one of them takes for no bundle,
\* or raises on.  They report none only if the claim that the certificate is
\* about is decided by its transformed rows, and a loss only if it was decided
\* before and no longer is.  Whether the certificate is about the claim that was
\* asked for, and about the evidence in the vault, neither program asks.
RuntimesAgree ==
    bundle.form \in {"absent", "bundle"} =>
        \A q \in AllClaims :
            LET gap == MigrationGap(q)
                d == bundle.certificates[q]
            IN  /\ gap = rust_MigrationGap(q)
                /\ gap = "none" => Decodable(d.claim, d.target)
                /\ gap = "MIGRATION_CLAIM_INFORMATION_LOSS" =>
                       Decodable(d.claim, d.source) /\ ~Decodable(d.claim, d.target)

=============================================================================
