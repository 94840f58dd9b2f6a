----------------------------- MODULE RunEvidence -----------------------------
(***************************************************************************)
(* Run-time evidence: the chained event sink (runtime/events.py), the      *)
(* events the mechanisms of a catalogue emit (runtime/evidence.py), the    *)
(* mediation proof (topology.py), and the two verifiers of a run's events: *)
(* certify_adapter_run, which is given the world the run was in            *)
(* (runtime/conformance.py), and verify_run_evidence, which is not         *)
(* (runtime/run_verification.py).                                          *)
(*                                                                         *)
(* A digest is the value it is a digest of.  An event hash covers the      *)
(* event and its predecessor's hash; the sink that made the event, its run *)
(* and its sequence number stand for it, as no event is ever forged.  The  *)
(* envelope fields that are copied from the catalogue and compared with it *)
(* (adapter, version, registry, producer, capture point) are left out.     *)
(***************************************************************************)
EXTENDS Integers, Sequences, SequencesExt, FiniteSets

(***************************************************************************)
(* The bundled catalogues (examples/payment.yaml, examples/credit.yaml);   *)
(* of the facts a mechanism reports alike, one stands for all.             *)
(***************************************************************************)

\* Each mechanism binds the anchor to one entity at most ("unbound": to none of them).
Channel(observes, entity, producer, integrity, requires) ==
    [observes |-> observes, entity |-> entity, producer |-> producer,
     integrity |-> integrity, requires |-> requires]

PaymentMechanisms ==
    LET Signed(observes, entity, producer) ==
            Channel(observes, entity, producer, "hmac-sha256", {"canonical_action"})
        Root(observes) == Channel(observes, "unbound", "action_gateway", "hmac-sha256", {})
        Policy(observes) == Channel(observes, "policy_version", "policy_registry", "hmac-sha256", {})
    IN [final_output |-> Channel({"tool_response"}, "unbound", "agent", "none", {}),
        generic_agent_trace |->
            Channel({"tool_response", "model_recommendation", "human_decision"},
                    "review", "framework_runtime", "hash_chain", {}),
        canonical_action |-> Root({"amount"}),
        approval_bound_receipt |->
            Signed({"approval_signature_valid", "approval_action_bound"}, "approval",
                   "approval_service"),
        delegation_context |->
            Signed({"delegation_executor_bound"}, "delegation", "identity_gateway"),
        policy_snapshot |->
            Signed({"policy_limit", "policy_effective"}, "policy_version", "policy_registry"),
        model_advice |->
            Channel({"model_recommendation"}, "review", "model_gateway", "hash_chain",
                    {"canonical_action"}),
        human_decision_record |-> Signed({"human_decision"}, "review", "approval_service"),
        durable_effect_receipt |-> Signed({"ledger_commit_count"}, "ledger_transaction", "ledger"),
        gateway_coverage |-> Signed({"gateway_coverage_complete"}, "unbound", "action_gateway"),
        coarse_amount_channel |-> Root({"amount_redacted"}),
        amount_token |-> Root({"amount_domain_token"}),
        coarse_policy_channel |-> Policy({"policy_limit_redacted", "policy_effective_present"}),
        policy_state_token |-> Policy({"policy_state_domain_token"}),
        virtualized_tool_omission_replay |->
            Channel({"duplicate_without_tool_response"}, "replay_run", "audit_sandbox",
                    "hmac-sha256",
                    {"canonical_action", "durable_effect_receipt", "generic_agent_trace"}),
        irreversible_wire_replay |->
            Channel({"duplicate_without_tool_response"}, "replay_run", "audit_sandbox",
                    "hmac-sha256", {"canonical_action", "durable_effect_receipt"})]

CreditMechanisms ==
    LET Signed(observes, entity, producer) ==
            Channel(observes, entity, producer, "hmac-sha256", {"canonical_application"})
        Root(observes) == Channel(observes, "unbound", "decision_gateway", "hmac-sha256", {})
        Policy(observes) == Channel(observes, "policy_version", "policy_registry", "hmac-sha256", {})
    IN [final_decision |-> Channel({"human_decision"}, "unbound", "agent", "none", {}),
        generic_decision_trace |->
            Channel({"model_decision", "human_decision", "model_reason_code"}, "decision",
                    "framework_runtime", "hash_chain", {}),
        canonical_application |-> Root({"score"}),
        policy_snapshot |->
            Signed({"policy_limit", "policy_effective"}, "policy_version", "policy_registry"),
        feature_provenance |-> Signed({"feature_source_bound"}, "feature", "feature_gateway"),
        feature_coverage |-> Signed({"feature_channel_complete"}, "feature", "feature_gateway"),
        model_reason_record |->
            Channel({"model_decision", "model_reason_code"}, "decision", "model_gateway",
                    "hash_chain", {"canonical_application"}),
        decision_receipt |->
            Signed({"human_decision", "decision_record_bound"}, "decision", "decision_service"),
        notice_receipt |->
            Channel({"notice_reason_code"}, "adverse_notice", "notice_service", "hmac-sha256",
                    {"decision_receipt"}),
        coarse_score_channel |-> Root({"score_redacted"}),
        score_token |-> Root({"score_domain_token"}),
        coarse_credit_policy_channel |->
            Policy({"policy_limit_redacted", "policy_effective_present"}),
        credit_policy_state_token |-> Policy({"policy_state_domain_token"}),
        virtualized_income_ablation |->
            Channel({"denial_without_income_feature"}, "replay_run", "audit_sandbox",
                    "hmac-sha256",
                    {"canonical_application", "model_reason_record", "decision_receipt"})]

ThreatModel(compromised, trusted, integrity, available, bypass) ==
    [compromised |-> compromised, trusted |-> trusted, integrity |-> integrity,
     available |-> available, bypass |-> bypass]

\* A threat model that names no mechanisms, here {}, leaves all of them available.
PaymentThreats ==
    LET others == {"framework_runtime", "action_gateway", "approval_service", "identity_gateway",
                   "policy_registry", "model_gateway", "ledger", "audit_sandbox"}
        passive == {"generic_agent_trace", "canonical_action", "approval_bound_receipt",
                    "delegation_context", "policy_snapshot", "model_advice",
                    "human_decision_record", "durable_effect_receipt", "gateway_coverage"}
        chained == {"hash_chain", "hmac-sha256"}
    IN [cooperative |-> ThreatModel({}, others \cup {"agent"}, chained \cup {"none"}, {}, {}),
        adversarial_agent |-> ThreatModel({"agent"}, others, chained, {}, {}),
        external_forensics |->
            ThreatModel({"agent", "model_gateway"},
                        others \ {"framework_runtime", "model_gateway"}, {"hmac-sha256"}, {}, {}),
        best_effort_gateway |->
            ThreatModel({"agent"}, others, chained, {}, {<<"framework_runtime", "ledger">>}),
        no_replay |-> ThreatModel({"agent"}, others \ {"audit_sandbox"}, chained, passive, {}),
        irreversible_only |->
            ThreatModel({"agent"}, others, chained, passive \cup {"irreversible_wire_replay"}, {})]

CreditThreats ==
    LET others == {"framework_runtime", "decision_gateway", "policy_registry", "feature_gateway",
                   "model_gateway", "decision_service", "notice_service", "audit_sandbox"}
        passive == {"generic_decision_trace", "canonical_application", "policy_snapshot",
                    "feature_provenance", "model_reason_record", "decision_receipt",
                    "notice_receipt", "feature_coverage"}
        chained == {"hash_chain", "hmac-sha256"}
    IN [cooperative |-> ThreatModel({}, others \cup {"agent"}, chained \cup {"none"}, {}, {}),
        adversarial_agent |-> ThreatModel({"agent"}, others, chained, {}, {}),
        best_effort_features |->
            ThreatModel({"agent"}, others, chained, {}, {<<"framework_runtime", "model_gateway">>}),
        no_replay |-> ThreatModel({"agent"}, others \ {"audit_sandbox"}, chained, passive, {})]

\* Of the replays, "replay" names the one that has a harness.
PaymentSpec ==
    [anchor |-> "action", identity_fact |-> "amount", mechanisms |-> PaymentMechanisms,
     entities |-> [approval |-> {"approval_signature_valid", "approval_action_bound"},
                   delegation |-> {"delegation_executor_bound"},
                   policy_version |-> {"policy_limit", "policy_effective"},
                   review |-> {"model_recommendation", "human_decision"},
                   ledger_transaction |-> {"ledger_commit_count"},
                   replay_run |-> {"duplicate_without_tool_response"}],
     coverage |-> "gateway_coverage", replay |-> "virtualized_tool_omission_replay",
     min_trials |-> 1,
     route |-> <<"agent", "framework_runtime", "action_gateway", "ledger">>,
     mediator |-> "action_gateway",
     policy_limits |-> {100, 200}]

\* The policy's threshold is called policy_limit here as well.
CreditSpec ==
    [anchor |-> "application", identity_fact |-> "score", mechanisms |-> CreditMechanisms,
     entities |-> [decision |-> {"model_decision", "human_decision", "model_reason_code",
                                 "decision_record_bound"},
                   feature |-> {"feature_source_bound", "feature_channel_complete"},
                   policy_version |-> {"policy_limit", "policy_effective"},
                   adverse_notice |-> {"notice_reason_code"},
                   replay_run |-> {"denial_without_income_feature"}],
     coverage |-> "feature_coverage", replay |-> "virtualized_income_ablation",
     min_trials |-> 3,
     route |-> <<"agent", "framework_runtime", "feature_gateway", "model_gateway",
                 "decision_service">>,
     mediator |-> "feature_gateway",
     policy_limits |-> {600, 700}]

\* The threat models of a specification (AuditSpec.threat_models).
Threats(spec) == IF spec.anchor = "action" THEN PaymentThreats ELSE CreditThreats

bypass_edges(spec, threat) == Threats(spec)[threat].bypass

\* Every mechanism is captured at its producer, and what the agent asserts is
\* all that the agent produces.
mechanism_allowed(spec, threat, name) ==
    LET mechanism == spec.mechanisms[name]
        model == Threats(spec)[threat]
    IN /\ model.available # {} => name \in model.available
       /\ mechanism.integrity \in model.integrity
       /\ mechanism.producer \in model.compromised =>
              /\ mechanism.producer \in model.trusted
              /\ mechanism.producer # "agent"

IsReplay(spec, name) == spec.mechanisms[name].entity = "replay_run"

\* The adapter of a replay without a harness is a mere schema; the catalogues
\* agree with the registry in everything else.
validate_mechanism_adapter(spec, name) == IsReplay(spec, name) => name = spec.replay

(***************************************************************************)
(* Observations and identities                                             *)
(***************************************************************************)

TokenSources ==
    [amount_domain_token |-> {"amount"}, score_domain_token |-> {"score"},
     policy_state_domain_token |-> {"policy_limit", "policy_effective"}]

Observed(name, world) ==
    CASE name \in {"amount_redacted", "score_redacted", "policy_limit_redacted"} -> "redacted"
      [] name = "policy_effective_present" -> TRUE
      [] name \in DOMAIN TokenSources -> [fact \in TokenSources[name] |-> world[fact]]
      [] OTHER -> world[name]

observe(mechanism, world) == [name \in mechanism.observes |-> Observed(name, world)]

entity_identifier(spec, world, entity) ==
    <<entity, [fact \in spec.entities[entity] \cap DOMAIN world |-> world[fact]]>>

root_digest(spec, world) == world[spec.identity_fact]

\* Canonical identity survives a change of the run id.
_action_identity(spec, world) == <<spec.anchor, world[spec.identity_fact]>>

binding_proof(spec, world, mechanism, action) ==
    [anchor |-> action, target |-> entity_identifier(spec, world, mechanism.entity)]

(***************************************************************************)
(* The sink                                                                *)
(***************************************************************************)

EventSink(id, enabled) == [id |-> id, enabled |-> enabled, events |-> <<>>]

OfRun(events, run) == {i \in DOMAIN events : events[i].run = run}

Genesis == <<>>

\* What the next event of a run continues: the last one's number and hash.
ChainEnd(events, run) ==
    LET own == OfRun(events, run)
        last == events[Max(own)]
    IN IF own = {} THEN [sequence |-> 0, hash |-> Genesis]
       ELSE [sequence |-> last.sequence, hash |-> last.hash]

emit(sink, event) ==
    IF event.mechanism \notin sink.enabled THEN sink
    ELSE LET end == ChainEnd(sink.events, event.run)
             number == end.sequence + 1
         IN [sink EXCEPT !.events = Append(@,
                [run |-> event.run, sequence |-> number, mechanism |-> event.mechanism,
                 action |-> event.action, attributes |-> event.attributes,
                 previous |-> end.hash, hash |-> <<sink.id, event.run, number>>])]

\* EventSink.verify and _verify_trusted_chain, whose hashes and keys are genuine.
verify(events) ==
    \A i \in DOMAIN events :
        LET end == ChainEnd(SubSeq(events, 1, i - 1), events[i].run)
        IN events[i].sequence = end.sequence + 1 /\ events[i].previous = end.hash

\* No attributes beyond those of every event.
NoMore == <<>>

\* The observations an event carries are the mechanism's, those not asked for left out.
observation_values(mechanism, world, names) ==
    [o \in mechanism.observes \cap names |-> Observed(o, world)]

\* What more there is of a workflow's node does not overwrite the envelope.
event_attributes(spec, name, world, action, names, more) ==
    LET mechanism == spec.mechanisms[name]
        fields == {"observation_values", "root_digest"}
                      \cup (IF mechanism.entity # "unbound" THEN {"binding_proof"} ELSE {})
                      \cup (IF mechanism.entity = "policy_version" THEN {"policy_version_id"} ELSE {})
                      \cup (IF name = spec.coverage THEN {"declared_mediator"} ELSE {})
    IN [field \in fields \cup DOMAIN more |->
            CASE field = "observation_values" -> observation_values(mechanism, world, names)
              [] field = "root_digest" -> root_digest(spec, world)
              [] field = "binding_proof" -> binding_proof(spec, world, mechanism, action)
              [] field = "policy_version_id" -> entity_identifier(spec, world, "policy_version")
              [] field = "declared_mediator" -> spec.mediator
              [] OTHER -> more[field]]

emit_mechanism_event(sink, spec, name, world, run, action, names, more) ==
    emit(sink, [run |-> run, mechanism |-> name, action |-> action,
                attributes |-> event_attributes(spec, name, world, action, names, more)])

\* The kept ones of a stream's events, emitted again into a fresh sink that knows
\* the stream's mechanisms: their chain is whole, whatever theirs was.
resign_with_filter(id, events, kept) ==
    LET sink[n \in 0 .. Len(events)] ==
            IF n = 0 THEN EventSink(id, {events[i].mechanism : i \in DOMAIN events})
            ELSE IF n \in kept THEN emit(sink[n - 1], events[n])
            ELSE sink[n - 1]
    IN sink[Len(events)]

(***************************************************************************)
(* Mediation                                                               *)
(***************************************************************************)

\* A path from source to sink is an edge-closed set no smaller than the nodes
\* the search visits: no set that holds the source and is closed misses the sink.
_shortest_path(nodes, edges, source, sink) ==
    \A visited \in SUBSET nodes :
        (/\ source \in visited
         /\ \A e \in edges : e[1] \in visited => e[2] \in visited) => sink \in visited

verify_mediation(spec, bypass) ==
    LET nodes == ToSet(spec.route)
        edges == {<<spec.route[i], spec.route[i + 1]>> : i \in 1 .. Len(spec.route) - 1} \cup bypass
        sink == Last(spec.route)
    IN \A source \in {spec.route[1], spec.route[2]} :
          /\ _shortest_path(nodes, edges, source, sink)
          /\ spec.mediator \notin {source, sink} =>
                ~ _shortest_path(nodes, {e \in edges : spec.mediator \notin {e[1], e[2]}}, source, sink)

(***************************************************************************)
(* The verifiers                                                           *)
(***************************************************************************)

OfMechanism(events, name) == {e \in ToSet(events) : e.mechanism = name}

Values(e) == e.attributes.observation_values

ObservedNames(events) == UNION {DOMAIN Values(e) : e \in events}

observation_conflict(events) ==
    \E d, e \in events : \E o \in DOMAIN Values(d) \cap DOMAIN Values(e) : Values(d)[o] # Values(e)[o]

\* Mutant: what is observed is asked to be known, not to be all.
NothingUnknown(mechanism, events) == ObservedNames(events) \subseteq mechanism.observes

ObservationsComplete(mechanism, events) == ObservedNames(events) = mechanism.observes

Observations(events) ==
    [o \in ObservedNames(events) |-> Values(CHOOSE e \in events : o \in DOMAIN Values(e))[o]]

\* One action, one run and one root, all events contracted.
OneIdentity(events, contract) ==
    /\ \A e \in ToSet(events) : e.mechanism \in contract
    /\ \A d, e \in ToSet(events) :
          /\ d.action = e.action
          /\ d.run = e.run
          /\ d.attributes.root_digest = e.attributes.root_digest

\* A capture lists a value per trial; the proof vouches for itself.
_replay_proof_valid(spec, name, attributes) ==
    /\ "replay_proof" \in DOMAIN attributes
    /\ name = spec.replay
    /\ LET proof == attributes.replay_proof
       IN /\ Len(proof.replay_values) >= proof.trials
          /\ proof.trials >= spec.min_trials
          /\ proof.prefix_equal
          /\ proof.verifier_passed

Mediated(spec, threat, events) ==
    /\ verify_mediation(spec, bypass_edges(spec, threat))
    /\ \E e \in events : e.attributes.declared_mediator = spec.mediator

\* certify_adapter_run: against the world, the policy version it was decided
\* under included, but not against the deployment's trust: eligibility,
\* dependencies and receipts are not asked.
certify_adapter_run(spec, world, events, contract, threat) ==
    /\ verify(events)
    /\ OneIdentity(events, contract)
    /\ \A name \in contract :
          LET mechanism == spec.mechanisms[name]
              mine == OfMechanism(events, name)
          IN /\ mine # {}
             /\ \A e \in mine : e.attributes.root_digest = root_digest(spec, world)
             /\ ~ observation_conflict(mine)
             /\ mechanism.observes \subseteq ObservedNames(mine)
             /\ \A o \in mechanism.observes : Observations(mine)[o] = Observed(o, world)
             /\ mechanism.entity # "unbound" =>
                   \E e \in mine : e.attributes.binding_proof
                                       = binding_proof(spec, world, mechanism, e.action)
             /\ mechanism.entity = "policy_version" =>
                   \E e \in mine : e.attributes.policy_version_id
                                       = entity_identifier(spec, world, "policy_version")
             /\ name = spec.coverage => Mediated(spec, threat, mine)
             /\ IsReplay(spec, name) =>
                   \E e \in mine :
                       /\ _replay_proof_valid(spec, name, e.attributes)
                       /\ e.attributes.replay_proof.original_value
                              = world[e.attributes.replay_proof.source]

PolicyRoots(spec) ==
    {<<"policy_version", [policy_limit |-> limit, policy_effective |-> effective]>> :
        limit \in spec.policy_limits, effective \in BOOLEAN}

_policy_event_valid(spec, name, e, observations) ==
    /\ e.attributes.policy_version_id \in PolicyRoots(spec)
    /\ e.attributes.binding_proof.target = e.attributes.policy_version_id
    /\ observations = observe(spec.mechanisms[name], e.attributes.policy_version_id[2])

_binding_valid_without_world(e, mechanism) ==
    /\ e.attributes.binding_proof.anchor = e.action
    /\ e.attributes.binding_proof.target[1] = mechanism.entity

\* Every event that speaks of an entity speaks of the same one.
OneEntityEach(events) ==
    \A d, e \in {x \in ToSet(events) : "binding_proof" \in DOMAIN x.attributes} :
        d.attributes.binding_proof.target[1] = e.attributes.binding_proof.target[1] =>
            d.attributes.binding_proof.target[2] = e.attributes.binding_proof.target[2]

\* Receipts carry the canonical event's digest, and a record that says it is
\* bound is stored under this action.
_verify_cross_receipts(spec, events) ==
    /\ \A d, e \in ToSet(events) :
          ( /\ d.mechanism \in {"canonical_action", "canonical_application"}
            /\ "digest" \in DOMAIN d.attributes
            /\ "digest" \in DOMAIN e.attributes ) => d.attributes.digest = e.attributes.digest
    /\ \A e \in ToSet(events) :
          ( /\ "decision_record_bound" \in DOMAIN Values(e)
            /\ Values(e).decision_record_bound ) => e.attributes.stored_application = e.action

_verify_adapter_relations(spec, e) ==
    e.mechanism \in {"canonical_action", "canonical_application"} =>
        e.attributes.digest = <<"digest", Values(e)[spec.identity_fact]>>

verify_run_evidence(spec, events, contract, threat) ==
    /\ verify(events)
    /\ events # <<>>
    /\ OneIdentity(events, contract)
    /\ \A name \in contract :
          LET mechanism == spec.mechanisms[name]
              mine == OfMechanism(events, name)
          IN /\ mine # {}
             /\ mechanism_allowed(spec, threat, name)
             /\ validate_mechanism_adapter(spec, name)
             /\ mechanism.requires \subseteq contract
             /\ \A e \in mine : _verify_adapter_relations(spec, e)
             /\ ~ observation_conflict(mine)
             /\ ObservationsComplete(mechanism, mine)
             /\ mechanism.entity # "unbound" =>
                   \E e \in mine : _binding_valid_without_world(e, mechanism)
             /\ mechanism.entity = "policy_version" =>
                   \E e \in mine : _policy_event_valid(spec, name, e, Observations(mine))
             /\ name = spec.coverage => Mediated(spec, threat, mine)
             /\ IsReplay(spec, name) => \E e \in mine : _replay_proof_valid(spec, name, e.attributes)
    /\ OneEntityEach(events)
    /\ _verify_cross_receipts(spec, events)

=============================================================================
