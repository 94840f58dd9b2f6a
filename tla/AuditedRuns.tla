----------------------------- MODULE AuditedRuns -----------------------------
(***************************************************************************)
(* Runs of the two audited workflows: the payment graph and the credit     *)
(* graph (runtime/payment_graph.py, credit_graph.py), the planner that     *)
(* decides before them (planner.py), the harnesses that replay a finished  *)
(* run (replay.py, credit_replay.py), and the events they leave behind,    *)
(* which storage may lose or reorder (attacks.py).                         *)
(*                                                                         *)
(* One action per node of a graph, but execute is two: it reads the ledger *)
(* after the transaction that wrote it, and another run of the same action *)
(* may write in between.  A harness runs on databases of its own.  Its     *)
(* second run shares nothing with anyone and is one action.                *)
(***************************************************************************)
EXTENDS RunEvidence

CONSTANTS
    Runs,        \* run ids
    Scenarios,   \* what a payment or a credit run may be started with
    MaxFaults    \* bound of the model: faults of storage explored

ASSUME FaultsAssumption == MaxFaults \in Nat

VARIABLES
    runs,       \* run -> state of its graph
    databases,  \* database -> rows of its ledger, in order
    traces,     \* traces of the external planner's calls, in order
    retained,   \* run -> events kept of it
    faults      \* losses and reorderings of kept events so far

vars == <<runs, databases, traces, retained, faults>>

Shared == "shared"
Databases == {Shared} \cup Runs

\* The shared ledger is none of the harnesses' own.
ASSUME SharedAssumption == Shared \notin Runs

Idle == [phase |-> "idle"]

Init ==
    /\ runs = [r \in Runs |-> Idle]
    /\ databases = [d \in Databases |-> <<>>]
    /\ traces = <<>>
    /\ retained = [r \in Runs |-> <<>>]
    /\ faults = 0

(***************************************************************************)
(* The planner                                                             *)
(***************************************************************************)

\* What an endpoint may answer, and whether a trace is kept of it: reading the
\* usage of a response whose usage is null, or of one that is no object, raises
\* before the trace is added.
Answers == {"decided", "no_tool_call", "schema_violated", "unreachable", "usage_null", "no_object"}

Traced(answer) == answer \notin {"usage_null", "no_object"}

_call(run, answer) ==
    traces' = IF Traced(answer) THEN Append(traces, [run |-> run, valid |-> answer = "decided"])
              ELSE traces

(***************************************************************************)
(* Scenarios                                                               *)
(***************************************************************************)

PaymentFacts ==
    {"amount", "approval_signature_valid", "approval_action_bound", "delegation_executor_bound",
     "policy_limit", "policy_effective", "model_recommendation", "human_decision",
     "tool_response", "ledger_commit_count", "gateway_coverage_complete"}

CreditFacts ==
    {"score", "model_decision", "human_decision", "policy_limit", "policy_effective",
     "feature_source_bound", "model_reason_code", "notice_reason_code", "decision_record_bound",
     "feature_channel_complete"}

CommitPolicies ==
    {"single_on_success", "duplicate_on_success", "always_duplicate", "commit_on_timeout",
     "never_commit"}

Common == {"workflow", "world", "contract", "harness", "external"}

IsPayment(scenario) ==
    /\ scenario.workflow = "payment"
    /\ DOMAIN scenario = Common \cup {"commit_policy"}
    /\ scenario.commit_policy \in CommitPolicies
    /\ DOMAIN scenario.world = PaymentFacts
    /\ scenario.world.approval_action_bound \in BOOLEAN
    /\ scenario.world.ledger_commit_count = 0
    /\ scenario.contract \subseteq DOMAIN PaymentMechanisms

IsCredit(scenario) ==
    /\ scenario.workflow = "credit"
    /\ DOMAIN scenario = Common \cup {"ablation"}
    /\ DOMAIN scenario.world = CreditFacts
    /\ scenario.world.decision_record_bound \in BOOLEAN
    /\ scenario.contract \subseteq DOMAIN CreditMechanisms

\* A run's world has the facts of its workflow, what a replay finds out excepted.
ASSUME ScenariosAssumption ==
    \A scenario \in Scenarios :
        /\ IsPayment(scenario) \/ IsCredit(scenario)
        /\ scenario.world.policy_effective \in BOOLEAN
        /\ scenario.harness \in BOOLEAN

(***************************************************************************)
(* The nodes of the graphs, as functions of a run's state                  *)
(***************************************************************************)

Spec(st) == IF st.workflow = "payment" THEN PaymentSpec ELSE CreditSpec

AllNames(st, name) == Spec(st).mechanisms[name].observes

EmitSome(st, name, names, more) ==
    [st EXCEPT !.sink = emit_mechanism_event(@, Spec(st), name, st.world, st.run,
                                             _action_identity(Spec(st), st.world), names, more)]

Emit(st, name, more) == EmitSome(st, name, AllNames(st, name), more)

EmitBoth(st, first, second) == Emit(Emit(st, first, NoMore), second, NoMore)

Enter(st, phase) == [st EXCEPT !.phase = phase]

ActionDigest(st) == <<"digest", st.world[Spec(st).identity_fact]>>

\* A graph's first node roots what follows; its two coarser forms come with it.
canonicalize(st) ==
    LET root == [digest |-> ActionDigest(st)]
        rooted == IF st.workflow = "payment"
                  THEN EmitBoth(Emit(st, "canonical_action", root),
                                "coarse_amount_channel", "amount_token")
                  ELSE EmitBoth(Emit(st, "canonical_application", root),
                                "coarse_score_channel", "score_token")
    IN Enter(rooted, "canonicalized")

review(st) ==
    LET traced == EmitSome(st, "generic_agent_trace", {"model_recommendation", "human_decision"},
                           [node |-> "review"])
    IN Enter(EmitBoth(traced, "model_advice", "human_decision_record"), "reviewed")

\* Mutant: the receipt copies the action's digest.
DigestOfAction(st) == ActionDigest(st)

\* An approval of something else carries another action's digest.
ApprovedDigest(st) ==
    IF st.world.approval_action_bound THEN ActionDigest(st) ELSE <<"other-action">>

approval(st) ==
    Enter(Emit(st, "approval_bound_receipt", [digest |-> ApprovedDigest(st)]), "approval_captured")

authority(st) == Enter(Emit(st, "delegation_context", NoMore), "authority_captured")

policy(st) ==
    LET captured == Emit(st, "policy_snapshot", NoMore)
        governed == IF st.workflow = "payment"
                    THEN EmitBoth(captured, "coarse_policy_channel", "policy_state_token")
                    ELSE EmitBoth(captured, "coarse_credit_policy_channel",
                                  "credit_policy_state_token")
    IN Enter(governed, "policy_captured")

_commit_count(commit_policy, tool_response) ==
    CASE commit_policy = "single_on_success" -> IF tool_response = "success" THEN 1 ELSE 0
      [] commit_policy = "duplicate_on_success" -> IF tool_response = "success" THEN 2 ELSE 0
      [] commit_policy = "always_duplicate" -> 2
      [] commit_policy = "commit_on_timeout" -> 1
      [] commit_policy = "never_commit" -> 0

RowsWritten(st) ==
    [i \in 1 .. _commit_count(st.commit_policy, st.world.tool_response) |->
        [run |-> st.run, action |-> _action_identity(Spec(st), st.world)]]

\* Mutant: a run counts its own rows.
OwnRowsOf(st, rows) == {i \in DOMAIN rows : rows[i].run = st.run}

\* The rows of the action, whichever run wrote them.
RowsOf(st, rows) ==
    {i \in DOMAIN rows : rows[i].action = _action_identity(Spec(st), st.world)}

settle(st, rows) ==
    LET counted == [st EXCEPT !.world.ledger_commit_count = Cardinality(RowsOf(st, rows))]
        covered == Emit(counted, "gateway_coverage", NoMore)
    IN Enter(Emit(covered, "durable_effect_receipt", [digest |-> ActionDigest(st)]), "effect_committed")

report(st) ==
    LET traced == EmitSome(st, "generic_agent_trace", {"tool_response"}, [node |-> "report"])
    IN Enter(Emit(traced, "final_output", NoMore), "reported")

features(st) == Enter(EmitBoth(st, "feature_provenance", "feature_coverage"), "features_captured")

\* Without the income feature the model and the reviewer decide anew.
DecisionWorld(st) ==
    IF st.ablation_mode
    THEN [st.world EXCEPT !.model_decision = st.ablation, !.human_decision = st.ablation,
                          !.model_reason_code = "other"]
    ELSE st.world

decide(st) ==
    LET decided == [st EXCEPT !.world = DecisionWorld(st)]
        stored == IF st.world.decision_record_bound THEN _action_identity(Spec(st), st.world)
                  ELSE <<"other-application">>
        reasoned == EmitBoth(decided, "generic_decision_trace", "model_reason_record")
    IN Enter(Emit(reasoned, "decision_receipt", [stored_application |-> stored]), "decided")

notice(st) == Enter(EmitBoth(st, "notice_receipt", "final_decision"), "reported")

PaymentRun(st, rows) ==
    report(settle(policy(authority(approval(review(canonicalize(st))))), rows \o RowsWritten(st)))

CreditRun(st) == notice(decide(policy(features(canonicalize(st)))))

(***************************************************************************)
(* Runs, one node at a time                                                *)
(***************************************************************************)

\* A state or a world with more fields, those of the first where both have one.
Extend(first, second) ==
    [field \in DOMAIN first \cup DOMAIN second |->
        IF field \in DOMAIN first THEN first[field] ELSE second[field]]

\* A run's graph at its start.  A harness enables the contract's mechanisms too.
Started(run, scenario) ==
    Extend(scenario, [run |-> run, phase |-> "start", sink |-> EventSink(run, scenario.contract),
                      ablation_mode |-> FALSE])

database(r) == IF runs[r].harness THEN r ELSE Shared

\* The planner answers before the graph starts; it may be the external one.
StartRun(r, scenario) ==
    /\ runs[r] = Idle
    /\ runs' = [runs EXCEPT ![r] = Started(r, scenario)]
    /\ IF scenario.external THEN _call(r, "decided") ELSE UNCHANGED traces
    /\ UNCHANGED <<databases, retained, faults>>

\* The planner raises and the graph is never invoked.
PlannerFails(r, answer) ==
    /\ runs[r] = Idle
    /\ answer # "decided"
    /\ _call(r, answer)
    /\ runs' = [runs EXCEPT ![r] = [phase |-> "failed"]]
    /\ UNCHANGED <<databases, retained, faults>>

Step(r, workflow, phase, after) ==
    /\ runs[r].phase = phase
    /\ runs[r].workflow = workflow
    /\ runs' = [runs EXCEPT ![r] = after]
    /\ UNCHANGED <<databases, traces, retained, faults>>

Canonicalize(r) == Step(r, "payment", "start", canonicalize(runs[r]))
Review(r) == Step(r, "payment", "canonicalized", review(runs[r]))
Approval(r) == Step(r, "payment", "reviewed", approval(runs[r]))
Authority(r) == Step(r, "payment", "approval_captured", authority(runs[r]))
Policy(r) == Step(r, "payment", "authority_captured", policy(runs[r]))

\* execute, to the end of its transaction
Commit(r) ==
    /\ runs[r].phase = "policy_captured"
    /\ runs[r].workflow = "payment"
    /\ databases' = [databases EXCEPT ![database(r)] = @ \o RowsWritten(runs[r])]
    /\ runs' = [runs EXCEPT ![r].phase = "committed"]
    /\ UNCHANGED <<traces, retained, faults>>

\* execute, from the count on
CountRows(r) ==
    Step(r, "payment", "committed", settle(runs[r], databases[database(r)]))

Report(r) == Step(r, "payment", "effect_committed", report(runs[r]))

CanonicalizeApplication(r) == Step(r, "credit", "start", canonicalize(runs[r]))
Features(r) == Step(r, "credit", "canonicalized", features(runs[r]))
CreditPolicy(r) == Step(r, "credit", "features_captured", policy(runs[r]))
Decide(r) == Step(r, "credit", "policy_captured", decide(runs[r]))
Notice(r) == Step(r, "credit", "decided", notice(runs[r]))

\* A node raises (a locked or broken database): the sink goes with the run, the
\* rows stay.
Abort(r) ==
    /\ runs[r].phase \notin {"idle", "failed", "reported", "replayed"}
    /\ runs' = [runs EXCEPT ![r] = [phase |-> "failed"]]
    /\ UNCHANGED <<databases, traces, retained, faults>>

(***************************************************************************)
(* Replays                                                                 *)
(***************************************************************************)

\* The scenario under another run id, with a sink of its own.
Again(st, run) == [st EXCEPT !.run = run, !.phase = "start", !.sink = EventSink(run, @.enabled)]

\* An event without its run's label and the envelope's volatile fields.
Normalized(e) ==
    [sequence |-> e.sequence, mechanism |-> e.mechanism, action |-> e.action,
     attributes |-> e.attributes]

AfterEffect(e) ==
    \/ e.mechanism \in {"gateway_coverage", "durable_effect_receipt", "final_output"}
    \/ e.mechanism = "generic_agent_trace" /\ e.attributes.node = "report"

\* An event has its number, so that a set of them has their order.
PaymentPrefix(sink) == {Normalized(e) : e \in {x \in ToSet(sink.events) : ~ AfterEffect(x)}}

CreditPrefix(sink) ==
    {Normalized(e) : e \in {x \in ToSet(sink.events) : x.mechanism \in
        {"canonical_application", "coarse_score_channel", "score_token", "feature_provenance",
         "feature_coverage", "policy_snapshot", "coarse_credit_policy_channel",
         "credit_policy_state_token"}}}

replay_proof(source, original, replays, prefix_equal, verifier_passed) ==
    [source |-> source, original_value |-> original, replay_values |-> replays,
     trials |-> Len(replays), prefix_equal |-> prefix_equal, verifier_passed |-> verifier_passed]

\* The replay's outcome becomes a fact of the run, and its event the last one.
Concluded(st, fact, proof) ==
    LET judged == [st EXCEPT !.world = Extend(fact, @)]
    IN Enter(Emit(judged, Spec(st).replay, [replay_proof |-> proof]), "replayed")

\* Mutant: the replay runs on the original's database.
OriginalRows(r) == databases[database(r)]

\* The replay starts from the database the original started from.
ReplayRows(r) == <<>>

OmittedRun(r) ==
    PaymentRun([Again(runs[r], <<r, "replay">>) EXCEPT !.world.tool_response = "timeout"],
               ReplayRows(r))

OmitToolResponse(r) ==
    /\ runs[r].phase = "reported"
    /\ runs[r].workflow = "payment"
    /\ runs[r].harness
    /\ LET st == runs[r]
           replayed == OmittedRun(r)
           prefix_equal == PaymentPrefix(st.sink) = PaymentPrefix(replayed.sink)
           proof == replay_proof("tool_response", st.world.tool_response,
                                 <<replayed.world.tool_response>>, prefix_equal,
                                 prefix_equal /\ st.world.ledger_commit_count = 2)
       IN runs' = [runs EXCEPT ![r] =
             Concluded(st, [duplicate_without_tool_response |->
                                replayed.world.ledger_commit_count = 2], proof)]
    /\ UNCHANGED <<databases, traces, retained, faults>>

AblatedRun(r, trial) ==
    CreditRun([Again(runs[r], <<r, trial>>) EXCEPT !.ablation_mode = TRUE])

\* The decisions of the trials are recorded as what the model put out.
AblateIncome(r) ==
    /\ runs[r].phase = "reported"
    /\ runs[r].workflow = "credit"
    /\ runs[r].harness
    /\ LET st == runs[r]
           trials == [t \in 1 .. CreditSpec.min_trials |-> AblatedRun(r, t)]
           decisions == [t \in DOMAIN trials |-> trials[t].world.human_decision]
           prefix_equal == \A t \in DOMAIN trials :
                               CreditPrefix(trials[t].sink) = CreditPrefix(st.sink)
           consistent == Cardinality(ToSet(decisions)) = 1
           proof == replay_proof("model_decision", st.world.model_decision, decisions,
                                 prefix_equal, prefix_equal /\ consistent)
       IN runs' = [runs EXCEPT ![r] =
             Concluded(st, [denial_without_income_feature |->
                                \A t \in DOMAIN trials : decisions[t] = "deny"], proof)]
    /\ UNCHANGED <<databases, traces, retained, faults>>

(***************************************************************************)
(* Kept evidence                                                           *)
(***************************************************************************)

Finished(r) == runs[r].phase = "replayed" \/ (runs[r].phase = "reported" /\ ~ runs[r].harness)

\* write_jsonl
Keep(r) ==
    /\ Finished(r)
    /\ retained[r] = <<>>
    /\ faults = 0
    /\ runs[r].sink.events # <<>>
    /\ retained' = [retained EXCEPT ![r] = runs[r].sink.events]
    /\ UNCHANGED <<runs, databases, traces, faults>>

Damage(r, events) ==
    /\ faults < MaxFaults
    /\ retained[r] # <<>>
    /\ retained' = [retained EXCEPT ![r] = events]
    /\ faults' = faults + 1
    /\ UNCHANGED <<runs, databases, traces>>

LoseEvent(r, i) == Damage(r, RemoveAt(retained[r], i))

SwapEvents(r, i) ==
    /\ i + 1 \in DOMAIN retained[r]
    /\ Damage(r, [retained[r] EXCEPT ![i] = retained[r][i + 1], ![i + 1] = retained[r][i]])

\* The sink of a signature.  The events kept of a run are of one signature at a
\* time, so that their hashes need not tell the earlier ones apart.
Resigner(r) == <<r, "resigned">>

\* Some of what is kept, in the order it has come into, is emitted again into a
\* chain of its own.
Resign(r, kept) == Damage(r, resign_with_filter(Resigner(r), retained[r], kept).events)

Next ==
    \E r \in Runs :
        \/ \E scenario \in Scenarios : StartRun(r, scenario)
        \/ \E answer \in Answers : PlannerFails(r, answer)
        \/ Canonicalize(r)
        \/ Review(r)
        \/ Approval(r)
        \/ Authority(r)
        \/ Policy(r)
        \/ Commit(r)
        \/ CountRows(r)
        \/ Report(r)
        \/ CanonicalizeApplication(r)
        \/ Features(r)
        \/ CreditPolicy(r)
        \/ Decide(r)
        \/ Notice(r)
        \/ OmitToolResponse(r)
        \/ AblateIncome(r)
        \/ Abort(r)
        \/ Keep(r)
        \/ \E i \in DOMAIN retained[r] : LoseEvent(r, i) \/ SwapEvents(r, i)
        \/ \E kept \in SUBSET DOMAIN retained[r] : Resign(r, kept)

RunsSpec == Init /\ [][Next]_vars

(***************************************************************************)
(* Properties                                                              *)
(***************************************************************************)

Accepted(r, threat, events) ==
    verify_run_evidence(Spec(runs[r]), events, runs[r].contract, threat)

Certified(r, threat, events) ==
    certify_adapter_run(Spec(runs[r]), runs[r].world, events, runs[r].contract, threat)

\* What an honest run needs for its whole evidence to be accepted, besides the
\* workflow: a contract closed under its dependencies, allowed by the threat model
\* and without a replay that nothing executes, a policy the auditor knows, a
\* gateway nothing bypasses, an approval of this action, and for a payment's
\* replay a settlement that was duplicated.
Acceptable(r, threat) ==
    LET spec == Spec(runs[r])
        contract == runs[r].contract
        world == runs[r].world
    IN /\ \A name \in contract :
             /\ mechanism_allowed(spec, threat, name)
             /\ IsReplay(spec, name) => name = spec.replay
             /\ spec.mechanisms[name].requires \subseteq contract
       /\ (\E name \in contract : spec.mechanisms[name].entity = "policy_version")
              => world.policy_limit \in spec.policy_limits
       /\ spec.coverage \in contract => bypass_edges(spec, threat) = {}
       /\ "approval_bound_receipt" \in contract => world.approval_action_bound
       /\ spec.replay \in contract =>
              /\ runs[r].phase = "replayed"
              /\ runs[r].workflow = "payment" => world.ledger_commit_count = 2

\* The verifier that does not see the world accepts the whole evidence of an
\* honest run exactly when it is acceptable (verify_run_evidence), under every
\* threat model of the run's catalogue; that includes refusing the truthful
\* evidence of an approval of something else.
HonestEvidenceVerifies ==
    \A r \in Runs : (Finished(r) /\ retained[r] = <<>> /\ runs[r].contract # {}) =>
        \A threat \in DOMAIN Threats(Spec(runs[r])) :
            Accepted(r, threat, runs[r].sink.events) <=> Acceptable(r, threat)

\* What an event says, whichever chain it is in.
Said(e) == [mechanism |-> e.mechanism, action |-> e.action, attributes |-> e.attributes]

\* Whatever storage loses or reorders, and whoever signs the rest again: evidence
\* accepted without the world says everything the run emitted, nothing twice and
\* nothing else, and the oracle that knows the world certifies it.  In the chain
\* of the run's own sink it is what was emitted, event for event; events that were
\* reordered and then signed again may be accepted in their new order
\* (verify_run_evidence, certify_adapter_run).
AcceptedEvidenceIsWhole ==
    \A r \in Runs : (retained[r] # <<>> /\ Accepted(r, "cooperative", retained[r])) =>
        LET kept == retained[r]
            emitted == runs[r].sink.events
        IN /\ Len(kept) = Len(emitted)
           /\ {Said(e) : e \in ToSet(kept)} = {Said(e) : e \in ToSet(emitted)}
           /\ (\A e \in ToSet(kept) : e.hash[1] # Resigner(r)) => kept = emitted
           /\ Certified(r, "cooperative", kept)

Counted(r) == runs[r].phase \in {"effect_committed", "reported", "replayed"} /\ runs[r].workflow = "payment"

Action(r) == _action_identity(Spec(runs[r]), runs[r].world)

\* When runs of one action settle on one ledger, every row of a run that has its
\* receipt is within the largest receipt of the action, and no receipt counts a
\* row that is not there (payment_graph.execute).
SettlementsAreReported ==
    \A d \in Databases :
        LET here == {r \in Runs : Counted(r) /\ database(r) = d}
            rows(r) == {i \in DOMAIN databases[d] : databases[d][i].action = Action(r)}
            receipt(r) == runs[r].world.ledger_commit_count
        IN \A r \in here :
              /\ receipt(r) <= Cardinality(rows(r))
              /\ \E s \in here :
                    /\ Action(s) = Action(r)
                    /\ Cardinality({i \in rows(r) : databases[d][i].run \in here}) <= receipt(s)

\* A replay's counterfactual is what the workflow does without the tool response
\* or the income feature, whatever else settles at the same time; its prefix is
\* the original's, and its proof passes for a payment exactly when the original
\* was duplicated (PaymentReplayHarness, CreditReplayHarness).
ReplayIsFaithful ==
    \A r \in Runs : (runs[r].phase = "replayed" /\ Spec(runs[r]).replay \in runs[r].contract) =>
        LET st == runs[r]
            proof == Last(st.sink.events).attributes.replay_proof
        IN /\ proof.prefix_equal
           /\ IF st.workflow = "payment"
              THEN /\ st.world.duplicate_without_tool_response
                         <=> _commit_count(st.commit_policy, "timeout") = 2
                   /\ proof.verifier_passed
                         <=> _commit_count(st.commit_policy, st.world.tool_response) = 2
              ELSE /\ st.world.denial_without_income_feature <=> st.ablation = "deny"
                   /\ proof.verifier_passed

=============================================================================
