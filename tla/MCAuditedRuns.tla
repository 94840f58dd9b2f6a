---------------------------- MODULE MCAuditedRuns ----------------------------
(***************************************************************************)
(* Two runs, each with one of a few scenarios chosen so that every branch  *)
(* of the workflows, of the harnesses and of the verifiers is taken.       *)
(***************************************************************************)
EXTENDS AuditedRuns

PaymentWorld ==
    [amount |-> 150, approval_signature_valid |-> TRUE, approval_action_bound |-> TRUE,
     delegation_executor_bound |-> TRUE, policy_limit |-> 200, policy_effective |-> TRUE,
     model_recommendation |-> "approve", human_decision |-> "approve",
     tool_response |-> "success", ledger_commit_count |-> 0,
     gateway_coverage_complete |-> TRUE]

Payment(world, commit_policy, contract, harness) ==
    [workflow |-> "payment", world |-> world, commit_policy |-> commit_policy,
     contract |-> contract, harness |-> harness, external |-> ~ harness]

CreditWorld ==
    [score |-> 580, model_decision |-> "deny", human_decision |-> "deny", policy_limit |-> 600,
     policy_effective |-> TRUE, feature_source_bound |-> TRUE, model_reason_code |-> "low_score",
     notice_reason_code |-> "low_score", decision_record_bound |-> TRUE,
     feature_channel_complete |-> TRUE]

Credit(world, ablation, contract, harness) ==
    [workflow |-> "credit", world |-> world, ablation |-> ablation, contract |-> contract,
     harness |-> harness, external |-> ~ harness]

Receipts == {"canonical_action", "approval_bound_receipt", "durable_effect_receipt"}
GatewayTrace == {"canonical_action", "generic_agent_trace", "model_advice", "gateway_coverage"}
Replayed == {"canonical_action", "durable_effect_receipt", "generic_agent_trace",
             "virtualized_tool_omission_replay"}
Rerun == {"canonical_action", "durable_effect_receipt", "irreversible_wire_replay"}
Governed == {"canonical_action", "policy_snapshot", "coarse_policy_channel", "policy_state_token",
             "delegation_context"}

PaymentScenarios ==
    {Payment(PaymentWorld, "single_on_success", Receipts, FALSE),
     Payment([PaymentWorld EXCEPT !.approval_action_bound = FALSE], "duplicate_on_success",
             Receipts, FALSE),
     Payment([PaymentWorld EXCEPT !.tool_response = "timeout"], "commit_on_timeout", GatewayTrace, FALSE),
     Payment([PaymentWorld EXCEPT !.policy_limit = 300], "never_commit", Governed, FALSE),
     Payment([PaymentWorld EXCEPT !.amount = 50], "single_on_success", Receipts, FALSE),
     Payment(PaymentWorld, "never_commit", Governed \ {"canonical_action"}, FALSE),
     Payment(PaymentWorld, "never_commit",
             {"canonical_action", "human_decision_record", "coarse_amount_channel", "amount_token",
              "final_output"}, FALSE),
     Payment(PaymentWorld, "always_duplicate", Rerun, FALSE),
     Payment(PaymentWorld, "duplicate_on_success", Replayed, TRUE),
     Payment(PaymentWorld, "always_duplicate", Replayed, TRUE),
     Payment(PaymentWorld, "single_on_success", Replayed, TRUE)}

Noticed == {"canonical_application", "decision_receipt", "notice_receipt", "final_decision"}
Featured == {"canonical_application", "policy_snapshot", "feature_provenance", "feature_coverage"}
Ablated == {"canonical_application", "model_reason_record", "decision_receipt",
            "virtualized_income_ablation"}

Coarse == {"generic_decision_trace", "coarse_score_channel", "score_token",
           "coarse_credit_policy_channel", "credit_policy_state_token"}

CreditScenarios ==
    {Credit([CreditWorld EXCEPT !.decision_record_bound = FALSE], "approve", Noticed, FALSE),
     Credit(CreditWorld, "approve", Featured, FALSE),
     Credit(CreditWorld, "approve", Coarse, FALSE),
     Credit(CreditWorld, "approve", Ablated, TRUE),
     Credit(CreditWorld, "deny", Ablated, TRUE)}

MCScenarios == PaymentScenarios \cup CreditScenarios

RunSymmetry == Permutations(Runs)

\* Kept evidence is damaged while nothing else runs: runs share no evidence.
OneExamined ==
    \A r \in Runs : retained[r] # <<>> => \A s \in Runs \ {r} : runs[s] = Idle

=============================================================================
