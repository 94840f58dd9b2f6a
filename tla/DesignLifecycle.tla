--------------------------- MODULE DesignLifecycle ---------------------------
(***************************************************************************)
(* The lifecycle of a claim (core/state_machine.py): states, the edges     *)
(* between them, and the record that every attempt to take an edge leaves. *)
(* An attempt that fails, or that reaches a search limit, keeps its record *)
(* and leaves the state alone.                                             *)
(***************************************************************************)
EXTENDS Integers, Sequences

VARIABLES
    state,         \* DesignLifecycle.state
    transitions    \* DesignLifecycle.transitions

lifecycleVars == <<state, transitions>>

Outcomes == {"PASS", "TYPED_FAIL", "LIMIT_REACHED"}

PASSIVE_EDGES ==
    {<<"DECLARED", "SCOPED">>,
     <<"SCOPED", "MODEL_VALIDATED">>,
     <<"MODEL_VALIDATED", "SYNTHESIZED">>,
     <<"SYNTHESIZED", "PLANNED">>,
     <<"PLANNED", "CERTIFIED">>,
     <<"CERTIFIED", "INSTALLED">>,
     <<"INSTALLED", "PREFLIGHT_PASSED">>,
     <<"PREFLIGHT_PASSED", "CAPTURING">>,
     <<"CAPTURING", "RUN_CLOSED">>,
     <<"RUN_CLOSED", "VERIFIED_AT_CAPTURE">>,
     <<"VERIFIED_AT_CAPTURE", "ARCHIVED">>,
     <<"ARCHIVED", "REVERIFIED_AT_AUDIT_TIME">>,
     <<"REVERIFIED_AT_AUDIT_TIME", "REVERIFIED_AT_AUDIT_TIME">>}

CAUSAL_EDGES ==
    {<<"SYNTHESIZED", "INTERVENTION_REQUIRED">>,
     <<"INTERVENTION_REQUIRED", "INTERVENTION_PLANNED">>,
     <<"INTERVENTION_PLANNED", "PLANNED">>,
     <<"CAPTURING", "INTERVENTION_EXECUTED">>,
     <<"INTERVENTION_EXECUTED", "RUN_CLOSED">>}

ALLOWED_EDGES == PASSIVE_EDGES \cup CAUSAL_EDGES

LifecycleStates == UNION {{e[1], e[2]} : e \in ALLOWED_EDGES}

Transition ==
    [from_state : LifecycleStates, attempted : LifecycleStates,
     resulting : LifecycleStates, outcome : Outcomes]

LifecycleInit == state = "DECLARED" /\ transitions = <<>>

\* Mutant: the attempt takes the edge whatever its outcome.
attemptAnyway(target, outcome) ==
    /\ <<state, target>> \in ALLOWED_EDGES
    /\ state' = target
    /\ transitions' = Append(transitions,
           [from_state |-> state, attempted |-> target, resulting |-> state', outcome |-> outcome])

\* Any other edge raises and changes nothing.
attempt(target, outcome) ==
    /\ <<state, target>> \in ALLOWED_EDGES
    /\ state' = IF outcome = "PASS" THEN target ELSE state
    /\ transitions' = Append(transitions,
           [from_state |-> state, attempted |-> target, resulting |-> state', outcome |-> outcome])

LifecycleNext == \E target \in LifecycleStates, outcome \in Outcomes : attempt(target, outcome)

LifecycleSpec == LifecycleInit /\ [][LifecycleNext]_lifecycleVars

(***************************************************************************)
(* Properties                                                              *)
(***************************************************************************)

LifecycleTypeOK == state \in LifecycleStates /\ transitions \in Seq(Transition)

\* The states every path from DECLARED to a state goes through.
Gates == <<"SCOPED", "MODEL_VALIDATED", "SYNTHESIZED", "PLANNED", "CERTIFIED", "INSTALLED",
           "PREFLIGHT_PASSED", "CAPTURING", "RUN_CLOSED", "VERIFIED_AT_CAPTURE", "ARCHIVED",
           "REVERIFIED_AT_AUDIT_TIME">>

\* The number of those gates that lie behind each state.
GatesBehind(s) ==
    CASE s = "DECLARED" -> 0
      [] s = "SCOPED" -> 1
      [] s = "MODEL_VALIDATED" -> 2
      [] s \in {"SYNTHESIZED", "INTERVENTION_REQUIRED", "INTERVENTION_PLANNED"} -> 3
      [] s = "PLANNED" -> 4
      [] s = "CERTIFIED" -> 5
      [] s = "INSTALLED" -> 6
      [] s = "PREFLIGHT_PASSED" -> 7
      [] s \in {"CAPTURING", "INTERVENTION_EXECUTED"} -> 8
      [] s = "RUN_CLOSED" -> 9
      [] s = "VERIFIED_AT_CAPTURE" -> 10
      [] s = "ARCHIVED" -> 11
      [] s = "REVERIFIED_AT_AUDIT_TIME" -> 12

Passed(gate) ==
    \E i \in DOMAIN transitions :
        transitions[i].attempted = gate /\ transitions[i].outcome = "PASS"

\* No gate is skipped: whatever edges are taken, passive or causal, a claim in
\* a state has a passing record for every gate that lies behind that state
\* (core/state_machine.py:34-56, 99-101).
NoGateSkipped == \A n \in 1..GatesBehind(state) : Passed(Gates[n])

=============================================================================
