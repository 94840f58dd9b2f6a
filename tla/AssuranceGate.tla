---------------------------- MODULE AssuranceGate ----------------------------
(***************************************************************************)
(* The verdict of the exact assurance gate (assurance.py) and the premises *)
(* that the minimality certificates quote (minimality.py).                 *)
(*                                                                         *)
(* The gate and the premises look at the same configuration with different *)
(* code.  A configuration is abstracted to the defects its checks can see: *)
(*   query          a query, claim or snapshot that is not well formed     *)
(*   unregistered   a claim or evidence schema that nobody registered      *)
(*   twin           two worlds that the contract cannot tell apart         *)
(*   registry       an adapter registry other than the one snapshotted     *)
(*   a mechanism    its adapter does not conform                           *)
(*   inventory      an inventory manifest other than the derived one, or   *)
(*                  an authority or schedule certificate that is invalid   *)
(*   bypass         a path around the mediator                             *)
(*   statement      an authority statement that cannot be parsed           *)
(*   witness        no verifier witness                                    *)
(*   value          a witness whose declared value is not a Boolean        *)
(*   replay         a witness without a replay id                          *)
(*   unreadable     a packet that the packet verifier raises on            *)
(*   attestation    no attestation                                         *)
(*   binding        the packet is bound to another run, task or claim      *)
(*   producer       an untrusted producer or capture point                 *)
(*   coverage       coverage that is not declared complete                 *)
(*   verifier       a verifier or claim semantics that is not accepted     *)
(*   input          no re-execution input can be derived from the witness  *)
(*   refused        the verifier refuses the invocation                    *)
(*   answer         the verifier's answer is not the declared one          *)
(* The two official profiles are left out.                                 *)
(***************************************************************************)
EXTENDS Integers, Sequences, FiniteSets

CONSTANT Mechanisms     \* the mechanisms of the contract

QueryFaults == {"query", "unregistered"}
ScopeFaults == {"inventory", "bypass"}
PacketFaults == [R |-> {"attestation", "binding"}, M |-> {"producer", "coverage"},
                 V |-> {"verifier", "replay"}]
ReexecutionFaults == {"input", "refused", "answer"}
NamedFaults ==
    QueryFaults \cup ScopeFaults \cup ReexecutionFaults
        \cup PacketFaults.R \cup PacketFaults.M \cup PacketFaults.V
        \cup {"twin", "registry", "statement", "witness", "value", "unreadable"}

\* Layers by name and premise atoms by layer, or by mechanism in layer R.
SingleLayers == {"Q", "A", "D", "M", "V"}
Atoms == SingleLayers \cup Mechanisms

ASSUME MechanismsAssumption ==
    Mechanisms \cap (NamedFaults \cup SingleLayers \cup {"R", "none"}) = {}

LayerOrder == <<"Q", "A", "D", "R", "M", "V">>
Layers == {"Q", "A", "D", "R", "M", "V"}
Rank == [Q |-> 1, A |-> 2, D |-> 3, R |-> 4, M |-> 5, V |-> 6]
LayerOf(atom) == IF atom \in Mechanisms THEN "R" ELSE atom

Profiles == {"audit_verifier", "registered", "isolated"}
AdequacyOutcomes == {"adequate", "model_gap", "query_gap", "raises"}

\* rebound: the atoms whose arguments name a digest that this configuration
\* does not have; a configuration's claim id is that of the atoms.
ConfigurationRecord ==
    [profile : Profiles, adequacy : AdequacyOutcomes,
     faults : SUBSET (NamedFaults \cup Mechanisms), rebound : SUBSET (Atoms \ {"A"})]

\* An attestation or a witness that is missing has no defects of its own.
Possible(c) ==
    /\ "attestation" \in c.faults => c.faults \cap {"unreadable", "producer", "coverage"} = {}
    /\ "witness" \in c.faults => c.faults \cap {"value", "replay"} = {}

Configuration == {c \in ConfigurationRecord : Possible(c)}

Reexecutes(c) == c.profile # "audit_verifier"

(***************************************************************************)
(* What each check sees                                                    *)
(***************************************************************************)

\* An invocation must be bound to the ids of a witness, and its own replay id is
\* never empty.  What the witness declares is not asked for.
query_formation_errors(c) ==
    c.faults \cap (QueryFaults \cup IF Reexecutes(c) THEN {"witness", "replay"} ELSE {})

\* The packet verifier returns at once for an unregistered claim or without a
\* witness that declares a Boolean; then it collects the errors of all its layers
\* and blames the first.
PacketStops(c) == c.faults \cap {"unregistered", "witness", "value"} # {}

PacketRaises(c) == ~PacketStops(c) /\ "unreadable" \in c.faults

packet_errors(c, layer) ==
    IF PacketStops(c) THEN {} ELSE c.faults \cap PacketFaults[layer]

first_failed_layer(c) ==
    IF "unregistered" \in c.faults THEN "Q"
    ELSE IF c.faults \cap {"witness", "value"} # {} THEN "D"
    ELSE IF packet_errors(c, "R") # {} THEN "R"
    ELSE IF packet_errors(c, "M") # {} THEN "M"
    ELSE IF packet_errors(c, "V") # {} THEN "V"
    ELSE "none"

declared_adapter_failures(c) == c.faults \cap ({"registry"} \cup Mechanisms)

declared_scope_errors(c) == c.faults \cap ScopeFaults
ScopeRaises(c) == "statement" \in c.faults

(***************************************************************************)
(* The gate: the checks in the order of the code, each with the layers     *)
(* that count as passed when it fails                                      *)
(***************************************************************************)

Check(place, layer, verdict, passed, fails) ==
    [place |-> place, layer |-> layer, verdict |-> verdict, passed |-> passed, fails |-> fails]

\* Mutant: layer R is looked at only after layer M.
ChecksScopeFirst(c, rerun) ==
    { Check(1, "Q", "QUERY_GAP", 0, query_formation_errors(c) # {}),
      Check(2, "A", "VERIFICATION_FAILURE", 1, c.adequacy = "raises"),
      Check(3, "A", "MODEL_GAP", 1, c.adequacy = "model_gap"),
      Check(4, "Q", "QUERY_GAP", 0, c.adequacy = "query_gap"),
      Check(5, "V", "VERIFICATION_FAILURE", 2, PacketRaises(c)),
      Check(6, "Q", "QUERY_GAP", 0, first_failed_layer(c) = "Q"),
      Check(7, "D", "EVIDENCE_GAP", 2, "twin" \in c.faults \/ first_failed_layer(c) = "D"),
      Check(8, "M", "VERIFICATION_FAILURE", 4, ScopeRaises(c)),
      Check(9, "M", "TCB_GAP", 4,
            declared_scope_errors(c) # {} \/ first_failed_layer(c) = "M"),
      Check(10, "R", "TCB_GAP", 3,
            declared_adapter_failures(c) # {} \/ first_failed_layer(c) = "R"),
      Check(11, "V", "VERIFICATION_FAILURE", 5, first_failed_layer(c) = "V"),
      Check(12, "V", "VERIFICATION_FAILURE", 5, Reexecutes(c) /\ "input" \in c.faults),
      Check(13, "V", "VERIFICATION_FAILURE", 5, Reexecutes(c) /\ rerun # "agrees") }

\* passed counts layers of LayerOrder.  The check before the last is the point
\* from which a verifier is run again; rerun is what came of that.
Checks(c, rerun) ==
    { Check(1, "Q", "QUERY_GAP", 0, query_formation_errors(c) # {}),
      Check(2, "A", "VERIFICATION_FAILURE", 1, c.adequacy = "raises"),
      Check(3, "A", "MODEL_GAP", 1, c.adequacy = "model_gap"),
      Check(4, "Q", "QUERY_GAP", 0, c.adequacy = "query_gap"),
      Check(5, "V", "VERIFICATION_FAILURE", 2, PacketRaises(c)),
      Check(6, "Q", "QUERY_GAP", 0, first_failed_layer(c) = "Q"),
      Check(7, "D", "EVIDENCE_GAP", 2, "twin" \in c.faults \/ first_failed_layer(c) = "D"),
      Check(8, "R", "TCB_GAP", 3,
            declared_adapter_failures(c) # {} \/ first_failed_layer(c) = "R"),
      Check(9, "M", "VERIFICATION_FAILURE", 4, ScopeRaises(c)),
      Check(10, "M", "TCB_GAP", 4,
            declared_scope_errors(c) # {} \/ first_failed_layer(c) = "M"),
      Check(11, "V", "VERIFICATION_FAILURE", 5, first_failed_layer(c) = "V"),
      Check(12, "V", "VERIFICATION_FAILURE", 5, Reexecutes(c) /\ "input" \in c.faults),
      Check(13, "V", "VERIFICATION_FAILURE", 5, Reexecutes(c) /\ rerun # "agrees") }

FailingChecks(c, rerun) == {check \in Checks(c, rerun) : check.fails}

\* The gate gets as far as running a verifier again.
ReachesReexecution(c) == Reexecutes(c) /\ FailingChecks(c, "agrees") = {}

\* The passed layers, the failed one, and the layers that come after it.
FailureTrace ==
    [layer \in Layers |-> [passed \in 0 .. 5 |->
        [i \in 1 .. passed |-> [layer |-> LayerOrder[i], status |-> "PASS"]]
            \o <<[layer |-> layer, status |-> "TYPED_FAIL"]>>
            \o [i \in 1 .. Len(LayerOrder) - Rank[layer] |->
                   [layer |-> LayerOrder[Rank[layer] + i], status |-> "SKIPPED"]]]]

Success ==
    [supported |-> TRUE, layer |-> "none", verdict |-> "VERIFIED_AUDITABLE",
     trace |-> [i \in DOMAIN LayerOrder |-> [layer |-> LayerOrder[i], status |-> "PASS"]]]

Failure(check) ==
    [supported |-> FALSE, layer |-> check.layer, verdict |-> check.verdict,
     trace |-> FailureTrace[check.layer][check.passed]]

FirstOf(checks) == CHOOSE check \in checks : \A other \in checks : check.place <= other.place

run_exact_assurance_gate(c, rerun) ==
    LET failing == FailingChecks(c, rerun)
    IN  IF failing = {} THEN Success ELSE Failure(FirstOf(failing))

(***************************************************************************)
(* The premises                                                            *)
(***************************************************************************)

\* What evaluate_premise holds against an atom, apart from its arguments.
PremiseErrors(atom, c) ==
    CASE atom = "Q" -> query_formation_errors(c)
      [] atom = "A" -> IF c.adequacy = "adequate" THEN {} ELSE {c.adequacy}
      [] atom = "D" -> c.faults \cap {"twin"}
      [] atom = "M" -> declared_scope_errors(c) \cup packet_errors(c, "M")
      [] atom = "V" -> (c.faults \cap {"witness", "replay"}) \cup packet_errors(c, "V")
      [] atom \in Mechanisms -> c.faults \cap {"registry", atom}

evaluate_premise(atom, c) == atom \notin c.rebound /\ PremiseErrors(atom, c) = {}

\* Nothing catches an exception of the checks behind these premises.
PremiseRaises(atom, c) ==
    \/ atom = "A" /\ c.adequacy = "raises"
    \/ atom = "M" /\ (ScopeRaises(c) \/ PacketRaises(c))
    \/ atom = "V" /\ PacketRaises(c)
=============================================================================
