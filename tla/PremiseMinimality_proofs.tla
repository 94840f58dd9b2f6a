------------------------ MODULE PremiseMinimality_proofs ------------------------
(***************************************************************************)
(* Verdicts and certificates for any mechanisms and any configurations: a  *)
(* supported verdict is warranted, a failure blames the right layer, and a *)
(* certificate names the cause and stands.                                 *)
(***************************************************************************)
EXTENDS PremiseMinimality, WellFoundedInduction, TLAPS

\* The arguments of the calls are configurations, and gates is a sequence.
Shape ==
    /\ base \in Configuration /\ extension \in Configuration
    /\ gates \in Seq({gates[i] : i \in DOMAIN gates})

\* What a gate result says of the configuration it is about.
Warranted(c, gate) ==
    gate.supported =>
        /\ \A atom \in Atoms : PremiseErrors(atom, c) = {}
        /\ Reexecutes(c) => gate.receipt.status = "agrees"
        /\ c.profile = "isolated" => gate.receipt.return_code = "zero"

WarrantInv == Shape /\ \A i \in DOMAIN gates : Warranted(ConfigOf(i), gates[i])

\* Where the checks stand, and which layers they count as passed.
LEMMA ChecksInPlace ==
    ASSUME NEW c, NEW rerun, NEW check \in Checks(c, rerun)
    PROVE  /\ check.place \in 1 .. 13
           /\ check.layer \in Layers
           /\ check.passed = Rank[check.layer] - 1 \/ (check.place = 5 /\ (check.fails <=> PacketRaises(c)))
           /\ check.layer = "A" => check.place > 1
           /\ check.layer = "D" => check.place > 6
           /\ check.layer = "R" => check.place > 7
           /\ check.layer = "M" => check.place > 8
           /\ check.layer = "V" => check.place > 10 \/ (check.place = 5 /\ (check.fails <=> PacketRaises(c)))
           /\ check.place = 11 => (check.fails <=> first_failed_layer(c) = "V")
           /\ check.place = 13 => check.layer = "V" /\ (check.fails <=> Reexecutes(c) /\ rerun # "agrees")
<1>1. /\ Rank["Q"] = 1 /\ Rank["A"] = 2 /\ Rank["D"] = 3
      /\ Rank["R"] = 4 /\ Rank["M"] = 5 /\ Rank["V"] = 6
  BY DEF Rank
<1>2. check.place \in 1 .. 13 /\ check.layer \in Layers
  BY DEF Checks, Check, Layers
<1>3. /\ check.passed = Rank[check.layer] - 1 \/ check.place = 5
      /\ check.place = 5 => (check.fails <=> PacketRaises(c))
  BY <1>1 DEF Checks, Check
<1>4. /\ check.layer = "A" => check.place > 1
      /\ check.layer = "D" => check.place > 6
      /\ check.layer = "R" => check.place > 7
      /\ check.layer = "M" => check.place > 8
      /\ check.layer = "V" => check.place > 10 \/ check.place = 5
  BY DEF Checks, Check
<1>5. check.place = 11 => (check.fails <=> first_failed_layer(c) = "V")
  <2>1. check.place = 11 =>
            check = Check(11, "V", "VERIFICATION_FAILURE", 5, first_failed_layer(c) = "V")
    BY DEF Checks, Check
  <2>2. Check(11, "V", "VERIFICATION_FAILURE", 5, first_failed_layer(c) = "V").fails
            <=> first_failed_layer(c) = "V"
    BY DEF Check
  <2> QED BY <2>1, <2>2
<1>6. check.place = 13 => check.layer = "V" /\ (check.fails <=> Reexecutes(c) /\ rerun # "agrees")
  <2> DEFINE last == Check(13, "V", "VERIFICATION_FAILURE", 5, Reexecutes(c) /\ rerun # "agrees")
  <2>1. check.place = 13 => check = last
    BY DEF Checks, Check
  <2>2. last.layer = "V" /\ (last.fails <=> Reexecutes(c) /\ rerun # "agrees")
    BY DEF Check
  <2> HIDE DEF last
  <2> QED BY <2>1, <2>2
<1> QED BY <1>2, <1>3, <1>4, <1>5, <1>6

\* What is known when the checks before a place have passed.
LEMMA ChecksThatPass ==
    ASSUME NEW c, NEW rerun, NEW place \in Int,
           \A check \in Checks(c, rerun) : check.place < place => ~check.fails
    PROVE  /\ place > 1 => query_formation_errors(c) = {}
           /\ place > 4 => c.adequacy \notin {"raises", "model_gap", "query_gap"}
           /\ place > 5 => ~PacketRaises(c)
           /\ place > 7 => "twin" \notin c.faults
           /\ place > 8 => declared_adapter_failures(c) = {}
           /\ place > 10 => /\ declared_scope_errors(c) = {}
                            /\ first_failed_layer(c) \notin {"Q", "D", "R", "M"}
           /\ place > 11 => first_failed_layer(c) # "V"
           /\ place > 13 => (Reexecutes(c) => rerun = "agrees")
<1>1. place > 1 => query_formation_errors(c) = {}
  <2> DEFINE first == Check(1, "Q", "QUERY_GAP", 0, query_formation_errors(c) # {})
  <2>1. first \in Checks(c, rerun)
    BY DEF Checks
  <2>2. first.place = 1 /\ (first.fails <=> query_formation_errors(c) # {})
    BY DEF Check
  <2> HIDE DEF first
  <2> QED BY <2>1, <2>2
<1>2. place > 4 => c.adequacy \notin {"raises", "model_gap", "query_gap"}
  <2> DEFINE raised == Check(2, "A", "VERIFICATION_FAILURE", 1, c.adequacy = "raises")
             model == Check(3, "A", "MODEL_GAP", 1, c.adequacy = "model_gap")
             query == Check(4, "Q", "QUERY_GAP", 0, c.adequacy = "query_gap")
  <2>1. {raised, model, query} \subseteq Checks(c, rerun)
    BY DEF Checks
  <2>2. /\ raised.place = 2 /\ (raised.fails <=> c.adequacy = "raises")
        /\ model.place = 3 /\ (model.fails <=> c.adequacy = "model_gap")
        /\ query.place = 4 /\ (query.fails <=> c.adequacy = "query_gap")
    BY DEF Check
  <2> HIDE DEF raised, model, query
  <2> QED BY <2>1, <2>2
<1>3. place > 5 => ~PacketRaises(c)
  <2>1. Check(5, "V", "VERIFICATION_FAILURE", 2, PacketRaises(c)) \in Checks(c, rerun)
    BY DEF Checks
  <2> QED BY <2>1 DEF Check
<1>4. /\ place > 7 => "twin" \notin c.faults /\ first_failed_layer(c) # "D"
      /\ place > 6 => first_failed_layer(c) # "Q"
  <2>1. /\ Check(6, "Q", "QUERY_GAP", 0, first_failed_layer(c) = "Q") \in Checks(c, rerun)
        /\ Check(7, "D", "EVIDENCE_GAP", 2, "twin" \in c.faults \/ first_failed_layer(c) = "D")
               \in Checks(c, rerun)
    BY DEF Checks
  <2> QED BY <2>1 DEF Check
<1>5. place > 8 => declared_adapter_failures(c) = {} /\ first_failed_layer(c) # "R"
  <2>1. Check(8, "R", "TCB_GAP", 3,
              declared_adapter_failures(c) # {} \/ first_failed_layer(c) = "R") \in Checks(c, rerun)
    BY DEF Checks
  <2> QED BY <2>1 DEF Check
<1>6. place > 10 => declared_scope_errors(c) = {} /\ first_failed_layer(c) # "M"
  <2>1. Check(10, "M", "TCB_GAP", 4,
              declared_scope_errors(c) # {} \/ first_failed_layer(c) = "M") \in Checks(c, rerun)
    BY DEF Checks
  <2> QED BY <2>1 DEF Check
<1>7. place > 11 => first_failed_layer(c) # "V"
  <2>1. Check(11, "V", "VERIFICATION_FAILURE", 5, first_failed_layer(c) = "V") \in Checks(c, rerun)
    BY DEF Checks
  <2> QED BY <2>1 DEF Check
<1>8. place > 13 => (Reexecutes(c) => rerun = "agrees")
  <2>1. Check(13, "V", "VERIFICATION_FAILURE", 5, Reexecutes(c) /\ rerun # "agrees")
            \in Checks(c, rerun)
    BY DEF Checks
  <2> QED BY <2>1 DEF Check
<1> QED BY <1>1, <1>2, <1>3, <1>4, <1>5, <1>6, <1>7, <1>8

\* A gate that fails reports the first check that fails.
LEMMA FirstFailureIsReported ==
    ASSUME NEW c, NEW rerun, FailingChecks(c, rerun) # {}
    PROVE  \E check \in Checks(c, rerun) :
               /\ check.fails
               /\ \A other \in Checks(c, rerun) : other.place < check.place => ~other.fails
               /\ run_exact_assurance_gate(c, rerun) = Failure(check)
<1> DEFINE failing == FailingChecks(c, rerun)
           places == {check.place : check \in failing}
<1>1. \A check \in failing : check \in Checks(c, rerun) /\ check.fails /\ check.place \in Nat
  BY ChecksInPlace DEF FailingChecks
<1>2. places \subseteq Nat /\ places # {}
  BY <1>1
<1> HIDE DEF places
<1>3. PICK least \in places : \A n \in places : <<n, least>> \notin OpToRel(<, Nat)
  BY <1>2, WFMin, NatLessThanWellFounded, Zenon
<1>4. \A n \in places : least <= n
  <2>1. \A n \in places : ~(n < least)
    BY <1>2, <1>3, Zenon DEF OpToRel
  <2> QED BY <1>2, <2>1
<1>5. PICK check \in failing : check.place = least
  BY DEF places
<1>6. \A other \in failing : check.place <= other.place
  BY <1>4, <1>5 DEF places
<1>7. /\ FirstOf(failing) \in failing
      /\ \A other \in failing : FirstOf(failing).place <= other.place
  BY <1>6 DEF FirstOf
<1>8. \A other \in Checks(c, rerun) : other.place < FirstOf(failing).place => ~other.fails
  BY <1>1, <1>7, ChecksInPlace DEF FailingChecks
<1>9. run_exact_assurance_gate(c, rerun) = Failure(FirstOf(failing))
  BY DEF run_exact_assurance_gate
<1> QED BY <1>1, <1>7, <1>8, <1>9

\* A gate that supports a configuration found no fault that a premise would find,
\* and a re-execution that it calls for agreed with the declared answer.
LEMMA SupportLeavesNoPremiseError ==
    ASSUME NEW c \in Configuration, NEW rerun,
           run_exact_assurance_gate(c, rerun).supported
    PROVE  /\ \A atom \in Atoms : PremiseErrors(atom, c) = {}
           /\ Reexecutes(c) => rerun = "agrees"
<1>1. \A check \in Checks(c, rerun) : ~check.fails
  <2>1. FailingChecks(c, rerun) = {}
    BY DEF run_exact_assurance_gate, Failure
  <2> QED BY <2>1 DEF FailingChecks
<1>2. /\ query_formation_errors(c) = {}
      /\ c.adequacy \notin {"raises", "model_gap", "query_gap"}
      /\ first_failed_layer(c) \notin {"Q", "D", "R", "M", "V"}
      /\ "twin" \notin c.faults
      /\ declared_adapter_failures(c) = {}
      /\ declared_scope_errors(c) = {}
      /\ Reexecutes(c) => rerun = "agrees"
  <2>1. \A check \in Checks(c, rerun) : check.place < 14 => ~check.fails
    BY <1>1
  <2> QED BY <2>1, ChecksThatPass
<1>3. c.adequacy = "adequate"
  BY <1>2 DEF Configuration, ConfigurationRecord, AdequacyOutcomes
<1>4. /\ "witness" \notin c.faults
      /\ "replay" \notin c.faults
      /\ packet_errors(c, "M") = {}
      /\ packet_errors(c, "V") = {}
  <2>1. ~PacketStops(c) /\ packet_errors(c, "M") = {} /\ packet_errors(c, "V") = {}
    BY <1>2 DEF first_failed_layer, PacketStops
  <2> QED BY <2>1 DEF packet_errors, PacketStops, PacketFaults
<1>5. ASSUME NEW atom \in Atoms PROVE PremiseErrors(atom, c) = {}
  <2>1. CASE atom \in Mechanisms
    <3>1. atom \notin SingleLayers
      BY <2>1, MechanismsAssumption
    <3>2. c.faults \cap {"registry", atom} = {}
      BY <1>2, <2>1 DEF declared_adapter_failures
    <3> QED BY <2>1, <3>1, <3>2 DEF PremiseErrors, SingleLayers
  <2>2. CASE atom \in SingleLayers
    <3>1. atom \notin Mechanisms
      BY <2>2, MechanismsAssumption
    <3> QED BY <2>2, <3>1, <1>2, <1>3, <1>4 DEF PremiseErrors, SingleLayers
  <2> QED BY <2>1, <2>2 DEF Atoms
<1> QED BY <1>2, <1>5

\* A gate that returns appends a result that is warranted whenever its receipt is
\* that of the re-execution and, under isolation, of a process that exited.
LEMMA GateReturnKeepsWarrants ==
    ASSUME WarrantInv, NEW rerun, NEW receipt, GateReturns(rerun, receipt),
           receipt.status = rerun,
           Subject.profile = "isolated" /\ rerun = "agrees" => receipt.return_code = "zero"
    PROVE  WarrantInv'
<1> DEFINE verdict == run_exact_assurance_gate(Subject, rerun)
           result == [supported |-> verdict.supported, layer |-> verdict.layer,
                      verdict |-> verdict.verdict, trace |-> verdict.trace,
                      receipt |-> receipt]
<1>1. gates' = Append(gates, result)
  BY DEF GateReturns
<1>2. base' = base /\ extension' = extension
  BY DEF GateReturns, arguments
<1> DEFINE old == {gates[i] : i \in DOMAIN gates}
<1>3. gates \in Seq(old \cup {result})
  BY DEF WarrantInv, Shape
<1>4. /\ DOMAIN gates' = 1 .. Len(gates) + 1
      /\ \A i \in DOMAIN gates : gates'[i] = gates[i]
      /\ gates'[Len(gates) + 1] = result
      /\ DOMAIN gates = 1 .. Len(gates) /\ Len(gates) \in Nat
  <2> HIDE DEF result, old
  <2> QED BY <1>1, <1>3
<1>5. gates' \in Seq({gates'[i] : i \in DOMAIN gates'})
  <2> DEFINE new == {gates'[i] : i \in DOMAIN gates'}
  <2> HIDE DEF result
  <2>1. \A i \in 1 .. Len(gates) + 1 : gates'[i] \in new
    BY <1>4
  <2>2. gates' = [i \in 1 .. Len(gates) + 1 |-> gates'[i]]
    <3>1. gates' \in Seq(old \cup {result})
      BY <1>1, <1>3
    <3> QED BY <3>1, <1>4
  <2> HIDE DEF new
  <2>3. gates' \in [1 .. Len(gates) + 1 -> new]
    BY <2>1, <2>2
  <2>4. \A n \in Nat : \A f : f \in [1 .. n -> new] => f \in Seq(new)
    OBVIOUS
  <2>5. Len(gates) + 1 \in Nat
    BY <1>4
  <2>6. gates' \in Seq(new)
    BY <2>3, <2>4, <2>5
  <2> QED BY <2>6 DEF new
<1>6. Shape'
  BY <1>2, <1>5 DEF Shape, WarrantInv
<1>7. Subject \in Configuration
  BY DEF Subject, ConfigOf, WarrantInv, Shape
<1>8. Warranted(Subject, result)
  <2>1. verdict.supported => /\ \A atom \in Atoms : PremiseErrors(atom, Subject) = {}
                             /\ Reexecutes(Subject) => rerun = "agrees"
    BY <1>7, SupportLeavesNoPremiseError
  <2>2. result.supported = verdict.supported /\ result.receipt = receipt
    OBVIOUS
  <2> HIDE DEF verdict, result
  <2>3. Subject.profile = "isolated" => Reexecutes(Subject)
    BY DEF Reexecutes
  <2> QED BY <2>1, <2>2, <2>3 DEF Warranted
<1>9. \A i \in DOMAIN gates' : Warranted(ConfigOf(i), gates'[i])
  <2> HIDE DEF result
  <2> QED BY <1>4, <1>8 DEF Subject, WarrantInv
<1>10. \A i : ConfigOf(i)' = ConfigOf(i)
  BY <1>2 DEF ConfigOf
<1> QED BY <1>6, <1>9, <1>10 DEF WarrantInv, Warranted

\* Steps that leave the results alone, or forget them.
LEMMA OtherStepsKeepWarrants ==
    ASSUME WarrantInv, UNCHANGED arguments, gates' = gates \/ gates' = <<>>
    PROVE  WarrantInv'
<1>1. base' = base /\ extension' = extension
  BY DEF arguments
<1>2. \A i : ConfigOf(i)' = ConfigOf(i)
  BY <1>1 DEF ConfigOf
<1>3. CASE gates' = gates
  BY <1>1, <1>2, <1>3 DEF WarrantInv, Shape, Warranted
<1>4. CASE gates' = <<>>
  BY <1>1, <1>4 DEF WarrantInv, Shape
<1> QED BY <1>3, <1>4

LEMMA WarrantInvIsInductive == WarrantInv /\ [Next]_vars => WarrantInv'
<1> SUFFICES ASSUME WarrantInv, [Next]_vars PROVE WarrantInv'
  OBVIOUS
<1>1. CASE DecideAlone
  BY <1>1, GateReturnKeepsWarrants DEF DecideAlone, ReceiptWithoutProcess
<1>2. CASE DecideRegistered
  <2> DEFINE rerun == IF "refused" \in Subject.faults THEN "refused" ELSE AnswerOf(Subject)
  <2>1. GateReturns(rerun, ReceiptWithoutProcess(rerun)) /\ Subject.profile = "registered"
    BY <1>2 DEF DecideRegistered
  <2>2. ReceiptWithoutProcess(rerun).status = rerun
    BY DEF ReceiptWithoutProcess
  <2> HIDE DEF rerun
  <2> QED BY <2>1, <2>2, GateReturnKeepsWarrants
<1>3. CASE RejectInvocation
  BY <1>3, GateReturnKeepsWarrants DEF RejectInvocation, ReceiptWithoutProcess
<1>4. CASE Collect
  <2>1. PICK wall \in WallTimes,
             status \in {"limit"} \cup (IF worker = "exited" THEN {AnswerOf(Subject)}
                                        ELSE {"error"}) :
            GateReturns(status, [status |-> status, return_code |-> ReturnCode,
                                 wall_time |-> wall])
    BY <1>4 DEF Collect
  <2>2. status = "agrees" => ReturnCode = "zero"
    BY <2>1 DEF ReturnCode
  <2> QED BY <2>1, <2>2, GateReturnKeepsWarrants
<1>5. CASE Kill
  BY <1>5, GateReturnKeepsWarrants DEF Kill
<1>6. CASE LaunchRaises \/ Launch \/ BuildCredential \/ EvaluatePremises \/ Compare
           \/ CallMake \/ CallVerify \/ Expire \/ Worker
  <2>1. UNCHANGED arguments /\ (gates' = gates \/ gates' = <<>>)
    BY <1>6 DEF LaunchRaises, Launch, BuildCredential, EvaluatePremises, Compare, CallMake,
       CallVerify, Expire, Worker, WorkerOpens, WorkerWrites, WorkerExits, WorkerDies,
       WorkerStep, EndCall
  <2> QED BY <2>1, OtherStepsKeepWarrants
<1>7. CASE UNCHANGED vars
  BY <1>7, OtherStepsKeepWarrants DEF vars
<1> QED BY <1>1, <1>2, <1>3, <1>4, <1>5, <1>6, <1>7 DEF Next, Caller

LEMMA InitWarrants == Init => WarrantInv
<1> SUFFICES ASSUME Init PROVE WarrantInv
  OBVIOUS
<1>1. base \in Configuration /\ extension \in Configuration
  BY PairsAssumption DEF Init
<1>2. gates = <<>>
  BY DEF Init
<1> QED BY <1>1, <1>2 DEF WarrantInv, Shape

\* Whatever the mechanisms, the pairs of configurations and the isolated process
\* do, a supported verdict is warranted by every premise and by the re-execution.
THEOREM VerdictsAreWarranted == Spec => []SupportIsWarranted
<1>1. WarrantInv => SupportIsWarranted
  BY DEF WarrantInv, Warranted, SupportIsWarranted
<1> QED BY <1>1, InitWarrants, WarrantInvIsInductive, PTL DEF Spec

(***************************************************************************)
(* What a gate can come to, and what a certificate records                 *)
(***************************************************************************)

\* The outcomes that running a verifier again can have for a configuration.
RerunsOf(c) ==
    IF ~ReachesReexecution(c) THEN {"none"}
    ELSE IF "refused" \in c.faults THEN {"refused"}
    ELSE IF c.profile = "registered" THEN {AnswerOf(c)}
    ELSE {AnswerOf(c), "limit", "error", "timeout"}

\* The gate's result on a configuration, with the receipt of one such outcome.
Decided(c, gate) ==
    \E rerun \in RerunsOf(c) :
        /\ gate.supported = run_exact_assurance_gate(c, rerun).supported
        /\ gate.layer = run_exact_assurance_gate(c, rerun).layer
        /\ gate.verdict = run_exact_assurance_gate(c, rerun).verdict
        /\ gate.trace = run_exact_assurance_gate(c, rerun).trace
        /\ gate.receipt.status = rerun
        /\ ~ReachesReexecution(c) => gate.receipt = ReceiptWithoutProcess("none")

Readable == \A atom \in Atoms : ~PremiseRaises(atom, base) /\ ~PremiseRaises(atom, extension)

\* The removed premise, and no other, is what went wrong with the extension.
Caused ==
    /\ PremisesAreRight
    /\ Readable
    /\ CredentialExists(extension)
    /\ removed = "V" => first_failed_layer(extension) = "V"
    /\ removed \in Mechanisms => PremiseErrors(removed, extension) # {}

\* What a verified certificate says: the base can be supported, the extension
\* fails in the layer of the removed premise before a verifier is run again.
FailureOf(c) ==
    [layer |-> run_exact_assurance_gate(c, "none").layer,
     trace |-> run_exact_assurance_gate(c, "none").trace,
     receipt |-> ReceiptWithoutProcess("none")]

Certified ==
    /\ \E rerun \in RerunsOf(base) : run_exact_assurance_gate(base, rerun).supported
    /\ ~ReachesReexecution(extension)
    /\ ~run_exact_assurance_gate(extension, "none").supported
    /\ run_exact_assurance_gate(extension, "none").layer = LayerOf(removed)
    /\ certificate.base_verdict = "VERIFIED_AUDITABLE"
    /\ certificate.extension_verdict = run_exact_assurance_gate(extension, "none").verdict
    /\ certificate.credential = CredentialOf(FailureOf(extension))

\* The place in the call, and how many gates have returned by then.
Control ==
    /\ call \in {"idle", "make", "verify"}
    /\ call = "idle" <=> step = "idle"
    /\ step \in Steps
    /\ step \in {"idle", "base", "premises"} => gates = <<>>
    /\ step = "extension" => Len(gates) = 1
    /\ step \in {"credential", "compare"} => Len(gates) = 2
    /\ step \in {"waiting", "killing"} =>
           /\ Len(gates) \in {0, 1}
           /\ ReachesReexecution(Subject)
           /\ Subject.profile = "isolated"
           /\ "refused" \notin Subject.faults
    /\ worker = "running" => step \in {"waiting", "killing"}
    /\ step = "credential" => certificate = None
    /\ call = "verify" \/ step \in {"premises", "compare"} => certificate # None

CallInv ==
    /\ Shape
    /\ removed \in Atoms
    /\ Control
    /\ \A i \in DOMAIN gates : Decided(ConfigOf(i), gates[i])
    /\ certificate # None /\ step \in {"base", "extension", "waiting", "killing", "compare"}
           => (premises <=> PremisesAreRight) /\ Readable
    /\ certificate # None /\ call # "make" => Caused /\ Certified
    /\ outcome \in {"issued", "valid"} => Caused

(***************************************************************************)
(* The layer that is blamed                                                *)
(***************************************************************************)

LEMMA RanksAndOrder ==
    /\ Len(LayerOrder) = 6 /\ DOMAIN LayerOrder = 1 .. 6
    /\ LayerOrder = [j \in 1 .. 6 |-> LayerOrder[j]]
    /\ \A j \in 1 .. 6 : LayerOrder[j] \in Layers
    /\ \A layer \in Layers : Rank[layer] \in 1 .. 6 /\ LayerOrder[Rank[layer]] = layer
    /\ Rank["Q"] = 1 /\ Rank["A"] = 2 /\ Rank["D"] = 3
    /\ Rank["R"] = 4 /\ Rank["M"] = 5 /\ Rank["V"] = 6
<1>1. /\ Rank["Q"] = 1 /\ Rank["A"] = 2 /\ Rank["D"] = 3
      /\ Rank["R"] = 4 /\ Rank["M"] = 5 /\ Rank["V"] = 6
  BY DEF Rank
<1>2. /\ LayerOrder[1] = "Q" /\ LayerOrder[2] = "A" /\ LayerOrder[3] = "D"
      /\ LayerOrder[4] = "R" /\ LayerOrder[5] = "M" /\ LayerOrder[6] = "V"
  BY DEF LayerOrder
<1>3. LayerOrder \in Seq(Layers) /\ Len(LayerOrder) = 6 /\ DOMAIN LayerOrder = 1 .. 6
  BY DEF LayerOrder, Layers
<1>4. \A j \in 1 .. 6 : LayerOrder[j] \in Layers
  BY <1>2 DEF Layers
<1>5. \A layer \in Layers : Rank[layer] \in 1 .. 6 /\ LayerOrder[Rank[layer]] = layer
  BY <1>1, <1>2 DEF Layers
<1>6. LayerOrder = [j \in 1 .. 6 |-> LayerOrder[j]]
  BY <1>3
<1> QED BY <1>1, <1>3, <1>4, <1>5, <1>6

LEMMA FailureTraces ==
    ASSUME NEW layer \in Layers, NEW passed \in 0 .. 5
    PROVE  FailureTrace[layer][passed] =
               [i \in 1 .. passed |-> [layer |-> LayerOrder[i], status |-> "PASS"]]
               \o <<[layer |-> layer, status |-> "TYPED_FAIL"]>>
               \o [i \in 1 .. Len(LayerOrder) - Rank[layer] |->
                      [layer |-> LayerOrder[Rank[layer] + i], status |-> "SKIPPED"]]
  BY DEF FailureTrace

LEMMA ListsAreSequences ==
    ASSUME NEW S, NEW n \in Nat, NEW list \in [1 .. n -> S]
    PROVE  list \in Seq(S) /\ Len(list) = n
  OBVIOUS

LEMMA JoinedLists ==
    ASSUME NEW S, NEW s \in Seq(S), NEW t \in Seq(S)
    PROVE  /\ DOMAIN (s \o t) = 1 .. Len(s) + Len(t)
           /\ \A j \in 1 .. Len(s) + Len(t) :
                  (s \o t)[j] = IF j <= Len(s) THEN s[j] ELSE t[j - Len(s)]
  OBVIOUS

\* The trace of a check that counts every earlier layer as passed.
LEMMA TraceListsTheLayers ==
    ASSUME NEW check, check.layer \in Layers, check.passed = Rank[check.layer] - 1
    PROVE  [j \in DOMAIN Failure(check).trace |-> Failure(check).trace[j].layer] = LayerOrder
<1> DEFINE n == Rank[check.layer]
           entries == [layer : Layers, status : {"PASS", "TYPED_FAIL", "SKIPPED"}]
           before == [i \in 1 .. n - 1 |-> [layer |-> LayerOrder[i], status |-> "PASS"]]
           blamed == [layer |-> check.layer, status |-> "TYPED_FAIL"]
           after == [i \in 1 .. 6 - n |-> [layer |-> LayerOrder[n + i], status |-> "SKIPPED"]]
           trace == Failure(check).trace
<1>1. n \in 1 .. 6 /\ LayerOrder[n] = check.layer
  BY RanksAndOrder
<1>2. check.passed \in 0 .. 5
  BY <1>1
<1>3. trace = before \o <<blamed>> \o after
  <2>1. trace = FailureTrace[check.layer][check.passed]
    BY DEF Failure
  <2>2. Len(LayerOrder) = 6
    BY RanksAndOrder
  <2>3. FailureTrace[check.layer][check.passed] =
            [i \in 1 .. check.passed |-> [layer |-> LayerOrder[i], status |-> "PASS"]]
            \o <<blamed>>
            \o [i \in 1 .. Len(LayerOrder) - n |->
                   [layer |-> LayerOrder[n + i], status |-> "SKIPPED"]]
    BY <1>2, FailureTraces
  <2> QED BY <2>1, <2>2, <2>3
<1>4. before \in Seq(entries) /\ Len(before) = n - 1
  <2>1. \A i \in 1 .. n - 1 : before[i] \in entries
    BY <1>1, RanksAndOrder
  <2>2. n - 1 \in Nat
    BY <1>1
  <2> HIDE DEF n, entries
  <2>3. before \in [1 .. n - 1 -> entries]
    BY <2>1
  <2> HIDE DEF before
  <2> QED BY <2>2, <2>3, ListsAreSequences
<1>5. after \in Seq(entries) /\ Len(after) = 6 - n
  <2>1. \A i \in 1 .. 6 - n : after[i] \in entries
    BY <1>1, RanksAndOrder
  <2>2. 6 - n \in Nat
    BY <1>1
  <2> HIDE DEF n, entries
  <2>3. after \in [1 .. 6 - n -> entries]
    BY <2>1
  <2> HIDE DEF after
  <2> QED BY <2>2, <2>3, ListsAreSequences
<1>6. blamed \in entries /\ blamed.layer = check.layer
  OBVIOUS
<1>7. \A i \in 1 .. n - 1 : before[i].layer = LayerOrder[i]
  OBVIOUS
<1>8. \A i \in 1 .. 6 - n : after[i].layer = LayerOrder[n + i]
  OBVIOUS
<1> HIDE DEF n, before, blamed, after, entries
<1>9. /\ DOMAIN trace = 1 .. 6
      /\ \A j \in 1 .. 6 : trace[j] = IF j < n THEN before[j]
                                      ELSE IF j = n THEN blamed
                                      ELSE after[j - n]
  <2> DEFINE front == before \o <<blamed>>
  <2>1. /\ front \in Seq(entries) /\ Len(front) = n
        /\ \A j \in 1 .. n - 1 : front[j] = before[j]
        /\ front[n] = blamed
    BY <1>1, <1>4, <1>6
  <2> HIDE DEF front
  <2>2. trace = front \o after
    BY <1>3 DEF front
  <2> HIDE DEF trace
  <2>3. n \in Nat /\ 6 - n \in Nat /\ n + (6 - n) = 6
    BY <1>1
  <2>4. /\ DOMAIN trace = 1 .. 6
        /\ \A j \in 1 .. 6 : trace[j] = IF j <= n THEN front[j] ELSE after[j - n]
    <3>1. /\ DOMAIN (front \o after) = 1 .. n + (6 - n)
          /\ \A j \in 1 .. n + (6 - n) :
                 (front \o after)[j] = IF j <= n THEN front[j] ELSE after[j - n]
      BY <1>5, <2>1, JoinedLists
    <3> QED BY <2>2, <2>3, <3>1
  <2>5. ASSUME NEW j \in 1 .. 6, j < n PROVE j <= n /\ j \in 1 .. n - 1
    BY <2>3, <2>5
  <2> QED BY <2>1, <2>3, <2>4, <2>5
<1>10. \A j \in 1 .. 6 : trace[j].layer = LayerOrder[j]
  <2> SUFFICES ASSUME NEW j \in 1 .. 6 PROVE trace[j].layer = LayerOrder[j]
    OBVIOUS
  <2>1. CASE j < n
    BY <2>1, <1>1, <1>7, <1>9
  <2>2. CASE j = n
    BY <2>2, <1>1, <1>6, <1>9
  <2>3. CASE j > n
    <3>1. j - n \in 1 .. 6 - n /\ n + (j - n) = j
      BY <2>3, <1>1
    <3>2. trace[j] = after[j - n]
      BY <2>3, <1>1, <1>9
    <3> QED BY <3>1, <3>2, <1>8
  <2> QED BY <1>1, <2>1, <2>2, <2>3
<1> HIDE DEF trace
<1>11. [j \in DOMAIN trace |-> trace[j].layer] = [j \in 1 .. 6 |-> LayerOrder[j]]
  BY <1>9, <1>10
<1> QED BY <1>11, RanksAndOrder DEF trace

\* A gate that fails, on a packet that can be read, blames a layer before which
\* every premise is satisfied.
LEMMA BlameComesFirst ==
    ASSUME NEW c \in Configuration, NEW rerun,
           ~run_exact_assurance_gate(c, rerun).supported, ~PacketRaises(c)
    PROVE  LET gate == run_exact_assurance_gate(c, rerun)
           IN  /\ gate.layer \in Layers
               /\ \A atom \in Atoms : Rank[LayerOf(atom)] < Rank[gate.layer] =>
                      PremiseErrors(atom, c) = {}
               /\ [j \in DOMAIN gate.trace |-> gate.trace[j].layer] = LayerOrder
<1>1. FailingChecks(c, rerun) # {}
  BY DEF run_exact_assurance_gate, Success
<1>2. PICK check \in Checks(c, rerun) :
          /\ check.fails
          /\ \A other \in Checks(c, rerun) : other.place < check.place => ~other.fails
          /\ run_exact_assurance_gate(c, rerun) = Failure(check)
  BY <1>1, FirstFailureIsReported
<1>3. Failure(check).layer = check.layer
  BY DEF Failure
<1> DEFINE place == check.place
<1>4. /\ place \in 1 .. 13
      /\ check.layer \in Layers
      /\ check.passed = Rank[check.layer] - 1
      /\ check.layer = "A" => place > 1
      /\ check.layer = "D" => place > 6
      /\ check.layer = "R" => place > 7
      /\ check.layer = "M" => place > 8
      /\ check.layer = "V" => place > 10
      /\ place = 11 => first_failed_layer(c) = "V"
  BY <1>2, ChecksInPlace
<1>5. /\ place > 1 => query_formation_errors(c) = {}
      /\ place > 4 => c.adequacy \notin {"raises", "model_gap", "query_gap"}
      /\ place > 7 => "twin" \notin c.faults
      /\ place > 8 => declared_adapter_failures(c) = {}
      /\ place > 10 => /\ declared_scope_errors(c) = {}
                       /\ first_failed_layer(c) \notin {"Q", "D", "R", "M"}
  BY <1>2, <1>4, ChecksThatPass
<1>6. ASSUME NEW atom \in Atoms, Rank[LayerOf(atom)] < Rank[check.layer]
      PROVE  PremiseErrors(atom, c) = {}
  <2>1. CASE atom \in Mechanisms
    <3>1. LayerOf(atom) = "R" /\ atom \notin SingleLayers
      BY <2>1, MechanismsAssumption DEF LayerOf
    <3>2. place > 8
      BY <3>1, <1>4, <1>6, RanksAndOrder DEF Layers
    <3>3. c.faults \cap {"registry", atom} = {}
      BY <1>5, <2>1, <3>2 DEF declared_adapter_failures
    <3> QED BY <2>1, <3>1, <3>3 DEF PremiseErrors, SingleLayers
  <2>2. CASE atom \in SingleLayers
    <3>1. LayerOf(atom) = atom /\ atom \notin Mechanisms
      BY <2>2, MechanismsAssumption DEF LayerOf
    <3>2. CASE atom = "Q"
      <4>1. place > 1
        BY <1>4, <1>6, <3>1, <3>2, RanksAndOrder DEF Layers
      <4> QED BY <4>1, <3>1, <3>2, <1>5 DEF PremiseErrors
    <3>3. CASE atom = "A"
      <4>1. place > 4
        BY <1>4, <1>6, <3>1, <3>3, RanksAndOrder DEF Layers
      <4>2. c.adequacy = "adequate"
        BY <4>1, <1>5 DEF Configuration, ConfigurationRecord, AdequacyOutcomes
      <4> QED BY <4>2, <3>1, <3>3 DEF PremiseErrors
    <3>4. CASE atom = "D"
      <4>1. place > 7
        BY <1>4, <1>6, <3>1, <3>4, RanksAndOrder DEF Layers
      <4> QED BY <4>1, <3>1, <3>4, <1>5 DEF PremiseErrors
    <3>5. CASE atom = "M"
      <4>1. place > 10
        BY <1>4, <1>6, <3>1, <3>5, RanksAndOrder DEF Layers
      <4>2. packet_errors(c, "M") = {}
        BY <4>1, <1>5 DEF first_failed_layer, packet_errors, PacketStops
      <4> QED BY <4>1, <4>2, <3>1, <3>5, <1>5 DEF PremiseErrors
    <3>6. CASE atom = "V"
      BY <1>4, <1>6, <3>1, <3>6, RanksAndOrder DEF Layers
    <3> QED BY <2>2, <3>2, <3>3, <3>4, <3>5, <3>6 DEF SingleLayers
  <2> QED BY <2>1, <2>2 DEF Atoms
<1>7. [j \in DOMAIN Failure(check).trace |-> Failure(check).trace[j].layer] = LayerOrder
  BY <1>4, TraceListsTheLayers
<1> QED BY <1>2, <1>3, <1>4, <1>6, <1>7

(***************************************************************************)
(* The invariant of the calls                                              *)
(***************************************************************************)

\* A gate that supports says so in one way only.
LEMMA SupportIsSuccess ==
    ASSUME NEW c, NEW rerun, run_exact_assurance_gate(c, rerun).supported
    PROVE  run_exact_assurance_gate(c, rerun) = Success
<1>1. \A check : ~Failure(check).supported
  BY DEF Failure
<1> QED BY <1>1 DEF run_exact_assurance_gate

\* Only the last check depends on the re-execution, so a configuration that
\* reaches it can fail there only, in layer V.
LEMMA LateFailuresBlameV ==
    ASSUME NEW c, NEW rerun, ReachesReexecution(c),
           ~run_exact_assurance_gate(c, rerun).supported
    PROVE  /\ run_exact_assurance_gate(c, rerun).layer = "V"
           /\ rerun # "agrees"
           /\ first_failed_layer(c) # "V"
<1>1. \A check \in Checks(c, "agrees") : ~check.fails
  BY DEF ReachesReexecution, FailingChecks
<1>2. FailingChecks(c, rerun) # {}
  BY DEF run_exact_assurance_gate, Success
<1>3. PICK check \in Checks(c, rerun) :
          check.fails /\ run_exact_assurance_gate(c, rerun) = Failure(check)
  BY <1>2, FirstFailureIsReported
<1>4. check.place # 13 => check \in Checks(c, "agrees")
  BY DEF Checks, Check
<1>5. check.place = 13
  BY <1>1, <1>3, <1>4
<1>6. check.layer = "V" /\ rerun # "agrees"
  BY <1>3, <1>5, ChecksInPlace
<1>7. \A other \in Checks(c, "agrees") : other.place < 14 => ~other.fails
  BY <1>1
<1>8. first_failed_layer(c) # "V"
  BY <1>7, ChecksThatPass
<1> QED BY <1>3, <1>6, <1>8 DEF Failure

\* The arguments decide all that is said of the cause and of the certificate.
LEMMA ArgumentsDecide ==
    ASSUME UNCHANGED arguments
    PROVE  /\ Caused' = Caused
           /\ PremisesAreRight' = PremisesAreRight
           /\ Readable' = Readable
           /\ certificate' = certificate => Certified' = Certified
           /\ \A i : ConfigOf(i)' = ConfigOf(i)
<1>1. base' = base /\ extension' = extension /\ removed' = removed
  BY DEF arguments
<1>2. PremisesAreRight' = PremisesAreRight
  BY <1>1 DEF PremisesAreRight
<1>3. Readable' = Readable
  BY <1>1 DEF Readable
<1>4. Caused' = Caused
  BY <1>1, <1>2, <1>3 DEF Caused, CredentialExists
<1>5. certificate' = certificate => Certified' = Certified
  BY <1>1 DEF Certified, CredentialOf
<1>6. \A i : ConfigOf(i)' = ConfigOf(i)
  BY <1>1 DEF ConfigOf
<1> QED BY <1>2, <1>3, <1>4, <1>5, <1>6

LEMMA NoCertificate == \A c : c.kind = "certificate" => c # None
  BY DEF None

\* A gate that returns with an outcome that its configuration can have.
LEMMA ReturnKeepsCallInv ==
    ASSUME CallInv, NEW rerun \in RerunsOf(Subject), NEW receipt, GateReturns(rerun, receipt),
           receipt.status = rerun,
           ~ReachesReexecution(Subject) => receipt = ReceiptWithoutProcess("none"),
           step \in {"base", "extension", "waiting", "killing"},
           worker' # "running", Shape'
    PROVE  CallInv'
<1> DEFINE verdict == run_exact_assurance_gate(Subject, rerun)
           result == [supported |-> verdict.supported, layer |-> verdict.layer,
                      verdict |-> verdict.verdict, trace |-> verdict.trace,
                      receipt |-> receipt]
           old == {gates[i] : i \in DOMAIN gates}
<1>1. /\ gates' = Append(gates, result)
      /\ step' = Following
      /\ UNCHANGED <<arguments, call, premises, certificate, outcome>>
  BY DEF GateReturns
<1>2. Len(gates) \in {0, 1} /\ gates \in Seq(old \cup {result})
  <2>1. gates \in Seq(old) /\ Control
    BY DEF CallInv, Shape
  <2> HIDE DEF old, result
  <2>2. Len(gates) \in Nat /\ gates \in Seq(old \cup {result})
    BY <2>1
  <2>3. CASE step = "base"
    <3>1. gates = <<>>
      BY <2>1, <2>3 DEF Control
    <3> QED BY <2>2, <3>1
  <2>4. CASE step \in {"extension", "waiting", "killing"}
    <3>1. Len(gates) \in {0, 1}
      BY <2>1, <2>4 DEF Control
    <3> QED BY <2>2, <3>1
  <2> QED BY <2>3, <2>4
<1>3. Decided(Subject, result)
  <2>1. /\ result.supported = verdict.supported /\ result.layer = verdict.layer
        /\ result.verdict = verdict.verdict /\ result.trace = verdict.trace
        /\ result.receipt = receipt
    OBVIOUS
  <2> HIDE DEF result
  <2> QED BY <2>1 DEF Decided
<1> HIDE DEF result, old
<1>4. /\ DOMAIN gates' = 1 .. Len(gates) + 1
      /\ \A i \in DOMAIN gates : gates'[i] = gates[i]
      /\ gates'[Len(gates) + 1] = result
      /\ DOMAIN gates = 1 .. Len(gates)
      /\ Len(gates') = Len(gates) + 1
  BY <1>1, <1>2
<1>5. \A i \in DOMAIN gates' : Decided(ConfigOf(i), gates'[i])
  BY <1>2, <1>3, <1>4 DEF CallInv, Subject
<1>6. \A i \in DOMAIN gates' : Decided(ConfigOf(i), gates[i])'
  BY <1>1, <1>5, ArgumentsDecide DEF Decided
<1>7. Control'
  <2>1. /\ Len(gates) = 0 => step' = "extension" /\ Len(gates') = 1
        /\ Len(gates) = 1 => /\ Len(gates') = 2
                             /\ certificate = None => step' = "credential"
                             /\ certificate # None => step' = "compare"
    BY <1>1, <1>4 DEF Following
  <2>2. step # "idle" /\ call # "idle"
    BY DEF CallInv, Control
  <2> QED BY <1>1, <1>2, <2>1, <2>2 DEF CallInv, Control, Steps
<1>8. UNCHANGED <<call, outcome, certificate, premises, removed>>
  BY <1>1 DEF arguments
<1>9. /\ Caused' = Caused /\ PremisesAreRight' = PremisesAreRight
      /\ Readable' = Readable /\ Certified' = Certified
  BY <1>1, ArgumentsDecide
<1> QED BY <1>6, <1>7, <1>8, <1>9 DEF CallInv

\* A call that ends with a certificate that verifies, or without.
LEMMA EndKeepsCallInv ==
    ASSUME CallInv, NEW how, EndCall(how), step # "idle", UNCHANGED process,
           worker # "running", Shape',
           \/ how \in {"raised", "invalid"}
           \/ how = "issued" /\ call = "make" /\ Caused /\ Certified
           \/ how = "valid" /\ call = "verify"
    PROVE  CallInv'
<1>1. /\ UNCHANGED arguments
      /\ outcome' = how /\ call' = "idle" /\ step' = "idle" /\ gates' = <<>>
      /\ certificate' = IF call = "make" /\ how # "issued" THEN None ELSE certificate
      /\ worker' # "running"
  BY DEF EndCall, process
<1>2. call \in {"make", "verify"}
  BY DEF CallInv, Control
<1>3. removed' \in Atoms
  BY <1>1 DEF CallInv, arguments
<1>4. Control'
  BY <1>1 DEF Control, Steps
<1>5. \A i \in DOMAIN gates' : Decided(ConfigOf(i), gates[i])'
  BY <1>1
<1>6. /\ Caused' = Caused
      /\ certificate' = certificate => Certified' = Certified
  BY <1>1, ArgumentsDecide
<1>7. certificate' # None => Caused' /\ Certified'
  <2>1. CASE call = "make" /\ how # "issued"
    BY <1>1, <2>1
  <2>2. CASE call = "make" /\ how = "issued"
    BY <1>1, <1>6, <2>2
  <2>3. CASE call = "verify"
    <3>1. certificate' = certificate /\ certificate # None
      BY <1>1, <2>3 DEF CallInv, Control
    <3> QED BY <1>6, <2>3, <3>1 DEF CallInv
  <2> QED BY <1>2, <2>1, <2>2, <2>3
<1>8. outcome' \in {"issued", "valid"} => Caused'
  <2>1. CASE how = "valid" /\ call = "verify"
    BY <2>1, <1>6 DEF CallInv, Control
  <2>2. CASE how = "issued"
    BY <2>2, <1>6
  <2> QED BY <1>1, <2>1, <2>2
<1> QED BY <1>1, <1>3, <1>4, <1>5, <1>7, <1>8 DEF CallInv

\* What the comparison accepts is a certificate of the cause.
LEMMA VerifiedIsCertified ==
    ASSUME CallInv, step = "compare", CertificateVerifies
    PROVE  Caused /\ Certified
<1>1. /\ Len(gates) = 2 /\ certificate # None
      /\ PremisesAreRight /\ Readable
      /\ base \in Configuration /\ extension \in Configuration /\ removed \in Atoms
  BY DEF CallInv, Control, CertificateVerifies, Shape
<1>2. Decided(base, gates[1]) /\ Decided(extension, gates[2])
  <2>1. 1 \in DOMAIN gates /\ 2 \in DOMAIN gates
    BY <1>1 DEF CallInv, Shape
  <2> QED BY <2>1 DEF CallInv, ConfigOf
<1>3. Caused
  BY <1>1 DEF Caused, CertificateVerifies, NativeValid
<1>4. PICK r1 \in RerunsOf(base) :
          /\ gates[1].supported = run_exact_assurance_gate(base, r1).supported
          /\ gates[1].verdict = run_exact_assurance_gate(base, r1).verdict
  BY <1>2 DEF Decided
<1>5. run_exact_assurance_gate(base, r1).supported
  BY <1>4 DEF CertificateVerifies
<1>6. certificate.base_verdict = "VERIFIED_AUDITABLE"
  BY <1>4, <1>5, SupportIsSuccess DEF CertificateVerifies, Success
<1>7. PICK r2 \in RerunsOf(extension) :
          /\ gates[2].supported = run_exact_assurance_gate(extension, r2).supported
          /\ gates[2].layer = run_exact_assurance_gate(extension, r2).layer
          /\ gates[2].verdict = run_exact_assurance_gate(extension, r2).verdict
          /\ gates[2].trace = run_exact_assurance_gate(extension, r2).trace
          /\ ~ReachesReexecution(extension) => gates[2].receipt = ReceiptWithoutProcess("none")
  BY <1>2 DEF Decided
<1>8. /\ ~run_exact_assurance_gate(extension, r2).supported
      /\ run_exact_assurance_gate(extension, r2).layer = LayerOf(removed)
  BY <1>7 DEF CertificateVerifies
<1>9. ~ReachesReexecution(extension)
  <2> SUFFICES ASSUME ReachesReexecution(extension) PROVE FALSE
    OBVIOUS
  <2>1. LayerOf(removed) = "V" /\ first_failed_layer(extension) # "V"
    BY <1>8, LateFailuresBlameV
  <2>2. removed = "V"
    BY <2>1 DEF LayerOf
  <2> QED BY <1>3, <2>1, <2>2 DEF Caused
<1>10. r2 = "none" /\ gates[2].receipt = ReceiptWithoutProcess("none")
  BY <1>7, <1>9 DEF RerunsOf
<1>11. certificate.credential = CredentialOf(FailureOf(extension))
  <2>1. /\ FailureOf(extension).layer = gates[2].layer
        /\ FailureOf(extension).trace = gates[2].trace
        /\ FailureOf(extension).receipt = gates[2].receipt
    BY <1>7, <1>10 DEF FailureOf
  <2> QED BY <2>1 DEF CertificateVerifies, NativeValid, CredentialOf
<1>12. certificate.extension_verdict = run_exact_assurance_gate(extension, "none").verdict
  BY <1>7, <1>10 DEF CertificateVerifies
<1> QED BY <1>3, <1>5, <1>6, <1>8, <1>9, <1>10, <1>11, <1>12 DEF Certified

\* Whatever a gate returns is one of the outcomes of its configuration.
LEMMA GatesDecide ==
    ASSUME Control,
           DecideAlone \/ DecideRegistered \/ RejectInvocation \/ Collect \/ Kill
    PROVE  /\ step \in {"base", "extension", "waiting", "killing"}
           /\ worker' # "running"
           /\ \E rerun \in RerunsOf(Subject), receipt \in Receipt :
                  /\ GateReturns(rerun, receipt)
                  /\ receipt.status = rerun
                  /\ ~ReachesReexecution(Subject) => receipt = ReceiptWithoutProcess("none")
<1>1. \A status \in Reruns : ReceiptWithoutProcess(status) \in Receipt
                             /\ ReceiptWithoutProcess(status).status = status
  BY DEF ReceiptWithoutProcess, Receipt, Reruns, ReturnCodes, WallTimes
<1>2. AnswerOf(Subject) \in {"agrees", "disagrees"}
  BY DEF AnswerOf
<1>3. CASE DecideAlone
  <2>1. /\ ~ReachesReexecution(Subject) /\ GateReturns("none", ReceiptWithoutProcess("none"))
        /\ step \in {"base", "extension"} /\ worker' = worker
    BY <1>3 DEF DecideAlone, AtGate, process
  <2>2. "none" \in RerunsOf(Subject) /\ "none" \in Reruns
    BY <2>1 DEF RerunsOf, Reruns
  <2> QED BY <1>1, <2>1, <2>2 DEF Control
<1>4. CASE DecideRegistered
  <2> DEFINE rerun == IF "refused" \in Subject.faults THEN "refused" ELSE AnswerOf(Subject)
  <2>1. /\ ReachesReexecution(Subject) /\ Subject.profile = "registered"
        /\ GateReturns(rerun, ReceiptWithoutProcess(rerun))
        /\ step \in {"base", "extension"} /\ worker' = worker
    BY <1>4 DEF DecideRegistered, AtGate, process
  <2>2. rerun \in RerunsOf(Subject) /\ rerun \in Reruns
    BY <1>2, <2>1 DEF RerunsOf, Reruns
  <2> HIDE DEF rerun
  <2> QED BY <1>1, <2>1, <2>2 DEF Control
<1>5. CASE RejectInvocation
  <2>1. /\ ReachesReexecution(Subject) /\ "refused" \in Subject.faults
        /\ GateReturns("refused", ReceiptWithoutProcess("refused"))
        /\ step \in {"base", "extension"} /\ worker' = worker
    BY <1>5 DEF RejectInvocation, AtGate, process
  <2>2. "refused" \in RerunsOf(Subject) /\ "refused" \in Reruns
    BY <2>1 DEF RerunsOf, Reruns
  <2> QED BY <1>1, <2>1, <2>2 DEF Control
<1>6. CASE Collect \/ Kill
  <2>1. /\ step \in {"waiting", "killing"}
        /\ ReachesReexecution(Subject)
        /\ Subject.profile = "isolated" /\ "refused" \notin Subject.faults
        /\ worker' = "none"
    BY <1>6 DEF Collect, Kill, Control, ProcessIsGone
  <2>2. RerunsOf(Subject) = {AnswerOf(Subject), "limit", "error", "timeout"}
    BY <2>1 DEF RerunsOf
  <2>3. ReturnCode \in ReturnCodes
    BY DEF ReturnCode, ReturnCodes
  <2>4. \A status \in RerunsOf(Subject), wall \in WallTimes :
            LET receipt == [status |-> status, return_code |-> ReturnCode, wall_time |-> wall]
            IN  receipt \in Receipt /\ receipt.status = status
    BY <1>2, <2>2, <2>3 DEF Receipt, Reruns
  <2>5. \E status \in RerunsOf(Subject), wall \in WallTimes :
            GateReturns(status, [status |-> status, return_code |-> ReturnCode,
                                 wall_time |-> wall])
    <3>1. CASE Collect
      BY <3>1, <2>2 DEF Collect
    <3>2. CASE Kill
      BY <3>2, <2>2 DEF Kill, WallTimes
    <3> QED BY <1>6, <3>1, <3>2
  <2> QED BY <2>1, <2>4, <2>5
<1> QED BY <1>3, <1>4, <1>5, <1>6

LEMMA CallInvIsInductive == WarrantInv' /\ CallInv /\ [Next]_vars => CallInv'
<1> SUFFICES ASSUME WarrantInv', CallInv, [Next]_vars PROVE CallInv'
  OBVIOUS
<1>0. Shape' /\ Control
  BY DEF WarrantInv, CallInv
<1>1. CASE DecideAlone \/ DecideRegistered \/ RejectInvocation \/ Collect \/ Kill
  BY <1>0, <1>1, GatesDecide, ReturnKeepsCallInv
\* Steps that leave the gates, the certificate and its history alone.
<1>2. ASSUME UNCHANGED <<arguments, gates, certificate, outcome>>, Control',
             certificate # None /\ step' \in {"base", "extension", "waiting", "killing", "compare"}
                 => (premises' <=> PremisesAreRight) /\ Readable,
             certificate # None /\ call' # "make" => call # "make"
      PROVE  CallInv'
  <2>1. removed' \in Atoms
    BY <1>2 DEF CallInv, arguments
  <2>2. \A i \in DOMAIN gates' : Decided(ConfigOf(i), gates[i])'
    BY <1>2, ArgumentsDecide DEF CallInv, Decided
  <2>3. /\ Caused' = Caused /\ PremisesAreRight' = PremisesAreRight
        /\ Readable' = Readable /\ Certified' = Certified
    BY <1>2, ArgumentsDecide
  <2> QED BY <1>0, <1>2, <2>1, <2>2, <2>3 DEF CallInv
<1>3. CASE LaunchRaises
  BY <1>0, <1>3, EndKeepsCallInv DEF LaunchRaises, AtGate, Control
<1>4. CASE Launch
  <2>1. /\ UNCHANGED <<arguments, call, gates, premises, certificate, outcome>>
        /\ step \in {"base", "extension"} /\ step' = "waiting"
        /\ ReachesReexecution(Subject) /\ Subject.profile = "isolated"
        /\ "refused" \notin Subject.faults
    BY <1>4 DEF Launch, AtGate
  <2>2. Len(gates) \in {0, 1}
    BY <1>0, <2>1 DEF Control
  <2>3. Subject' = Subject
    BY <2>1 DEF Subject, ConfigOf, arguments
  <2>4. Control'
    BY <1>0, <2>1, <2>2, <2>3 DEF Control, Steps
  <2> QED BY <1>2, <2>1, <2>4 DEF CallInv
<1>5. CASE BuildCredential
  <2>1. step = "credential" /\ certificate = None /\ call = "make"
    BY <1>0, <1>5 DEF BuildCredential, Control
  <2>2. CASE EndCall("raised")
    BY <1>0, <1>5, <2>1, <2>2, EndKeepsCallInv DEF BuildCredential, Control
  <2>3. CASE ~EndCall("raised")
    <3>1. /\ certificate'.kind = "certificate"
          /\ step' = "premises" /\ gates' = <<>>
          /\ UNCHANGED <<arguments, call, outcome, process>>
      BY <1>5, <2>3 DEF BuildCredential
    <3>2. certificate' # None
      BY <3>1, NoCertificate
    <3>3. Control'
      BY <1>0, <2>1, <3>1, <3>2 DEF Control, Steps, process
    <3>4. removed' \in Atoms /\ Caused' = Caused
      BY <3>1, ArgumentsDecide DEF CallInv, arguments
    <3> QED BY <1>0, <2>1, <3>1, <3>3, <3>4 DEF CallInv
  <2> QED BY <2>2, <2>3
<1>6. CASE EvaluatePremises
  <2>1. step = "premises" /\ certificate # None /\ UNCHANGED process
    BY <1>0, <1>6 DEF EvaluatePremises, Control
  <2>2. CASE EndCall("raised")
    BY <1>0, <2>1, <2>2, EndKeepsCallInv DEF Control
  <2>3. CASE ~EndCall("raised")
    <3>1. /\ Readable
          /\ premises' = PremisesAreRight
          /\ step' = "base"
          /\ UNCHANGED <<arguments, call, gates, certificate, outcome>>
      BY <1>6, <2>3 DEF EvaluatePremises, Readable
    <3>2. Control'
      BY <1>0, <2>1, <3>1 DEF Control, Steps, process
    <3> QED BY <1>2, <3>1, <3>2
  <2> QED BY <2>2, <2>3
<1>7. CASE Compare
  <2>1. /\ step = "compare" /\ UNCHANGED process
        /\ call \in {"make", "verify"} /\ worker # "running"
    BY <1>0, <1>7 DEF Compare, Control
  <2>2. CASE CertificateVerifies
    <3>1. Caused /\ Certified
      BY <2>1, <2>2, VerifiedIsCertified
    <3>2. CASE call = "make"
      <4>1. EndCall("issued")
        BY <1>7, <2>2, <3>2 DEF Compare
      <4> QED BY <1>0, <2>1, <3>1, <3>2, <4>1, EndKeepsCallInv
    <3>3. CASE call = "verify"
      <4>1. EndCall("valid")
        BY <1>7, <2>2, <3>3 DEF Compare
      <4> QED BY <1>0, <2>1, <3>3, <4>1, EndKeepsCallInv
    <3> QED BY <2>1, <3>2, <3>3
  <2>3. CASE ~CertificateVerifies
    <3>1. EndCall("raised") \/ EndCall("invalid")
      BY <1>7, <2>1, <2>3 DEF Compare
    <3> QED BY <1>0, <2>1, <3>1, EndKeepsCallInv
  <2> QED BY <2>2, <2>3
<1>8. CASE CallMake
  <2>1. /\ call = "idle" /\ certificate = None /\ step = "idle"
        /\ call' = "make" /\ step' = "base"
        /\ UNCHANGED <<arguments, gates, premises, certificate, outcome, process>>
    BY <1>0, <1>8 DEF CallMake, Control
  <2>2. Control'
    BY <1>0, <2>1 DEF Control, Steps, process
  <2> QED BY <1>2, <2>1, <2>2
<1>9. CASE CallVerify
  <2>1. /\ call = "idle" /\ certificate # None /\ step = "idle"
        /\ call' = "verify" /\ step' = "premises"
        /\ UNCHANGED <<arguments, gates, premises, certificate, outcome, process>>
    BY <1>0, <1>9 DEF CallVerify, Control
  <2>2. Control'
    BY <1>0, <2>1 DEF Control, Steps, process
  <2> QED BY <1>2, <2>1, <2>2
<1>10. CASE Expire
  <2>1. /\ step = "waiting" /\ step' = "killing"
        /\ UNCHANGED <<arguments, call, gates, premises, certificate, outcome, process>>
    BY <1>10 DEF Expire
  <2>2. Subject' = Subject
    BY <2>1 DEF Subject, ConfigOf, arguments
  <2>3. Control'
    BY <1>0, <2>1, <2>2 DEF Control, Steps, process
  <2> QED BY <1>2, <2>1, <2>3 DEF CallInv
<1>11. CASE Worker
  <2>1. /\ UNCHANGED <<arguments, call, step, gates, premises, certificate, outcome>>
        /\ worker' = "running" => worker = "running"
    BY <1>11 DEF Worker, WorkerOpens, WorkerWrites, WorkerExits, WorkerDies, WorkerStep
  <2>2. Subject' = Subject
    BY <2>1 DEF Subject, ConfigOf, arguments
  <2>3. Control'
    BY <1>0, <2>1, <2>2 DEF Control
  <2> QED BY <1>2, <2>1, <2>3 DEF CallInv
<1>12. CASE UNCHANGED vars
  <2>1. UNCHANGED <<arguments, call, step, gates, premises, certificate, outcome, worker>>
    BY <1>12 DEF vars, process
  <2>2. Subject' = Subject
    BY <2>1 DEF Subject, ConfigOf, arguments
  <2>3. Control'
    BY <1>0, <2>1, <2>2 DEF Control
  <2> QED BY <1>2, <2>1, <2>3 DEF CallInv
<1> QED BY <1>1, <1>3, <1>4, <1>5, <1>6, <1>7, <1>8, <1>9, <1>10, <1>11, <1>12 DEF Next, Caller

LEMMA CallInvHolds == Spec => [](WarrantInv /\ CallInv)
<1>1. Init => WarrantInv
  BY InitWarrants
<1>2. Init => CallInv
  <2> SUFFICES ASSUME Init PROVE CallInv
    OBVIOUS
  <2>1. Shape
    BY InitWarrants DEF WarrantInv
  <2>2. /\ removed \in Atoms /\ gates = <<>> /\ call = "idle" /\ step = "idle"
        /\ certificate = None /\ outcome = "none" /\ worker = "none"
    BY DEF Init
  <2>3. Control
    BY <2>2 DEF Control, Steps
  <2> QED BY <2>1, <2>2, <2>3 DEF CallInv
<1> QED BY <1>1, <1>2, WarrantInvIsInductive, CallInvIsInductive, PTL DEF Spec

\* Whatever the mechanisms, the pairs of configurations and the isolated process
\* do, a failure blames a layer before which every premise is satisfied.
THEOREM BlameIsOrdered == Spec => []BlamedLayerIsFirst
<1>1. WarrantInv /\ CallInv => BlamedLayerIsFirst
  <2> SUFFICES ASSUME CallInv,
                      NEW i \in DOMAIN gates, ~gates[i].supported, ~PacketRaises(ConfigOf(i))
               PROVE  /\ \A atom \in Atoms : Rank[LayerOf(atom)] < Rank[gates[i].layer] =>
                             PremiseErrors(atom, ConfigOf(i)) = {}
                      /\ [j \in DOMAIN gates[i].trace |-> gates[i].trace[j].layer] = LayerOrder
    BY DEF BlamedLayerIsFirst
  <2>1. ConfigOf(i) \in Configuration
    BY DEF CallInv, Shape, ConfigOf
  <2>2. PICK rerun \in RerunsOf(ConfigOf(i)) :
            /\ gates[i].supported = run_exact_assurance_gate(ConfigOf(i), rerun).supported
            /\ gates[i].layer = run_exact_assurance_gate(ConfigOf(i), rerun).layer
            /\ gates[i].trace = run_exact_assurance_gate(ConfigOf(i), rerun).trace
    BY DEF CallInv, Decided
  <2> QED BY <2>1, <2>2, BlameComesFirst
<1> QED BY <1>1, CallInvHolds, PTL

(***************************************************************************)
(* Certificates                                                            *)
(***************************************************************************)

\* No other check than those of the gate stands between a configuration without
\* defects and a supported verdict.
LEMMA FlawlessIsSupported ==
    ASSUME NEW c, c.faults = {}, c.adequacy = "adequate"
    PROVE  run_exact_assurance_gate(c, "agrees").supported
<1>1. /\ query_formation_errors(c) = {} /\ declared_scope_errors(c) = {}
      /\ declared_adapter_failures(c) = {} /\ ~PacketRaises(c) /\ ~ScopeRaises(c)
      /\ \A layer \in {"R", "M", "V"} : packet_errors(c, layer) = {}
  BY DEF query_formation_errors, declared_scope_errors, declared_adapter_failures,
     PacketRaises, ScopeRaises, packet_errors
<1>2. first_failed_layer(c) = "none"
  BY <1>1 DEF first_failed_layer
<1>3. \A check \in Checks(c, "agrees") : ~check.fails
  <2> DEFINE failing == {query_formation_errors(c) # {}, c.adequacy = "raises",
                         c.adequacy = "model_gap", c.adequacy = "query_gap", PacketRaises(c),
                         first_failed_layer(c) = "Q",
                         "twin" \in c.faults \/ first_failed_layer(c) = "D",
                         declared_adapter_failures(c) # {} \/ first_failed_layer(c) = "R",
                         ScopeRaises(c),
                         declared_scope_errors(c) # {} \/ first_failed_layer(c) = "M",
                         first_failed_layer(c) = "V",
                         Reexecutes(c) /\ "input" \in c.faults,
                         Reexecutes(c) /\ "agrees" # "agrees"}
  <2>1. \A fails \in failing : ~fails
    BY <1>1, <1>2
  <2>2. \A place, layer, verdict, passed, fails :
            Check(place, layer, verdict, passed, fails).fails = fails
    BY DEF Check
  <2>3. \A check \in Checks(c, "agrees") : check.fails \in failing
    BY <2>2 DEF Checks
  <2> QED BY <2>1, <2>3
<1>4. FailingChecks(c, "agrees") = {}
  BY <1>3 DEF FailingChecks
<1> QED BY <1>4 DEF run_exact_assurance_gate, Success

\* Every defect that a premise covers is one of the removed premise.
LEMMA OneCause ==
    ASSUME extension \in Configuration, removed \in Atoms, Caused,
           extension.faults \cap {"unregistered", "value"} = {}, Mechanisms # {}
    PROVE  Repaired(extension).faults = {} /\ Repaired(extension).adequacy = "adequate"
<1> DEFINE errors == PremiseErrors(removed, extension)
<1>1. \A atom \in Atoms : atom # removed => PremiseErrors(atom, extension) = {}
  BY DEF Caused, PremisesAreRight, evaluate_premise
<1>2. /\ {"Q", "A", "D", "M", "V"} \subseteq Atoms /\ Mechanisms \subseteq Atoms
      /\ {"Q", "A", "D", "M", "V"} \cap Mechanisms = {}
  BY MechanismsAssumption DEF Atoms, SingleLayers
<1>3. /\ PremiseErrors("Q", extension) = query_formation_errors(extension)
      /\ PremiseErrors("A", extension) = IF extension.adequacy = "adequate" THEN {} ELSE {extension.adequacy}
      /\ PremiseErrors("D", extension) = extension.faults \cap {"twin"}
      /\ PremiseErrors("M", extension) = declared_scope_errors(extension) \cup packet_errors(extension, "M")
      /\ PremiseErrors("V", extension)
             = (extension.faults \cap {"witness", "replay"}) \cup packet_errors(extension, "V")
  BY <1>2 DEF PremiseErrors
<1>4. \A m \in Mechanisms : PremiseErrors(m, extension) = extension.faults \cap {"registry", m}
  <2> TAKE m \in Mechanisms
  <2>1. m \notin {"Q", "A", "D", "M", "V"}
    BY <1>2
  <2> QED BY <2>1 DEF PremiseErrors
<1>5. "witness" \notin extension.faults
  <2> SUFFICES ASSUME "witness" \in extension.faults PROVE FALSE
    OBVIOUS
  <2>1. PremiseErrors("V", extension) # {}
    BY <1>3
  <2>2. removed = "V"
    BY <1>1, <1>2, <2>1
  <2>3. first_failed_layer(extension) = "V"
    BY <2>2 DEF Caused
  <2> QED BY <2>3 DEF first_failed_layer
<1>6. ~PacketStops(extension)
  BY <1>5 DEF PacketStops
<1>7. extension.faults \cap {"statement", "unreadable"} = {}
  <2>1. ~PremiseRaises("M", extension)
    BY <1>2 DEF Caused, Readable
  <2> QED BY <1>6, <2>1 DEF PremiseRaises, ScopeRaises, PacketRaises
<1>8. ASSUME NEW fault \in extension.faults, fault \notin NotCoveredByPremises
      PROVE  fault \in errors
  <2>1. fault \in NamedFaults \cup Mechanisms
    BY DEF Configuration, ConfigurationRecord
  <2>2. CASE fault = "query"
    <3>1. fault \in PremiseErrors("Q", extension)
      BY <1>3, <2>2 DEF query_formation_errors, QueryFaults
    <3> QED BY <1>1, <1>2, <3>1
  <2>3. CASE fault = "twin"
    <3>1. fault \in PremiseErrors("D", extension)
      BY <1>3, <2>3
    <3> QED BY <1>1, <1>2, <3>1
  <2>4. CASE fault = "registry"
    <3>1. PICK m \in Mechanisms : removed \in Mechanisms => m = removed
      OBVIOUS
    <3>2. fault \in PremiseErrors(m, extension)
      BY <1>4, <2>4
    <3> QED BY <1>1, <1>2, <3>2
  <2>5. CASE fault \in Mechanisms
    <3>1. fault \in PremiseErrors(fault, extension)
      BY <1>4, <2>5
    <3> QED BY <1>1, <1>2, <2>5, <3>1
  <2>6. CASE fault \in ScopeFaults \cup PacketFaults.M
    <3>1. fault \in PremiseErrors("M", extension)
      BY <1>3, <1>6, <2>6 DEF declared_scope_errors, packet_errors
    <3> QED BY <1>1, <1>2, <3>1
  <2>7. CASE fault \in PacketFaults.V
    <3>1. fault \in PremiseErrors("V", extension)
      BY <1>3, <1>6, <2>7 DEF packet_errors
    <3> QED BY <1>1, <1>2, <3>1
  <2>8. fault \notin {"unregistered", "witness", "value", "statement", "unreadable"}
    BY <1>5, <1>7
  <2> QED BY <2>1, <2>2, <2>3, <2>4, <2>5, <2>6, <2>7, <2>8, <1>8
       DEF NamedFaults, QueryFaults, NotCoveredByPremises
<1>9. Repaired(extension).faults = {}
  <2>1. Repaired(extension).faults = extension.faults \ (errors \cup NotCoveredByPremises)
    BY DEF Repaired, Configuration, ConfigurationRecord
  <2> QED BY <1>8, <2>1
<1>10. Repaired(extension).adequacy = "adequate"
  <2>1. Repaired(extension).adequacy = IF removed = "A" THEN "adequate" ELSE extension.adequacy
    BY DEF Repaired, Configuration, ConfigurationRecord
  <2>2. removed # "A" => PremiseErrors("A", extension) = {}
    BY <1>1, <1>2
  <2> QED BY <1>3, <2>1, <2>2
<1> QED BY <1>9, <1>10

\* A certificate names the cause of the failure, whatever the configurations,
\* provided that the contract has a mechanism: the gate looks at the registry
\* snapshot in any case, and only the premises of mechanisms do.
THEOREM CertificatesAreCausal ==
    ASSUME Mechanisms # {}
    PROVE  Spec => []CertificatesNameTheCause
<1>1. CallInv => CertificatesNameTheCause
  <2> SUFFICES ASSUME CallInv, outcome \in {"issued", "valid"},
                      extension.faults \cap {"unregistered", "value"} = {}
               PROVE  run_exact_assurance_gate(Repaired(extension), "agrees").supported
    BY DEF CertificatesNameTheCause
  <2>1. Caused /\ extension \in Configuration /\ removed \in Atoms
    BY DEF CallInv, Shape
  <2> QED BY <2>1, OneCause, FlawlessIsSupported
<1> QED BY <1>1, CallInvHolds, PTL

\* A verified certificate is refused later only when the base fails now.
LEMMA RefusedForTheBase ==
    ASSUME CallInv, step = "compare", call = "verify", ~CertificateVerifies
    PROVE  ~gates[1].supported /\ Certified
<1>1. /\ Len(gates) = 2 /\ certificate # None
      /\ Caused /\ Certified /\ premises
      /\ base \in Configuration /\ extension \in Configuration
  BY DEF CallInv, Control, Shape, Caused
<1>2. Decided(base, gates[1]) /\ Decided(extension, gates[2])
  <2>1. 1 \in DOMAIN gates /\ 2 \in DOMAIN gates
    BY <1>1 DEF CallInv, Shape
  <2> QED BY <2>1 DEF CallInv, ConfigOf
<1>3. PICK r2 \in RerunsOf(extension) :
          /\ gates[2].supported = run_exact_assurance_gate(extension, r2).supported
          /\ gates[2].layer = run_exact_assurance_gate(extension, r2).layer
          /\ gates[2].verdict = run_exact_assurance_gate(extension, r2).verdict
          /\ gates[2].trace = run_exact_assurance_gate(extension, r2).trace
          /\ ~ReachesReexecution(extension) => gates[2].receipt = ReceiptWithoutProcess("none")
  BY <1>2 DEF Decided
<1>4. r2 = "none" /\ gates[2].receipt = ReceiptWithoutProcess("none")
  BY <1>1, <1>3 DEF Certified, RerunsOf
<1>5. /\ ~gates[2].supported
      /\ gates[2].layer = LayerOf(removed)
      /\ certificate.extension_verdict = gates[2].verdict
  BY <1>1, <1>3, <1>4 DEF Certified
<1>6. certificate.credential = CredentialOf(gates[2])
  <2>1. /\ FailureOf(extension).layer = gates[2].layer
        /\ FailureOf(extension).trace = gates[2].trace
        /\ FailureOf(extension).receipt = gates[2].receipt
    BY <1>3, <1>4 DEF FailureOf
  <2> QED BY <1>1, <2>1 DEF Certified, CredentialOf
<1>7. NativeValid
  BY <1>1, <1>6 DEF NativeValid, Caused
<1>8. gates[1].supported => certificate.base_verdict = gates[1].verdict
  <2>1. PICK r1 \in RerunsOf(base) :
            /\ gates[1].supported = run_exact_assurance_gate(base, r1).supported
            /\ gates[1].verdict = run_exact_assurance_gate(base, r1).verdict
    BY <1>2 DEF Decided
  <2>2. Success.verdict = "VERIFIED_AUDITABLE"
    BY DEF Success
  <2>3. run_exact_assurance_gate(base, r1).supported => gates[1].verdict = "VERIFIED_AUDITABLE"
    BY <2>1, <2>2, SupportIsSuccess
  <2> QED BY <1>1, <2>1, <2>3 DEF Certified
<1>9. ~gates[1].supported
  BY <1>1, <1>5, <1>7, <1>8 DEF CertificateVerifies
<1> QED BY <1>1, <1>9

\* Whatever the configurations and the isolated process do, a certificate that
\* once verified fails to do so only for want of an answer about the base.
THEOREM CertificatesLast == Spec => CertificatesStand
<1>1. CallInv /\ [Next]_vars =>
          [step = "compare" /\ outcome' = "invalid" =>
               base.profile = "isolated"
               /\ gates[1].receipt.status \in {"limit", "error", "timeout"}]_vars
  <2> SUFFICES ASSUME CallInv, Next, step = "compare", outcome' = "invalid"
               PROVE  base.profile = "isolated"
                      /\ gates[1].receipt.status \in {"limit", "error", "timeout"}
    OBVIOUS
  <2>1. /\ Control /\ call \in {"make", "verify"} /\ worker # "running"
        /\ base \in Configuration
    BY DEF CallInv, Control, Shape
  <2>2. Compare
    BY <2>1 DEF Next, Caller, DecideAlone, DecideRegistered, RejectInvocation, LaunchRaises,
       Launch, Collect, Kill, BuildCredential, EvaluatePremises, CallMake, CallVerify, Expire,
       Worker, WorkerOpens, WorkerWrites, WorkerExits, WorkerDies, AtGate
  <2>3. call = "verify" /\ ~CertificateVerifies
    BY <2>1, <2>2 DEF Compare, EndCall
  <2>4. ~gates[1].supported /\ Certified
    BY <2>3, RefusedForTheBase
  <2>5. PICK r1 \in RerunsOf(base) :
            /\ gates[1].supported = run_exact_assurance_gate(base, r1).supported
            /\ gates[1].receipt.status = r1
    <3>1. 1 \in DOMAIN gates
      BY <2>1 DEF CallInv, Shape, Control
    <3>2. Decided(base, gates[1])
      BY <3>1 DEF CallInv, ConfigOf
    <3> QED BY <3>2 DEF Decided
  <2>6. PICK good \in RerunsOf(base) : run_exact_assurance_gate(base, good).supported
    BY <2>4 DEF Certified
  <2>7. r1 # good
    BY <2>4, <2>5, <2>6
  <2>8. base.profile = "isolated" /\ RerunsOf(base) = {AnswerOf(base), "limit", "error", "timeout"}
    <3>1. ReachesReexecution(base) /\ base.profile # "registered"
      BY <2>5, <2>6, <2>7 DEF RerunsOf
    <3>2. base.profile \in Profiles /\ base.profile # "audit_verifier"
      BY <2>1, <3>1 DEF Configuration, ConfigurationRecord, ReachesReexecution, Reexecutes
    <3>3. base.profile = "isolated"
      BY <3>1, <3>2 DEF Profiles
    <3> QED BY <2>5, <2>6, <2>7, <3>1, <3>3 DEF RerunsOf
  <2>9. good = "agrees"
    <3>1. Reexecutes(base)
      BY <2>8 DEF Reexecutes
    <3> QED BY <2>1, <2>6, <3>1, SupportLeavesNoPremiseError
  <2>10. AnswerOf(base) = "agrees"
    BY <2>6, <2>8, <2>9
  <2> QED BY <2>5, <2>7, <2>8, <2>9, <2>10
<1> QED BY <1>1, CallInvHolds, PTL DEF Spec, CertificatesStand

=============================================================================
