-------------------------- MODULE PremiseMinimality --------------------------
(***************************************************************************)
(* Premise-minimality certificates (minimality.py) over gate runs that may *)
(* run an isolated verifier again (isolated_verifier.py,                   *)
(* verifier_worker.py).                                                    *)
(*                                                                         *)
(* make_minimality_certificate runs the gate on a base and an extension,   *)
(* builds a credential of the failure and verifies its own certificate;    *)
(* verify_p_minimality_certificate evaluates the premises of both and runs *)
(* the gate on both again.  The premise set is that of all atoms.  Each    *)
(* gate run under the isolated profile starts a process of its own, which  *)
(* may hang, die, or end just when its time is over.                       *)
(***************************************************************************)
EXTENDS AssuranceGate

CONSTANT Pairs      \* the pairs of a base and an extension offered to the calls

ASSUME PairsAssumption == Pairs \subseteq Configuration \X Configuration

None == [kind |-> "none"]

VARIABLES
    base, extension, removed,   \* the arguments of the calls
    call,           \* "make" or "verify", or "idle" between calls
    step,           \* the place in the call
    gates,          \* the results of the gate so far in this pass over both
    premises,       \* the premises were as they must be
    certificate,    \* the certificate, None before there is one
    outcome,        \* how the last call ended
    worker,         \* the process of the isolated verifier
    result_file     \* what it has put in its output directory

arguments == <<base, extension, removed>>
process == <<worker, result_file>>
vars == <<arguments, call, step, gates, premises, certificate, outcome, process>>

Steps == {"idle", "base", "extension", "credential", "premises", "compare",
          "waiting", "killing"}
WorkerStates == {"none", "running", "exited", "died"}
Reruns == {"none", "agrees", "disagrees", "refused", "limit", "error", "timeout"}
WallTimes == {0, 1}     \* bound: two durations, to tell two executions apart
ReturnCodes == {"none", "zero", "other"}

Receipt == [status : Reruns, return_code : ReturnCodes, wall_time : WallTimes]
GateResult == [supported : BOOLEAN, layer : Layers \cup {"none"},
               verdict : STRING, trace : Seq([layer : Layers, status : STRING]),
               receipt : Receipt]

\* What an execution inside the gate leaves, or a rejection before any process.
ReceiptWithoutProcess(status) == [status |-> status, return_code |-> "none", wall_time |-> 0]

Init ==
    /\ \E pair \in Pairs : base = pair[1] /\ extension = pair[2]
    /\ removed \in Atoms
    /\ call = "idle" /\ step = "idle"
    /\ gates = <<>>
    /\ premises = TRUE
    /\ certificate = None
    /\ outcome = "none"
    /\ worker = "none" /\ result_file = "absent"

(***************************************************************************)
(* One run of the gate, on the base and then on the extension              *)
(***************************************************************************)

\* The configuration of the i-th gate run of a pass.
ConfigOf(i) == IF i = 1 THEN base ELSE extension

Subject == ConfigOf(Len(gates) + 1)

AtGate == step \in {"base", "extension"}

\* What the caller of the gate does next.
Following ==
    IF Len(gates) = 0 THEN "extension"
    ELSE IF certificate = None THEN "credential"
    ELSE "compare"

GateReturns(rerun, receipt) ==
    /\ \E verdict \in {run_exact_assurance_gate(Subject, rerun)} :
           gates' = Append(gates, [supported |-> verdict.supported, layer |-> verdict.layer,
                                   verdict |-> verdict.verdict, trace |-> verdict.trace,
                                   receipt |-> receipt])
    /\ step' = Following
    /\ UNCHANGED <<arguments, call, premises, certificate, outcome>>

\* A certificate that does not verify is not returned by the call that made it.
EndCall(how) ==
    /\ outcome' = how
    /\ call' = "idle" /\ step' = "idle"
    /\ certificate' = IF call = "make" /\ how # "issued" THEN None ELSE certificate
    /\ gates' = <<>>
    /\ premises' = TRUE
    /\ UNCHANGED arguments

DecideAlone ==
    /\ AtGate
    /\ ~ReachesReexecution(Subject)
    /\ GateReturns("none", ReceiptWithoutProcess("none"))
    /\ UNCHANGED process

\* A verifier's own answer to an invocation that it accepts.
AnswerOf(c) == IF "answer" \in c.faults THEN "disagrees" ELSE "agrees"

\* The registered verifier runs inside the gate and always in the same way.
DecideRegistered ==
    /\ AtGate
    /\ ReachesReexecution(Subject) /\ Subject.profile = "registered"
    /\ LET rerun == IF "refused" \in Subject.faults THEN "refused" ELSE AnswerOf(Subject)
       IN  GateReturns(rerun, ReceiptWithoutProcess(rerun))
    /\ UNCHANGED process

RejectInvocation ==
    /\ AtGate
    /\ ReachesReexecution(Subject) /\ Subject.profile = "isolated"
    /\ "refused" \in Subject.faults
    /\ GateReturns("refused", ReceiptWithoutProcess("refused"))
    /\ UNCHANGED process

\* The program files are missing, or the process cannot be started: an OSError
\* that nothing in the gate catches.
LaunchRaises ==
    /\ AtGate
    /\ ReachesReexecution(Subject) /\ Subject.profile = "isolated"
    /\ EndCall("raised")
    /\ UNCHANGED process

Launch ==
    /\ AtGate
    /\ ReachesReexecution(Subject) /\ Subject.profile = "isolated"
    /\ "refused" \notin Subject.faults
    /\ step' = "waiting"
    /\ worker' = "running" /\ result_file' = "absent"
    /\ UNCHANGED <<arguments, call, gates, premises, certificate, outcome>>

(***************************************************************************)
(* The process                                                             *)
(***************************************************************************)

WorkerStep == UNCHANGED <<arguments, call, step, gates, premises, certificate, outcome>>

\* The result is opened for exclusive creation and then written.
WorkerOpens ==
    /\ worker = "running" /\ result_file = "absent"
    /\ result_file' = "partial"
    /\ UNCHANGED worker
    /\ WorkerStep

WorkerWrites ==
    /\ worker = "running" /\ result_file = "partial"
    /\ result_file' = "complete"
    /\ UNCHANGED worker
    /\ WorkerStep

WorkerExits ==
    /\ worker = "running" /\ result_file = "complete"
    /\ worker' = "exited"
    /\ UNCHANGED result_file
    /\ WorkerStep

\* An exception of the verifier, its own fuel, or a limit of the operating system.
WorkerDies ==
    /\ worker = "running"
    /\ worker' = "died"
    /\ UNCHANGED result_file
    /\ WorkerStep

\* The process is reaped and its temporary directory removed.
ProcessIsGone == worker' = "none" /\ result_file' = "absent"

ReturnCode == IF worker = "exited" THEN "zero" ELSE "other"

\* The process ended in time, by itself with a complete result or otherwise.
\* Its pipes may still hold more output than is allowed.
Collect ==
    /\ step = "waiting"
    /\ worker \in {"exited", "died"}
    /\ \E wall \in WallTimes,
          status \in {"limit"} \cup (IF worker = "exited" THEN {AnswerOf(Subject)} ELSE {"error"}) :
           GateReturns(status, [status |-> status, return_code |-> ReturnCode,
                                wall_time |-> wall])
    /\ ProcessIsGone

\* Mutant: the wait has no time limit.
NeverExpires == FALSE /\ UNCHANGED vars

\* Time is over, even if the process ends at this very moment.
Expire ==
    /\ step = "waiting"
    /\ step' = "killing"
    /\ UNCHANGED <<arguments, call, gates, premises, certificate, outcome, process>>

\* Mutant: a result that was complete when the time was over is still taken.
KillUnlessComplete ==
    /\ step = "killing"
    /\ LET rerun == IF result_file = "complete" THEN AnswerOf(Subject) ELSE "timeout"
       IN  GateReturns(rerun, [status |-> rerun, return_code |-> ReturnCode, wall_time |-> 1])
    /\ ProcessIsGone

\* The process group is killed and waited for; its file is not looked at.
Kill ==
    /\ step = "killing"
    /\ GateReturns("timeout", [status |-> "timeout", return_code |-> ReturnCode,
                               wall_time |-> 1])
    /\ ProcessIsGone

(***************************************************************************)
(* Certificates                                                            *)
(***************************************************************************)

CallMake ==
    /\ call = "idle" /\ certificate = None
    /\ call' = "make" /\ step' = "base"
    /\ UNCHANGED <<arguments, gates, premises, certificate, outcome, process>>

CallVerify ==
    /\ call = "idle" /\ certificate # None
    /\ call' = "verify" /\ step' = "premises"
    /\ UNCHANGED <<arguments, gates, premises, certificate, outcome, process>>

\* The failure has the native form that the layer calls for.
CredentialExists(c) ==
    CASE removed = "A" -> c.adequacy = "model_gap"
      [] removed = "D" -> "twin" \in c.faults
      [] removed = "M" -> \/ "bypass" \in c.faults
                          \/ /\ first_failed_layer(c) = "M"
                             /\ packet_errors(c, "M") \cup packet_errors(c, "V") = {"coverage"}
      [] OTHER -> TRUE

\* The digest of the failing gate's result is part of the credential, except in
\* the twins of layers A and D.
CredentialOf(gate) ==
    IF removed \in {"A", "D"} THEN None
    ELSE [kind |-> "gate", layer |-> gate.layer, trace |-> gate.trace,
          receipt |-> gate.receipt]

BuildCredential ==
    /\ step = "credential"
    /\ IF gates[2].layer = LayerOf(removed) /\ ~(removed = "V" /\ PacketRaises(extension))
             /\ CredentialExists(extension)
       THEN /\ certificate' = [kind |-> "certificate", base_verdict |-> gates[1].verdict,
                               extension_verdict |-> gates[2].verdict,
                               credential |-> CredentialOf(gates[2])]
            /\ step' = "premises"
            /\ gates' = <<>>
            /\ UNCHANGED <<arguments, call, premises, outcome>>
       ELSE EndCall("raised")
    /\ UNCHANGED process

\* Mutant: the extension's other premises are not evaluated.
PremisesOfBase ==
    /\ \A atom \in Atoms : evaluate_premise(atom, base)
    /\ ~evaluate_premise(removed, extension)

\* All premises of the base, and all but the removed one of the extension.
PremisesAreRight ==
    /\ \A atom \in Atoms : evaluate_premise(atom, base)
    /\ ~evaluate_premise(removed, extension)
    /\ \A atom \in Atoms \ {removed} : evaluate_premise(atom, extension)

EvaluatePremises ==
    /\ step = "premises"
    /\ IF \E atom \in Atoms : PremiseRaises(atom, base) \/ PremiseRaises(atom, extension)
       THEN EndCall("raised")
       ELSE /\ premises' = PremisesAreRight
            /\ step' = "base"
            /\ UNCHANGED <<arguments, call, gates, certificate, outcome>>
    /\ UNCHANGED process

\* Mutant: a failure in layer V needs no failure of the packet.
NativeValidForAnyV ==
    LET gate == gates[2]
    IN  /\ CredentialExists(extension)
        /\ removed \in Mechanisms => PremiseErrors(removed, extension) # {}
        /\ certificate.credential = CredentialOf(gate)

NativeValid ==
    LET gate == gates[2]
    IN  /\ CredentialExists(extension)
        /\ removed = "V" => first_failed_layer(extension) = "V"
        /\ removed \in Mechanisms => PremiseErrors(removed, extension) # {}
        /\ certificate.credential = CredentialOf(gate)

CertificateVerifies ==
    /\ premises
    /\ gates[1].supported
    /\ ~gates[2].supported
    /\ gates[2].layer = LayerOf(removed)
    /\ certificate.base_verdict = gates[1].verdict
    /\ certificate.extension_verdict = gates[2].verdict
    /\ NativeValid

Compare ==
    /\ step = "compare"
    /\ EndCall(CASE CertificateVerifies /\ call = "make" -> "issued"
                 [] CertificateVerifies /\ call = "verify" -> "valid"
                 [] ~CertificateVerifies /\ call = "make" -> "raised"
                 [] OTHER -> "invalid")
    /\ UNCHANGED process

(***************************************************************************)
(* The specification                                                       *)
(***************************************************************************)

Caller ==
    \/ DecideAlone \/ DecideRegistered \/ RejectInvocation \/ LaunchRaises \/ Launch
    \/ Collect \/ Kill
    \/ BuildCredential \/ EvaluatePremises \/ Compare

Worker == WorkerOpens \/ WorkerWrites \/ WorkerExits \/ WorkerDies

Next == CallMake \/ CallVerify \/ Caller \/ Expire \/ Worker

Spec == Init /\ [][Next]_vars

\* The caller runs, and time passes while it waits.  Nothing is assumed about
\* the process: it may do nothing for ever.
FairSpec == Spec /\ WF_vars(Caller) /\ WF_vars(Expire)

(***************************************************************************)
(* Properties                                                              *)
(***************************************************************************)

\* Types and control: a pass has at most two gate results, the gate waits only
\* for a process that it started, and no process outlives the wait for it.
TypeOK ==
    /\ base \in Configuration /\ extension \in Configuration /\ removed \in Atoms
    /\ call \in {"idle", "make", "verify"} /\ step \in Steps
    /\ call = "idle" <=> step = "idle"
    /\ gates \in Seq(GateResult) /\ Len(gates) <= 2
    /\ premises \in BOOLEAN
    /\ outcome \in {"none", "issued", "raised", "valid", "invalid"}
    /\ worker \in WorkerStates /\ result_file \in {"absent", "partial", "complete"}
    /\ step \in {"waiting", "killing"} => Subject.profile = "isolated" /\ worker # "none"
    /\ worker = "running" => step \in {"waiting", "killing"}

\* A supported verdict is warranted by everything the premises ask for, although
\* the gate and evaluate_premise are different code (assurance.py:841,
\* minimality.py:203), and under re-execution by an answer that equals the
\* declared one; the answer of an isolated verifier comes from a process that
\* ended by itself, in time and without an error.
SupportIsWarranted ==
    \A i \in DOMAIN gates : gates[i].supported =>
        LET c == ConfigOf(i)
            receipt == gates[i].receipt
        IN  /\ \A atom \in Atoms : PremiseErrors(atom, c) = {}
            /\ Reexecutes(c) => receipt.status = "agrees"
            /\ c.profile = "isolated" => receipt.return_code = "zero"

\* The layer that is blamed comes before every layer with an unsatisfied premise
\* of its own, and the trace lists all six layers in order.  The exception is a
\* packet that cannot be read: it is blamed on V before layers D, R and M have
\* been looked at (assurance.py:878).
BlamedLayerIsFirst ==
    \A i \in DOMAIN gates : ~gates[i].supported /\ ~PacketRaises(ConfigOf(i)) =>
        LET gate == gates[i]
        IN  /\ \A atom \in Atoms : Rank[LayerOf(atom)] < Rank[gate.layer] =>
                   PremiseErrors(atom, ConfigOf(i)) = {}
            /\ [j \in DOMAIN gate.trace |-> gate.trace[j].layer] = LayerOrder

\* A certificate names the cause: were the removed premise repaired, the extension
\* would be supported, apart from what no premise covers (the packet's own
\* layer-R checks and the re-execution).  The exception is a packet that the
\* packet verifier stopped at: for an unregistered claim or schema, and for a
\* witness that declares no Boolean, it returns at once (evidence.py:827, 841), and
\* the premises M and V find nothing in its result (minimality.py:252, 268).  A
\* certificate that removes Q or D may then hide a defect of M or V, and the value
\* that is no Boolean is itself a defect that no premise asks about.
NotCoveredByPremises == PacketFaults.R \cup ReexecutionFaults
Repaired(c) ==
    [c EXCEPT !.adequacy = IF removed = "A" THEN "adequate" ELSE @,
              !.faults = @ \ (PremiseErrors(removed, c) \cup NotCoveredByPremises)]
CertificatesNameTheCause ==
    outcome \in {"issued", "valid"} /\ extension.faults \cap {"unregistered", "value"} = {} =>
        run_exact_assurance_gate(Repaired(extension), "agrees").supported

\* Verifying a certificate again can fail only because the verifier of the base
\* did not get to its answer this time: the failure itself is reproducible, no
\* duration of an execution gets into the certificate.
CertificatesStand ==
    [][step = "compare" /\ outcome' = "invalid" =>
           base.profile = "isolated" /\ gates[1].receipt.status \in {"limit", "error", "timeout"}]_vars

\* Every call returns or raises, whatever the isolated process does.
EveryCallReturns == call # "idle" ~> call = "idle"
=============================================================================
