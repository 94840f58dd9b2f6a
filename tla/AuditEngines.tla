----------------------------- MODULE AuditEngines -----------------------------
(***************************************************************************)
(* Three engines that choose evidence for a claim, asked about the same    *)
(* catalogue one after the other: the compiler (compiler.py), the calculus *)
(* (core/information_order.py) and the design pipeline (core/pipeline.py). *)
(* They share no code.                                                     *)
(***************************************************************************)
EXTENDS DesignPipeline

CONSTANTS
    Channels, StateLimits, OtherClaims, MaxTimeline,    \* of InformationOrder
    Followed    \* the catalogues whose evidence is followed over time

VARIABLES certificate, evidence, timeline, recaptured, bundle

calculusState == <<certificate, evidence, timeline, recaptured, bundle>>

\* The catalogue as the tables of the calculus.
TableOf(c) ==
    [claim |-> c.answer, observe |-> c.observe, cost |-> c.cost,
     requires |-> c.requires, admissible |-> c.trusted]

Calculus == INSTANCE InformationOrder WITH table <- TableOf(catalogue)

EnginesInit == FrontEndsInit /\ Calculus!CalculusInit

\* The calculus is asked when the compiler has returned.
Ask ==
    /\ phase = "done" /\ request \in CompareAfter /\ step = "start"
    /\ \E limit \in StateLimits : Calculus!Compile(limit)
    /\ UNCHANGED <<vars, designVars>>

Follow ==
    /\ certificate.status = "CONTRACT" /\ step = "start"
    /\ catalogue \in Followed
    /\ \/ \E c \in Channels : Calculus!Capture(c) \/ Calculus!NextPoint(c)
       \/ Calculus!Migrate
    /\ UNCHANGED <<vars, designVars>>

\* The pipeline is asked when the calculus has come to a conclusion.
Design ==
    /\ certificate.status \notin {"none", "ANALYSIS_INCOMPLETE"} /\ timeline = <<>>
    /\ DesignNext
    /\ UNCHANGED <<vars, calculusState>>

EnginesNext ==
    \/ Next /\ UNCHANGED <<designVars, calculusState>>
    \/ Ask
    \/ Follow
    \/ Design

EnginesSpec == EnginesInit /\ [][EnginesNext]_<<vars, designVars, calculusState>>

(***************************************************************************)
(* Properties                                                              *)
(***************************************************************************)

\* What InformationOrder says of its certificates, for the tables of the
\* catalogues.  The pipeline, which comes later, does not touch them.
Fresh == step = "start" /\ Len(timeline) <= 1 /\ bundle.form = "none"

\* The contract of the calculus decodes the claim and no preferred one does.
ContractFactors == Fresh => Calculus!ContractFactors

\* The witnesses that the certificates of the calculus and of the pipeline
\* promise exist: a removal without one is the StopIteration of
\* information_order.py:259, or a plan whose minimality nothing shows.
WitnessesExist == (Fresh => Calculus!WitnessesExist) /\ MinimalityIsWitnessed

\* Without new evidence the horizon of a claim only shrinks.
HorizonIsPrefixClosed == Calculus!HorizonIsPrefixClosed

\* Python and Rust report the same gap for evidence under a lossy migration.
RuntimesAgree == Calculus!RuntimesAgree

\* Asked the same question, the pipeline and the calculus return the very same
\* contract, or both find that there is none; the compiler returns one of the
\* same weight (compiler.py:299, finite_backend.py:86, information_order.py:228).
EnginesAgree ==
    /\ FrontEndsAgree
    /\ SameQuestion /\ certificate.status # "REFUSED" =>
           /\ step = "plan" =>
                  certificate.status = "CONTRACT" /\ certificate.selected = chosen
           /\ verdict = "EVIDENCE_GAP" => certificate.status = "EVIDENCE_GAP"

=============================================================================
