---------------------------- MODULE MCVaultAudit ----------------------------
(* Small instances of VaultAudit for TLC. *)
EXTENDS VaultAudit, SequencesExt, TLC

KindTable == [verifier_a |-> "verifier", verifier_b |-> "verifier"]

KindsOfComponents == [c \in Components |-> KindTable[c]]

ContentSymmetry == Permutations(Evidence) \cup Permutations(Objects)

(***************************************************************************)
(* A vault in the middle of its life: one component was archived, all the  *)
(* evidence was captured on it and sealed in one bundle, and the vault was *)
(* closed.  From there everything may go on.                               *)
(***************************************************************************)
InitiallySigned(body) == [signer |-> InitialKey, body |-> body]

SealedVault(c, o, captures, b) ==
    /\ journal = <<InitiallySigned(ArchiveBody(c, o))>>
                     \o [i \in DOMAIN captures |-> InitiallySigned(captures[i])]
                     \o <<InitiallySigned(BundleBody(b, {captures[i].id : i \in DOMAIN captures}))>>
    /\ objects = {o} \cup {captures[i].object : i \in DOMAIN captures}

SealedInit ==
    /\ \E c \in Components, o \in Objects, order \in SetToSeqs(Evidence), b \in Bundles,
          object \in [Evidence -> Objects], due \in [Evidence -> Times] :
             /\ c \notin Usable => \A e \in Evidence : due[e] = 1
             /\ SealedVault(c, o,
                    [i \in DOMAIN order |->
                        EvidenceBody(order[i], object[order[i]], {c}, 0, due[order[i]])], b)
    /\ lock = None
    /\ handle = [w \in Writers |-> None]
    /\ pc = [w \in Writers |-> "closed"]
    /\ todo = [w \in Writers |-> None]
    /\ audit = [a \in Auditors |-> Idle]

LivesSpec == (AuditInit \/ SealedInit) /\ [][AuditNext]_allVars

-----------------------------------------------------------------------------
\* The journal with the events that are owed.
Ahead == journal \o SetToSeq({InitiallySigned(todo[w]) : w \in {v \in Writers : todo[v] # None}})

\* From an empty vault one piece of evidence is captured, at one moment, and any
\* call is made.
NewLife ==
    /\ Refs(Archives(Ahead)) \subseteq {"verifier_a"}
    /\ Cardinality(Captures(Ahead)) <= 1
    /\ \A b \in Captures(Ahead) : b.due = 0
    /\ \A b \in Intents(journal) : b.at = 0
    /\ \A a \in Auditors : audit[a].at \in {None, 0}

\* From a sealed vault there are retrievals without a pin, deletions at the later
\* moment, and no holds, no retirements and no other component.
SealedLife ==
    /\ \E b \in Seals(journal) : b.evidence = Evidence
    /\ Cardinality(Archives(Ahead)) = 1
    /\ Placements(journal) = {}
    /\ \A b \in Intents(journal) : b.at = 1
    /\ Retirements(journal) = {}
    /\ \A a \in Auditors : audit[a].pin = None /\ audit[a].op \in {"open", "retrieve"}

EitherLife == NewLife \/ SealedLife
=============================================================================
