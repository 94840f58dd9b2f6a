-------------------------- MODULE MCEvidenceVault --------------------------
(* Small instances of EvidenceVault and of its refinement for TLC. *)
EXTENDS EvidenceVaultRefinement, TLC

\* Component references; the text before the dash stands for the kind.
KindTable == [schema_a |-> "schema", schema_b |-> "schema",
              schema_c |-> "schema", key_a |-> "key", bridge_a |-> "bridge"]

KindsOfComponents == [c \in Components |-> KindTable[c]]

\* Journals that use both components, or more, use one object and one moment.
Mentioned(j) == {b.object : b \in Archives(j) \cup Captures(j)}

ManyComponentsFewObjects ==
    ~(Refs(Archives(journal)) \subseteq {"schema_a"}) =>
        /\ Cardinality(Mentioned(journal)) = 1
        /\ Cardinality(Captures(journal)) <= 1
        /\ Placements(journal) = {}
        /\ \A b \in Captures(journal) : b.due = 0
        /\ \A b \in Intents(journal) : b.at = 0

WriterSymmetry == Permutations(Writers)
ContentSymmetry == Permutations(Evidence) \cup Permutations(Objects)
=============================================================================
