-------------------------- MODULE MCVaultRuntimes --------------------------
(* Small instances of VaultRuntimes for TLC. *)
EXTENDS VaultRuntimes, TLC

KindTable == [schema_a |-> "schema", schema_b |-> "schema"]

KindsOfComponents == [c \in Components |-> KindTable[c]]

ContentSymmetry == Permutations(Objects) \cup Permutations(Evidence)
=============================================================================
