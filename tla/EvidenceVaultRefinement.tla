---------------------- MODULE EvidenceVaultRefinement ----------------------
(***************************************************************************)
(* The lock, the journal, the CAS and their recovery together implement    *)
(* the atomic operations of VaultLifecycle.                                *)
(***************************************************************************)
EXTENDS EvidenceVault

StageOf(e) ==
    IF e \in Ids(Deletions(journal)) THEN "deleted"
    ELSE IF e \in Ids(Pending(journal)) THEN "deleting"
    ELSE IF e \in Ids(Captures(journal)) THEN "live"
    ELSE "absent"

NamedBy(bodies, id) == UNION {b.evidence : b \in {c \in bodies : c.id = id}}

Lifecycle == INSTANCE VaultLifecycle WITH
    archived  <- Refs(Archives(journal)),
    retired   <- Refs(Retirements(journal)),
    stage     <- [e \in Evidence |-> StageOf(e)],
    sealed    <- [b \in Bundles |-> NamedBy(Seals(journal), b)],
    held      <- [h \in Holds |-> IF h \in Ids(Releases(journal)) THEN {}
                                  ELSE NamedBy(Placements(journal), h)],
    spent     <- Ids(Releases(journal)),
    authority <- KeyHistory(journal),
    readable  <- Ids({b \in Captures(journal) : b.object \in objects})

\* Every step of the vault is one operation of the abstract lifecycle, or a
\* step that a caller cannot see; live evidence stays readable throughout.
ImplementsLifecycle == Lifecycle!Spec
=============================================================================
