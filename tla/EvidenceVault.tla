--------------------------- MODULE EvidenceVault ---------------------------
(***************************************************************************)
(* The append-only evidence archive of auditspec/core/evidence_vault.py.   *)
(*                                                                         *)
(* A vault is a directory: a journal of signed events, a content-addressed *)
(* object store (CAS) and a lock file.  Every mutation takes the lock,     *)
(* finishes what a crashed mutation left behind, replays the journal,      *)
(* validates its arguments against the replayed state and then touches the *)
(* disk one file at a time.  Those single-file effects are the steps of    *)
(* this module, so that a crash or an I/O error may fall between any two   *)
(* of them.  A handle keeps the signing key it was opened with, also after *)
(* another handle has rotated the journal authority to a new key.          *)
(***************************************************************************)
EXTENDS Integers, Sequences, FiniteSets

CONSTANTS
    Writers,          \* processes holding writable EvidenceVault handles
    Keys,             \* Ed25519 public keys
    InitialKey,       \* the key of the manifest, vault.json
    Components,       \* component references, "kind:id:version"
    KindOf,           \* the kind spelled by a component reference
    DependencyKinds,  \* kinds a capture must name (schema, key, verifier, policy)
    BridgeKind,       \* the kind a bridged world scope may name in addition
    Objects,          \* CAS contents, identified by their SHA-256
    Evidence,         \* evidence ids
    Bundles,          \* bundle ids
    Holds,            \* legal-hold ids
    Claims,           \* strings a caller passes as claim ids
    ValidClaims,      \* those of them that match ID_PATTERN
    Times,            \* instants
    None              \* no writer, no key, no replacement, nothing to append

ASSUME ConstantsAssumption ==
    /\ InitialKey \in Keys
    /\ KindOf \in [Components -> DependencyKinds \cup {BridgeKind}]
    /\ ValidClaims \subseteq Claims
    /\ Times \subseteq Int
    /\ None \notin Writers \cup Keys \cup Components

VARIABLES
    journal,   \* events/*.json: a sequence of [signer, body]
    objects,   \* the objects present under objects/sha256
    lock,      \* the writer that holds the flock on .lock, or None
    handle,    \* the signing key of each writer's open handle, or None
    pc,        \* where each writer is inside a locked method
    todo       \* the event body a writer has still to append

vars == <<journal, objects, lock, handle, pc, todo>>

-----------------------------------------------------------------------------
(***************************************************************************)
(* Event bodies, one constructor for each event type.                      *)
(***************************************************************************)
ArchiveBody(c, o) == [type |-> "COMPONENT_ARCHIVED", ref |-> c, object |-> o]

EvidenceBody(e, o, deps, min, due) ==
    [type |-> "EVIDENCE_APPENDED", id |-> e, object |-> o, deps |-> deps,
     min |-> min, due |-> due]

BundleBody(b, ids) == [type |-> "BUNDLE_SEALED", id |-> b, evidence |-> ids]

HoldBody(h, ids) == [type |-> "LEGAL_HOLD_PLACED", id |-> h, evidence |-> ids]

ReleaseBody(h) == [type |-> "LEGAL_HOLD_RELEASED", id |-> h]

IntentBody(e, o, at, basis, physical) ==
    [type |-> "EVIDENCE_DELETION_INTENT", id |-> e, object |-> o,
     at |-> at, basis |-> basis, physical |-> physical]

\* _deletion_commit_body: the tombstone is a function of the signed intent.
CommitBody(intent) ==
    [type |-> "EVIDENCE_DELETED", id |-> intent.id, object |-> intent.object,
     basis |-> intent.basis, physical |-> intent.physical]

RetirementBody(c, r, claims) ==
    [type |-> "COMPONENT_RETIRED", ref |-> c, replacement |-> r,
     claims |-> claims]

RotationBody(p, s) ==
    [type |-> "JOURNAL_AUTHORITY_ROTATED", predecessor |-> p, successor |-> s]

Basis == {"policy_deadline", "permitted_disposal"}

Body ==
    {ArchiveBody(c, o) : c \in Components, o \in Objects}
    \cup {EvidenceBody(e, o, d, m, u) : e \in Evidence, o \in Objects,
              d \in SUBSET Components, m \in Times, u \in Times}
    \cup {BundleBody(b, ids) : b \in Bundles, ids \in SUBSET Evidence}
    \cup {HoldBody(h, ids) : h \in Holds, ids \in SUBSET Evidence}
    \cup {ReleaseBody(h) : h \in Holds}
    \cup {IntentBody(e, o, at, bs, p) : e \in Evidence, o \in Objects,
              at \in Times, bs \in Basis, p \in BOOLEAN}
    \cup {CommitBody(IntentBody(e, o, at, bs, p)) : e \in Evidence,
              o \in Objects, at \in Times, bs \in Basis, p \in BOOLEAN}
    \cup {RetirementBody(c, r, cl) : c \in Components,
              r \in Components \cup {None}, cl \in SUBSET Claims}
    \cup {RotationBody(p, s) : p \in Keys, s \in Keys}

Event == [signer : Keys, body : Body]

ASSUME NoneAssumption == None \notin Body

-----------------------------------------------------------------------------
(***************************************************************************)
(* replay(): the state a journal denotes.  The maps of the code are keyed  *)
(* by identities that occur once, so the set of bodies of a type is the    *)
(* map.                                                                    *)
(***************************************************************************)
Bodies(j) == {j[i].body : i \in DOMAIN j}
OfType(j, t) == {b \in Bodies(j) : b.type = t}

Archives(j)    == OfType(j, "COMPONENT_ARCHIVED")
Captures(j)    == OfType(j, "EVIDENCE_APPENDED")
Seals(j)       == OfType(j, "BUNDLE_SEALED")
Placements(j)  == OfType(j, "LEGAL_HOLD_PLACED")
Releases(j)    == OfType(j, "LEGAL_HOLD_RELEASED")
Intents(j)     == OfType(j, "EVIDENCE_DELETION_INTENT")
Deletions(j)   == OfType(j, "EVIDENCE_DELETED")
Retirements(j) == OfType(j, "COMPONENT_RETIRED")
Rotations(j)   == OfType(j, "JOURNAL_AUTHORITY_ROTATED")

Ids(bodies)  == {b.id : b \in bodies}
Refs(bodies) == {b.ref : b \in bodies}

Pending(j) == {b \in Intents(j) : b.id \notin Ids(Deletions(j))}

\* Captured, not deleted and without a pending intent.
LiveCaptures(j) ==
    {b \in Captures(j) : b.id \notin Ids(Deletions(j)) \cup Ids(Pending(j))}

KeyHistory(j) == {InitialKey} \cup {b.successor : b \in Rotations(j)}

RotationSteps(j) == {i \in DOMAIN j : j[i].body.type = "JOURNAL_AUTHORITY_ROTATED"}

ActiveKey(j) ==
    IF RotationSteps(j) = {} THEN InitialKey
    ELSE LET last == CHOOSE i \in RotationSteps(j) :
                        \A k \in RotationSteps(j) : k <= i
         IN  j[last].body.successor

ActiveHolds(j, e) ==
    {b \in Placements(j) : b.id \notin Ids(Releases(j)) /\ e \in b.evidence}

\* Mutant: component references do not protect a shared object.
RetainedByEvidenceOnly(j, e) == {b.object : b \in {c \in LiveCaptures(j) : c.id # e}}

\* _object_retention_references_from_state, as the set of objects that some
\* live evidence other than e, or some component, still needs.
RetainedBesides(j, e) ==
    {b.object : b \in {c \in LiveCaptures(j) : c.id # e} \cup Archives(j)}

\* Mutant: the collector forgets that components refer to objects.
RetainedByCaptures(j) == {b.object : b \in LiveCaptures(j)}

Retained(j) == {b.object : b \in LiveCaptures(j) \cup Archives(j)}

\* Mutant: legal holds do not enter the decision.
StatusWithoutHolds(j, capture, at) ==
    IF capture.id \in Ids(Deletions(j)) THEN "DELETED"
    ELSE IF capture.id \in Ids(Pending(j)) THEN "DELETION_IN_PROGRESS"
    ELSE IF at < capture.min THEN "RETAIN_REQUIRED"
    ELSE IF at >= capture.due THEN "DELETION_REQUIRED"
    ELSE "DELETION_ELIGIBLE"

\* _retention_decision_from_state
RetentionStatus(j, capture, at) ==
    IF capture.id \in Ids(Deletions(j)) THEN "DELETED"
    ELSE IF capture.id \in Ids(Pending(j)) THEN "DELETION_IN_PROGRESS"
    ELSE IF ActiveHolds(j, capture.id) # {} THEN "LEGAL_HOLD"
    ELSE IF at < capture.min THEN "RETAIN_REQUIRED"
    ELSE IF at >= capture.due THEN "DELETION_REQUIRED"
    ELSE "DELETION_ELIGIBLE"

AllowedStatus(basis) ==
    IF basis = "policy_deadline" THEN "DELETION_REQUIRED" ELSE "DELETION_ELIGIBLE"

\* _validate_retirement, as far as a journal written by this code can differ.
ValidRetirement(j, b) ==
    /\ b.claims \subseteq ValidClaims
    /\ b.replacement # None =>
          /\ b.replacement \in Refs(Archives(j)) \ {b.ref}
          /\ KindOf[b.replacement] = KindOf[b.ref]

\* What replay() demands of the body that follows the journal j.
Accepts(j, b) ==
    \/ b.type = "COMPONENT_ARCHIVED" /\ b.ref \notin Refs(Archives(j))
    \/ b.type = "EVIDENCE_APPENDED" /\ b.id \notin Ids(Captures(j))
    \/ b.type = "BUNDLE_SEALED" /\ b.id \notin Ids(Seals(j))
    \/ b.type = "LEGAL_HOLD_PLACED" /\ b.id \notin Ids(Placements(j))
    \/ /\ b.type = "LEGAL_HOLD_RELEASED"
       /\ b.id \in Ids(Placements(j)) \ Ids(Releases(j))
    \/ /\ b.type = "EVIDENCE_DELETION_INTENT"
       /\ b.id \in Ids(Captures(j)) \ (Ids(Deletions(j)) \cup Ids(Intents(j)))
    \/ /\ b.type = "EVIDENCE_DELETED"
       /\ b.id \in Ids(Captures(j)) \ Ids(Deletions(j))
       /\ \E intent \in Intents(j) : intent.id = b.id /\ b = CommitBody(intent)
    \/ /\ b.type = "COMPONENT_RETIRED"
       /\ b.ref \in Refs(Archives(j)) \ Refs(Retirements(j))
       /\ ValidRetirement(j, b)
    \/ /\ b.type = "JOURNAL_AUTHORITY_ROTATED"
       /\ b.predecessor = ActiveKey(j)
       /\ b.successor \notin KeyHistory(j)

Before(j, i) == SubSeq(j, 1, i - 1)

SignedInTurn(j) == \A i \in DOMAIN j : j[i].signer = ActiveKey(Before(j, i))

Replayable(j) ==
    /\ SignedInTurn(j)
    /\ \A i \in DOMAIN j : Accepts(Before(j, i), j[i].body)

-----------------------------------------------------------------------------
Init ==
    /\ journal = <<>>
    /\ objects = {}
    /\ lock = None
    /\ handle = [w \in Writers |-> None]
    /\ pc = [w \in Writers |-> "closed"]
    /\ todo = [w \in Writers |-> None]

Goto(w, label) == pc' = [pc EXCEPT ![w] = label]

\* The lock's finally clause, after a result or after an exception: __init__
\* leaves no handle behind when it fails.
Leave(w, label) ==
    /\ lock' = None
    /\ Goto(w, label)
    /\ handle' = [handle EXCEPT ![w] = IF label = "closed" THEN None ELSE @]
    /\ todo' = [todo EXCEPT ![w] = None]

Return(w) == Leave(w, "idle")
Raise(w)  == Leave(w, IF pc[w] = "opening" THEN "closed" ELSE "idle")

MaySign(w) == handle[w] = ActiveKey(journal)

Signed(w, body) == Append(journal, [signer |-> handle[w], body |-> body])

\* _append_event as the last call of a method: the event is published, or the
\* handle's key is no longer the active authority and the call raises.
Publish(w, body) ==
    /\ journal' = IF MaySign(w) THEN Signed(w, body) ELSE journal
    /\ Return(w)
    /\ UNCHANGED objects

-----------------------------------------------------------------------------
(***************************************************************************)
(* Taking the lock: opening a handle, or beginning a mutation.             *)
(***************************************************************************)
Open(w, k) ==
    /\ pc[w] = "closed"
    /\ lock = None
    /\ Replayable(journal)
    /\ k = ActiveKey(journal)
    /\ lock' = w
    /\ handle' = [handle EXCEPT ![w] = k]
    /\ Goto(w, "opening")
    /\ UNCHANGED <<journal, objects, todo>>

\* Mutant: the mutation wrapper takes the lock but does not recover.
BeginWithoutRecovery(w) ==
    /\ pc[w] = "idle"
    /\ lock = None
    /\ lock' = w
    /\ Goto(w, "body")
    /\ UNCHANGED <<journal, objects, handle, todo>>

Begin(w) ==
    /\ pc[w] = "idle"
    /\ lock = None
    /\ lock' = w
    /\ Goto(w, "recovering")
    /\ UNCHANGED <<journal, objects, handle, todo>>

(***************************************************************************)
(* _recover_locked.                                                        *)
(***************************************************************************)
Recovering(w) == pc[w] \in {"opening", "recovering"} /\ Replayable(journal)

Conflict(intent) ==
    intent.physical /\ intent.object \in RetainedBesides(journal, intent.id)

RecoverUnlink(w) ==
    /\ Recovering(w)
    /\ \E intent \in Pending(journal) :
          /\ intent.physical
          /\ ~Conflict(intent)
          /\ intent.object \in objects
          /\ objects' = objects \ {intent.object}
    /\ UNCHANGED <<journal, lock, handle, pc, todo>>

\* Mutant: recovery commits the tombstone without unlinking first.
CommitBeforeUnlink(w) ==
    /\ Recovering(w)
    /\ MaySign(w)
    /\ \E intent \in Pending(journal) :
          /\ ~Conflict(intent)
          /\ journal' = Signed(w, CommitBody(intent))
    /\ UNCHANGED <<objects, lock, handle, pc, todo>>

RecoverCommit(w) ==
    /\ Recovering(w)
    /\ MaySign(w)
    /\ \E intent \in Pending(journal) :
          /\ intent.physical => intent.object \notin objects
          /\ ~Conflict(intent)
          /\ journal' = Signed(w, CommitBody(intent))
    /\ UNCHANGED <<objects, lock, handle, pc, todo>>

\* Mutant: a stale signer's failure to commit does not end recovery.
FailUnlessStale(w) ==
    /\ pc[w] \in {"opening", "recovering"}
    /\ \/ ~Replayable(journal)
       \/ \E intent \in Pending(journal) : Conflict(intent)
    /\ Raise(w)
    /\ UNCHANGED <<journal, objects>>

\* The journal does not replay, the intent conflicts with live references, or
\* the commit would have to be signed with a rotated-out key.
RecoverFail(w) ==
    /\ pc[w] \in {"opening", "recovering"}
    /\ \/ ~Replayable(journal)
       \/ \E intent \in Pending(journal) :
             \/ Conflict(intent)
             \/ ~MaySign(w) /\ (intent.physical => intent.object \notin objects)
    /\ Raise(w)
    /\ UNCHANGED <<journal, objects>>

Collect(w) ==
    /\ Recovering(w)
    /\ Pending(journal) = {}
    /\ \E o \in objects \ Retained(journal) : objects' = objects \ {o}
    /\ UNCHANGED <<journal, lock, handle, pc, todo>>

\* Mutant: recovery ends without collecting unreferenced objects.
RecoveredWithResidue(w) ==
    /\ Recovering(w)
    /\ Pending(journal) = {}
    /\ \/ pc[w] = "opening" /\ Return(w)
       \/ /\ pc[w] = "recovering"
          /\ Goto(w, "body")
          /\ UNCHANGED <<lock, handle, todo>>
    /\ UNCHANGED <<journal, objects>>

Recovered(w) ==
    /\ Recovering(w)
    /\ Pending(journal) = {}
    /\ objects \subseteq Retained(journal)
    /\ \/ pc[w] = "opening" /\ Return(w)
       \/ /\ pc[w] = "recovering"
          /\ Goto(w, "body")
          /\ UNCHANGED <<lock, handle, todo>>
    /\ UNCHANGED <<journal, objects>>

-----------------------------------------------------------------------------
(***************************************************************************)
(* The method bodies.  archive_component and append_evidence write an      *)
(* object before they append the event that refers to it.                  *)
(***************************************************************************)
PutObject(w, o, body) ==
    /\ objects' = objects \cup {o}
    /\ todo' = [todo EXCEPT ![w] = body]
    /\ Goto(w, "append")
    /\ UNCHANGED <<journal, lock, handle>>

ArchiveComponent(w) ==
    /\ pc[w] = "body"
    /\ \E c \in Components \ Refs(Archives(journal)), o \in Objects :
          PutObject(w, o, ArchiveBody(c, o))

\* Mutant: capture does not look at retirements.
EligibleIfArchived(j, deps) ==
    /\ deps \subseteq Refs(Archives(j))
    /\ \A k \in DependencyKinds : \E c \in deps : KindOf[c] = k
    /\ \A c, d \in deps : KindOf[c] = KindOf[d] => c = d

\* One active component of every dependency kind, and at most one bridge.
Eligible(j, deps) ==
    /\ deps \subseteq Refs(Archives(j)) \ Refs(Retirements(j))
    /\ \A k \in DependencyKinds : \E c \in deps : KindOf[c] = k
    /\ \A c, d \in deps : KindOf[c] = KindOf[d] => c = d

AppendEvidence(w) ==
    /\ pc[w] = "body"
    /\ \E e \in Evidence \ Ids(Captures(journal)), o \in Objects,
          deps \in SUBSET Components, captured, min, due \in Times :
          /\ captured <= min /\ min <= due
          /\ Eligible(journal, deps)
          /\ PutObject(w, o, EvidenceBody(e, o, deps, min, due))

AppendPrepared(w) ==
    /\ pc[w] = "append"
    /\ Publish(w, todo[w])

CreateBundle(w) ==
    /\ pc[w] = "body"
    /\ \E b \in Bundles \ Ids(Seals(journal)),
          ids \in (SUBSET Ids(LiveCaptures(journal))) \ {{}} :
          Publish(w, BundleBody(b, ids))

\* Mutant: a hold may name evidence whose deletion has begun.
HoldAnyCapture(w) ==
    /\ pc[w] = "body"
    /\ \E h \in Holds \ Ids(Placements(journal)),
          ids \in (SUBSET Ids(Captures(journal))) \ {{}} :
          Publish(w, HoldBody(h, ids))

PlaceLegalHold(w) ==
    /\ pc[w] = "body"
    /\ \E h \in Holds \ Ids(Placements(journal)),
          ids \in (SUBSET Ids(LiveCaptures(journal))) \ {{}} :
          Publish(w, HoldBody(h, ids))

ReleaseLegalHold(w) ==
    /\ pc[w] = "body"
    /\ \E h \in Ids(Placements(journal)) \ Ids(Releases(journal)) :
          Publish(w, ReleaseBody(h))

\* Mutant: the replacement may itself be retired.
RetireForRetired(w) ==
    /\ pc[w] = "body"
    /\ \E c \in Refs(Archives(journal)) \ Refs(Retirements(journal)),
          r \in Components \cup {None}, claims \in SUBSET Claims :
          /\ r # None =>
                /\ r \in Refs(Archives(journal)) \ {c}
                /\ KindOf[r] = KindOf[c]
          /\ Publish(w, RetirementBody(c, r, claims))

\* Mutant: the replacement may be of another kind.
RetireForAnyKind(w) ==
    /\ pc[w] = "body"
    /\ \E c \in Refs(Archives(journal)) \ Refs(Retirements(journal)),
          r \in Components \cup {None}, claims \in SUBSET Claims :
          /\ r # None =>
                r \in Refs(Archives(journal)) \ (Refs(Retirements(journal)) \cup {c})
          /\ Publish(w, RetirementBody(c, r, claims))

RetireComponent(w) ==
    /\ pc[w] = "body"
    /\ \E c \in Refs(Archives(journal)) \ Refs(Retirements(journal)),
          r \in Components \cup {None}, claims \in SUBSET Claims :
          /\ r # None =>
                /\ r \in Refs(Archives(journal)) \ (Refs(Retirements(journal)) \cup {c})
                /\ KindOf[r] = KindOf[c]
          /\ Publish(w, RetirementBody(c, r, claims))

RotateJournalAuthority(w) ==
    /\ pc[w] = "body"
    /\ \E k \in Keys \ KeyHistory(journal) :
          Publish(w, RotationBody(ActiveKey(journal), k))

(***************************************************************************)
(* delete_evidence: the signed intent, the unlink, the signed tombstone.   *)
(***************************************************************************)
DeleteIntent(w) ==
    /\ pc[w] = "body"
    /\ MaySign(w)
    /\ \E capture \in Captures(journal), at \in Times, basis \in Basis :
          LET physical == capture.object \notin RetainedBesides(journal, capture.id)
              intent   == IntentBody(capture.id, capture.object, at, basis, physical)
          IN  /\ RetentionStatus(journal, capture, at) = AllowedStatus(basis)
              /\ physical => capture.object \in objects
              /\ journal' = Signed(w, intent)
              /\ todo' = [todo EXCEPT ![w] = CommitBody(intent)]
              /\ Goto(w, IF physical THEN "unlink" ELSE "append")
    /\ UNCHANGED <<objects, lock, handle>>

DeleteUnlink(w) ==
    /\ pc[w] = "unlink"
    /\ todo[w].object \in objects
    /\ objects' = objects \ {todo[w].object}
    /\ Goto(w, "append")
    /\ UNCHANGED <<journal, lock, handle, todo>>

\* A check of the body fails, or the deletion intent cannot be signed.
Reject(w) ==
    /\ pc[w] = "body"
    /\ Raise(w)
    /\ UNCHANGED <<journal, objects>>

-----------------------------------------------------------------------------
InMethod(w) == pc[w] \notin {"closed", "idle"}

\* An OSError leaves the method: the handle survives unless it was opening.
IOError(w) ==
    /\ InMethod(w)
    /\ Raise(w)
    /\ UNCHANGED <<journal, objects>>

\* The process dies; the kernel drops its flock.
Crash(w) ==
    /\ pc[w] # "closed"
    /\ lock' = IF lock = w THEN None ELSE lock
    /\ handle' = [handle EXCEPT ![w] = None]
    /\ todo' = [todo EXCEPT ![w] = None]
    /\ Goto(w, "closed")
    /\ UNCHANGED <<journal, objects>>

Recover(w) == \/ RecoverUnlink(w) \/ RecoverCommit(w) \/ RecoverFail(w)
              \/ Collect(w) \/ Recovered(w)

MethodBody(w) ==
    \/ ArchiveComponent(w) \/ AppendEvidence(w) \/ AppendPrepared(w)
    \/ CreateBundle(w) \/ PlaceLegalHold(w) \/ ReleaseLegalHold(w)
    \/ RetireComponent(w) \/ RotateJournalAuthority(w)
    \/ DeleteIntent(w) \/ DeleteUnlink(w) \/ Reject(w)

Next ==
    \E w \in Writers :
        \/ \E k \in Keys : Open(w, k)
        \/ Begin(w)
        \/ Recover(w)
        \/ MethodBody(w)
        \/ IOError(w)
        \/ Crash(w)

Spec == Init /\ [][Next]_vars

\* A running process gets to execute the rest of a method it has entered.
Fairness == \A w \in Writers : WF_vars(Recover(w) \/ MethodBody(w))

FairSpec == Spec /\ Fairness

-----------------------------------------------------------------------------
Labels == {"closed", "idle", "opening", "recovering", "body", "append", "unlink"}

\* A writer is inside a method exactly while it holds the lock, has a handle
\* exactly while it is not closed, and owes an event exactly in the labels that
\* publish one.
ControlOK ==
    \A w \in Writers :
        /\ lock = w <=> InMethod(w)
        /\ handle[w] = None <=> pc[w] = "closed"
        /\ todo[w] = None <=> pc[w] \notin {"append", "unlink"}

\* Types of the variables, and the control state that goes with them.
TypeOK ==
    /\ journal \in Seq(Event)
    /\ objects \in SUBSET Objects
    /\ lock \in Writers \cup {None}
    /\ handle \in [Writers -> Keys \cup {None}]
    /\ pc \in [Writers -> Labels]
    /\ todo \in [Writers -> Body \cup {None}]
    /\ ControlOK


(***************************************************************************)
(* Safety.                                                                 *)
(***************************************************************************)

\* The CAS keeps every object that live evidence or an archived component
\* still refers to, whatever deletion of a sharing evidence id, recovery or
\* collection of crash residue has run, and wherever a crash fell.
LiveObjectsRetained == Retained(journal) \subseteq objects

\* What a writer inside a method relies on between two of its disk effects:
\* the object of an event it is about to publish is in the CAS, the bytes of a
\* physical deletion it is about to seal are not, and those it is about to
\* unlink are needed by nothing.
EffectsInOrder ==
    \A w \in Writers :
        /\ pc[w] = "append" =>
              \/ /\ todo[w].type \in {"COMPONENT_ARCHIVED", "EVIDENCE_APPENDED"}
                 /\ todo[w].object \in objects
              \/ /\ todo[w].type = "EVIDENCE_DELETED"
                 /\ todo[w].physical => todo[w].object \notin objects
        /\ pc[w] = "unlink" =>
              /\ todo[w].type = "EVIDENCE_DELETED"
              /\ todo[w].object \notin Retained(journal)

\* The inductive strengthening of LiveObjectsRetained.
RetentionInv == TypeOK /\ LiveObjectsRetained /\ EffectsInOrder

\* Evidence under an unreleased legal hold has no deletion intent: a hold and
\* a deletion of the same evidence serialize to one of them.
HoldsBlockDeletion ==
    \A e \in Ids(Intents(journal)) : ActiveHolds(journal, e) = {}

\* A deletion intent is the last event of the journal or is followed at once
\* by its own tombstone: no event of any writer comes between them, so at most
\* one deletion is ever pending.
IntentThenTombstone ==
    \A i \in DOMAIN journal :
        journal[i].body.type = "EVIDENCE_DELETION_INTENT" =>
            \/ i = Len(journal)
            \/ journal[i + 1].body = CommitBody(journal[i].body)

\* Recovery never reaches its conflict error: the object of a pending physical
\* deletion has no live reference.
NoRecoveryConflict == \A intent \in Pending(journal) : ~Conflict(intent)

\* A method body runs on a clean vault: no deletion is pending and the CAS
\* holds exactly the referenced objects, so no crash residue survives the
\* next mutation.
CleanBeforeBody ==
    \A w \in Writers :
        pc[w] = "body" => Pending(journal) = {} /\ objects = Retained(journal)

\* Every event is signed by the authority active at its place in the journal,
\* and no key is the authority twice: a handle that was open across a rotation
\* never gets an event into the journal.
AuthorityChain ==
    /\ SignedInTurn(journal)
    /\ \A i, k \in RotationSteps(journal) :
          journal[i].body.successor = journal[k].body.successor => i = k
    /\ \A i \in RotationSteps(journal) : journal[i].body.successor # InitialKey

\* No capture names a component that was retired before it, or was archived
\* only after it.
CapturesUseActiveComponents ==
    \A i \in DOMAIN journal :
        journal[i].body.type = "EVIDENCE_APPENDED" =>
            journal[i].body.deps \subseteq
                Refs(Archives(Before(journal, i))) \ Refs(Retirements(Before(journal, i)))

\* Following replacements from a retired component always ends at an active
\* component or at none: every set of retired components has a member whose
\* replacement lies outside it.
ReplacementsEnd ==
    \A S \in (SUBSET Retirements(journal)) \ {{}} :
        \E b \in S : b.replacement \notin Refs(S)

\* The journal a vault has written is one that replay() accepts.
JournalReplays == Replayable(journal)

\* As long as the archived objects survive, evidence captured before a
\* retirement can still be replayed and re-verified (VAULT_TRUST_MODEL.md).
RetirementKeepsHistory ==
    Captures(journal) # {} /\ Retirements(journal) # {} => Replayable(journal)

(***************************************************************************)
(* Action properties.                                                      *)
(***************************************************************************)

\* When a tombstone that claims physical deletion is published, its object is
\* no longer in the CAS.
TombstoneAfterBytes ==
    [][\A b \in Deletions(journal') \ Deletions(journal) :
          b.physical => b.object \notin objects']_vars

\* Bytes leave the CAS only after a signed deletion intent for every evidence
\* id that referred to them, and while nothing archived refers to them.
NoUnexplainedLoss ==
    [][\A o \in objects \ objects' :
          /\ \A b \in Captures(journal) : b.object = o => b.id \in Ids(Intents(journal))
          /\ \A b \in Archives(journal) : b.object # o]_vars

(***************************************************************************)
(* Liveness, under FairSpec.                                               *)
(***************************************************************************)

\* Whoever holds the lock leaves it: by returning, raising or dying.
LockIsReleased == \A w \in Writers : lock = w ~> lock # w

=============================================================================
