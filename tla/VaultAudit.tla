----------------------------- MODULE VaultAudit -----------------------------
(***************************************************************************)
(* The readers of an evidence vault: retrieve_for_audit and                *)
(* reverify_json_predicate of auditspec/core/evidence_vault.py.            *)
(*                                                                         *)
(* A reader takes no lock.  It lists the journal directory, decides from   *)
(* that snapshot, and opens the files of the object store one by one,      *)
(* while writers go on.  A directory listing that overlaps with writes may *)
(* or may not contain the files linked meanwhile.                          *)
(***************************************************************************)
EXTENDS EvidenceVault

CONSTANTS
    Auditors,      \* processes holding read-only handles
    Usable,        \* components whose archived metadata passes the audit
    VerifierKind   \* the dependency kind whose content reverify executes

\* What a reader may find missing of the evidence itself; what it finds missing
\* of a component is named by the component's kind.
EvidenceSubtypes ==
    {"LEGAL_DELETION_PREVENTS_REVERIFY", "EVIDENCE_UNAVAILABLE",
     "DELETION_TRANSITION_INCOMPLETE", "RETENTION_NONCOMPLIANCE"}

Kinds == DependencyKinds \cup {BridgeKind}

ASSUME AuditAssumption ==
    /\ Usable \subseteq Components
    /\ VerifierKind \in DependencyKinds
    /\ EvidenceSubtypes \cap Kinds = {}

VARIABLE audit     \* for each auditor, where it is and what it has gathered

auditVars == <<audit>>
allVars == <<vars, audit>>

Idle == [phase |-> "closed", op |-> "open", pin |-> None, start |-> 0,
         seen |-> 0, bundle |-> None, at |-> None, rest |-> {}, part |-> None,
         deps |-> {}, gaps |-> {}, material |-> {}]

AuditInit == Init /\ audit = [a \in Auditors |-> Idle]

Become(a, record) == audit' = [audit EXCEPT ![a] = record] /\ UNCHANGED vars

Fail(a, error) == Become(a, [audit[a] EXCEPT !.phase = error])

Gap(subtype, e) == [subtype |-> subtype, id |-> e]

\* The journal that the auditor's replay saw.
Snapshot(a) == SubSeq(journal, 1, audit[a].seen)

CaptureOf(a, e) == CHOOSE b \in Captures(Snapshot(a)) : b.id = e

Members(a) == UNION {b.evidence : b \in {s \in Seals(Snapshot(a)) : s.id = audit[a].bundle}}

-----------------------------------------------------------------------------
(***************************************************************************)
(* replay(): a sorted listing of events/*.json.  It holds every event      *)
(* linked before it began and some of the later ones; unless those are     *)
(* the first of the later ones, the sequence check of replay() raises.     *)
(***************************************************************************)
BeginListing(a, record) ==
    Become(a, [record EXCEPT !.phase = "listing", !.start = Len(journal)])

Listed(a, n) ==
    /\ audit[a].phase = "listing"
    /\ n \in audit[a].start .. Len(journal)
    /\ Replayable(SubSeq(journal, 1, n))

ListingTorn(a) ==
    /\ audit[a].phase = "listing"
    /\ \/ Len(journal) >= audit[a].start + 2
       \/ ~Replayable(journal)
    /\ Fail(a, "journal error")

(***************************************************************************)
(* open_read_only: a handle with an external root pin replays at once.     *)
(***************************************************************************)
OpenReadOnly(a) ==
    /\ audit[a].phase = "closed"
    /\ Become(a, [Idle EXCEPT !.phase = "idle"])

OpenPinned(a) ==
    /\ audit[a].phase = "closed"
    /\ BeginListing(a, Idle)

\* The root of the listed prefix is the one the caller expects.
PinMatched(a, n) ==
    /\ audit[a].op = "open"
    /\ Listed(a, n)
    /\ Become(a, [Idle EXCEPT !.phase = "idle", !.pin = n])

(***************************************************************************)
(* retrieve_for_audit, one step per file it opens.                         *)
(***************************************************************************)
BeginAudit(a, op, b, at) ==
    /\ audit[a].phase = "idle"
    /\ BeginListing(a, [Idle EXCEPT !.op = op, !.bundle = b, !.at = at,
                                    !.pin = audit[a].pin])

SnapshotTaken(a, n) ==
    /\ audit[a].op \in {"retrieve", "reverify"}
    /\ Listed(a, n)
    /\ Become(a,
          IF audit[a].bundle \notin Ids(Seals(SubSeq(journal, 1, n)))
          THEN [audit[a] EXCEPT !.phase = "unknown bundle"]
          ELSE [audit[a] EXCEPT !.phase = "rows", !.start = 0, !.seen = n,
                   !.rest = UNION {b.evidence : b \in
                       {s \in Seals(SubSeq(journal, 1, n)) : s.id = audit[a].bundle}}])

TakeRow(a, e, record) ==
    /\ audit[a].phase = "rows"
    /\ e \in audit[a].rest
    /\ Become(a, [record EXCEPT !.rest = @ \ {e}])

SkipDeleted(a) ==
    \E b \in Deletions(Snapshot(a)) :
        TakeRow(a, b.id, [audit[a] EXCEPT !.gaps = @ \cup
            {Gap(IF b.basis = "policy_deadline" THEN "LEGAL_DELETION_PREVENTS_REVERIFY"
                 ELSE "EVIDENCE_UNAVAILABLE", b.id)}])

\* Mutant: evidence whose deletion has begun is passed over.
PassOverPending(a) == \E b \in Pending(Snapshot(a)) : TakeRow(a, b.id, audit[a])

SkipPending(a) ==
    \E b \in Pending(Snapshot(a)) :
        TakeRow(a, b.id, [audit[a] EXCEPT
            !.gaps = @ \cup {Gap("DELETION_TRANSITION_INCOMPLETE", b.id)}])

LiveRow(a, e) == e \in Ids(LiveCaptures(Snapshot(a)))

FindNothing(a) ==
    \E e \in audit[a].rest :
        /\ LiveRow(a, e)
        /\ CaptureOf(a, e).object \notin objects
        /\ TakeRow(a, e, [audit[a] EXCEPT
               !.gaps = @ \cup {Gap("RETENTION_NONCOMPLIANCE", e)}])

FindFile(a) ==
    \E e \in audit[a].rest :
        /\ LiveRow(a, e)
        /\ CaptureOf(a, e).object \in objects
        /\ TakeRow(a, e, [audit[a] EXCEPT !.phase = "reading", !.part = e])

ReadBytes(a) ==
    LET e == audit[a].part
        overdue == RetentionStatus(Snapshot(a), CaptureOf(a, e), audit[a].at)
                       = "DELETION_REQUIRED"
    IN  /\ audit[a].phase = "reading"
        /\ IF CaptureOf(a, e).object \notin objects
           THEN Fail(a, "file not found")
           ELSE Become(a, [audit[a] EXCEPT
                    !.phase = "dependencies",
                    !.deps = CaptureOf(a, e).deps,
                    !.material = @ \cup {e},
                    !.gaps = @ \cup
                        {g \in {Gap("RETENTION_NONCOMPLIANCE", e)} : overdue}])

ObjectOf(j, c) == (CHOOSE b \in Archives(j) : b.ref = c).object

Available(j, c) == c \in Refs(Archives(j)) /\ ObjectOf(j, c) \in objects

\* _check_component_dependencies: the file of one component after the other.
CheckDependency(a) ==
    /\ audit[a].phase = "dependencies"
    /\ \E c \in audit[a].deps :
          Become(a, [audit[a] EXCEPT !.deps = @ \ {c}, !.gaps = @ \cup
              {g \in {Gap(KindOf[c], audit[a].part)} :
                   ~(Available(Snapshot(a), c) /\ c \in Usable)}])

RowDone(a) ==
    /\ audit[a].phase = "dependencies"
    /\ audit[a].deps = {}
    /\ Become(a, [audit[a] EXCEPT !.phase = "rows", !.part = None])

\* The closing call of assurance() compares the snapshot with the pin.
Result(a) ==
    /\ audit[a].phase = "rows"
    /\ audit[a].rest = {}
    /\ IF audit[a].pin \notin {None, audit[a].seen} THEN Fail(a, "root pin mismatch")
       ELSE Become(a, [audit[a] EXCEPT
                !.phase = IF audit[a].gaps = {} THEN "ready" ELSE "gap"])

(***************************************************************************)
(* reverify_json_predicate goes on from a ready retrieval with a second    *)
(* replay, finds the one verifier of the claim and executes its content.   *)
(***************************************************************************)
ReplayAgain(a) ==
    /\ audit[a].phase = "ready"
    /\ audit[a].op = "reverify"
    /\ BeginListing(a, [audit[a] EXCEPT !.op = "execute"])

Verifiers(a, ids) ==
    {c \in UNION {CaptureOf(a, e).deps : e \in ids} : KindOf[c] = VerifierKind}

\* The evidence of the claim is some part of what was retrieved; none of it
\* is an inventory gap, and two verifiers are an error.
Execute(a, n) ==
    /\ audit[a].op = "execute"
    /\ Listed(a, n)
    /\ \E ids \in SUBSET audit[a].material :
          LET phase ==
                  IF ids = {} THEN "inventory gap"
                  ELSE IF Cardinality(Verifiers(a, ids)) # 1 THEN "multiple verifiers"
                  ELSE IF \A c \in Verifiers(a, ids) : Available(SubSeq(journal, 1, n), c)
                       THEN "reverified"
                  ELSE "component unavailable"
          IN  Become(a, [audit[a] EXCEPT !.phase = phase])

Outcomes == {"journal error", "unknown bundle", "file not found",
             "root pin mismatch", "ready", "gap", "inventory gap",
             "multiple verifiers", "reverified", "component unavailable"}

\* The caller has its answer; a failed open leaves no handle.
Answer(a) ==
    /\ audit[a].phase \in Outcomes
    /\ audit[a].phase = "ready" => audit[a].op = "retrieve"
    /\ Become(a, IF audit[a].op = "open" THEN Idle
                 ELSE [Idle EXCEPT !.phase = "idle", !.pin = audit[a].pin])

-----------------------------------------------------------------------------
AuditStep(a) ==
    \/ OpenReadOnly(a) \/ OpenPinned(a) \/ ListingTorn(a)
    \/ \E n \in 0 .. Len(journal) :
           PinMatched(a, n) \/ SnapshotTaken(a, n) \/ Execute(a, n)
    \/ \E op \in {"retrieve", "reverify"}, b \in Bundles, at \in Times :
           BeginAudit(a, op, b, at)
    \/ SkipDeleted(a) \/ SkipPending(a) \/ FindNothing(a) \/ FindFile(a)
    \/ ReadBytes(a) \/ CheckDependency(a) \/ RowDone(a) \/ Result(a)
    \/ ReplayAgain(a) \/ Answer(a)

AuditNext ==
    \/ Next /\ UNCHANGED audit
    \/ \E a \in Auditors : AuditStep(a)

AuditSpec == AuditInit /\ [][AuditNext]_allVars

-----------------------------------------------------------------------------
AuditRecord ==
    [phase : Outcomes \cup {"closed", "idle", "listing", "rows", "reading", "dependencies"},
     op : {"open", "retrieve", "reverify", "execute"},
     pin : Nat \cup {None}, start : Nat, seen : Nat,
     bundle : Bundles \cup {None}, at : Times \cup {None},
     rest : SUBSET Evidence, part : Evidence \cup {None}, deps : SUBSET Components,
     gaps : SUBSET [subtype : EvidenceSubtypes \cup Kinds, id : Evidence], material : SUBSET Evidence]

\* Evidence that the audit reports as lost although its snapshot has it live.
ReportedLost(a) ==
    {e \in Evidence : Gap("RETENTION_NONCOMPLIANCE", e) \in audit[a].gaps
                          /\ e \notin audit[a].material}
    \cup {e \in {audit[a].part} : audit[a].phase = "file not found"}

\* A reader never blames a vault for evidence that nobody has begun to delete:
\* what it cannot find has a deletion intent later than its snapshot.
LossHasIntent ==
    \A a \in Auditors : \A e \in ReportedLost(a) :
        \E i \in audit[a].seen + 1 .. Len(journal) :
            /\ journal[i].body.type = "EVIDENCE_DELETION_INTENT"
            /\ journal[i].body.id = e

\* Evidence that was under a legal hold at the snapshot and still is can be
\* read by an audit that began after the hold was placed.
HeldEvidenceIsFound ==
    \A a \in Auditors : \A e \in ReportedLost(a) :
        \A h \in ActiveHolds(Snapshot(a), e) : h.id \in Ids(Releases(journal))

\* No audit fails for want of a component: whatever shares its object and is
\* deleted meanwhile, retired or not, an archived component stays available to
\* the dependency checks and to the execution of the verifier.
DependenciesSurvive ==
    \A a \in Auditors :
        /\ audit[a].phase # "component unavailable"
        /\ \A g \in audit[a].gaps : g.subtype \in {KindOf[c] : c \in Components} =>
              \E c \in CaptureOf(a, g.id).deps \ Usable : KindOf[c] = g.subtype

\* A ready retrieval holds every member of its bundle, each of them live and
\* not overdue in one snapshot, whatever a writer has deleted while the members
\* were read one by one; and everything a member depends on is usable and still
\* in the vault (retrieve_for_audit, READY_FOR_REVERIFICATION).
ReadyIsOneSnapshot ==
    \A a \in Auditors : audit[a].phase = "ready" =>
        /\ audit[a].material = Members(a)
        /\ \A e \in Members(a) :
              /\ LiveRow(a, e)
              /\ RetentionStatus(Snapshot(a), CaptureOf(a, e), audit[a].at) # "DELETION_REQUIRED"
              /\ \A c \in CaptureOf(a, e).deps : c \in Usable /\ Available(journal, c)

\* Types of the auditors' records.
AuditTypeOK == audit \in [Auditors -> AuditRecord]
=============================================================================
