------------------------ MODULE VaultExtensions_proofs ------------------------
(***************************************************************************)
(* Theorems about what is built upon EvidenceVault, for all constants.     *)
(*                                                                         *)
(* The lock-free readers of a vault (VaultAudit): an audit blames the      *)
(* vault only for what somebody has begun to delete, no dependency of its  *)
(* evidence is ever missing, and a ready retrieval is the bundle as of one *)
(* snapshot.                                                               *)
(*                                                                         *)
(* A vault that Python and Rust write (VaultRuntimes): it implements the   *)
(* atomic lifecycle, and the safety that EvidenceVault proves of one       *)
(* program holds for the two.  A step of either program is a step of       *)
(* EvidenceVault, or one of two: Rust takes the lock with the key of an    *)
(* earlier check, and Python dies after it has linked its event.           *)
(***************************************************************************)
EXTENDS VaultAudit, VaultRuntimes, EvidenceVault_proofs

-----------------------------------------------------------------------------
(* What the readers rely on of the writers, and the invariant of a reader.  *)

\* An evidence id is captured once.
OneCapture == \A b, c \in Captures(journal) : b.id = c.id => b = c

VaultInv ==
    /\ JournalInv
    /\ HoldsBlockDeletion
    /\ CapturesUseActiveComponents
    /\ OneCapture

LiveAt(a) == Ids(LiveCaptures(Snapshot(a)))

\* Where a reader is in its loop, and what that says of its record.
LoopInv(a) ==
    /\ audit[a].seen <= Len(journal)
    /\ audit[a].phase = "listing" /\ audit[a].op # "execute" =>
          audit[a].material = {} /\ audit[a].gaps = {}
    /\ audit[a].phase = "listing" /\ audit[a].op = "execute" =>
          audit[a].seen <= audit[a].start
    /\ audit[a].phase \in {"reading", "dependencies"} => audit[a].part \in LiveAt(a)
    /\ audit[a].phase = "dependencies" =>
          /\ audit[a].part \in audit[a].material
          /\ audit[a].deps \subseteq CaptureOf(a, audit[a].part).deps
    /\ audit[a].material \subseteq LiveAt(a)
    /\ audit[a].phase \in {"rows", "reading", "dependencies", "ready"} =>
          Members(a) = audit[a].rest \cup audit[a].material
                           \cup {g.id : g \in audit[a].gaps}
                           \cup {e \in {audit[a].part} : audit[a].phase = "reading"}

LostAfter(a) ==
    \A e \in ReportedLost(a) :
        \E i \in audit[a].seen + 1 .. Len(journal) :
            /\ journal[i].body.type = "EVIDENCE_DELETION_INTENT"
            /\ journal[i].body.id = e

DependenciesFound(a) ==
    /\ audit[a].phase # "component unavailable"
    /\ \A g \in audit[a].gaps : g.subtype \in {KindOf[c] : c \in Components} =>
          \E c \in CaptureOf(a, g.id).deps \ Usable : KindOf[c] = g.subtype

ReadyTogether(a) ==
    audit[a].phase = "ready" =>
        /\ audit[a].material = Members(a)
        /\ Members(a) \subseteq LiveAt(a)

ReaderInv(a) ==
    /\ LoopInv(a)
    /\ LostAfter(a)
    /\ DependenciesFound(a)
    /\ ReadyTogether(a)

ReadersInv ==
    /\ VaultInv
    /\ AuditTypeOK
    /\ \A a \in Auditors : ReaderInv(a)

-----------------------------------------------------------------------------
(* The writers keep VaultInv. *)

LEMMA OneCaptureStep ==
    ASSUME VaultInv, Grows
    PROVE  OneCapture'
<1> USE DEF VaultInv
<1>1. CASE UNCHANGED journal
  BY <1>1 DEF OneCapture
<1>2. CASE \E e \in Event : journal' = Append(journal, e) /\ Origin(e.body)
  <2>1. PICK e \in Event : journal' = Append(journal, e) /\ Origin(e.body)
    BY <1>2
  <2>2. CASE e.body.type = "EVIDENCE_APPENDED"
    <3>1. e.body.id \notin Ids(Captures(journal))
      BY <2>1, <2>2, OriginChecked DEF Accepts
    <3>2. Captures(journal') = Captures(journal) \cup {e.body}
      BY <2>1, <2>2, JournalTyped, AppendOfType DEF Captures
    <3>3. QED
      BY <3>1, <3>2 DEF OneCapture, Ids
  <2>3. CASE e.body.type # "EVIDENCE_APPENDED"
    <3>1. Captures(journal') = Captures(journal)
      BY <2>1, <2>3, JournalTyped, AppendOfType DEF Captures
    <3>2. QED
      BY <3>1 DEF OneCapture
  <2>4. QED
    BY <2>2, <2>3
<1>3. QED
  BY <1>1, <1>2 DEF Grows

LEMMA VaultStep == VaultInv /\ [Next]_vars => VaultInv'
  BY JournalStep, JournalSteps, HoldsKept, ActiveStep, OneCaptureStep DEF VaultInv

LEMMA VaultInit == Init => VaultInv
<1>1. Init => OneCapture
  BY DEF Init, OneCapture, Captures, OfType, Bodies
<1>2. Init => CapturesUseActiveComponents
  BY DEF Init, CapturesUseActiveComponents
<1>3. QED
  BY <1>1, <1>2, JournalInit, HoldsInit DEF VaultInv

-----------------------------------------------------------------------------
(* A prefix of the journal, and what becomes of it. *)

LEMMA PrefixIsPart ==
    ASSUME NEW j \in Seq(Event), NEW n \in Nat, n <= Len(j)
    PROVE  /\ SubSeq(j, 1, n) \in Seq(Event)
           /\ DOMAIN SubSeq(j, 1, n) = 1 .. n
           /\ \A i \in 1 .. n : i \in DOMAIN j /\ SubSeq(j, 1, n)[i] = j[i]
  OBVIOUS

LEMMA PrefixBodies ==
    ASSUME NEW j \in Seq(Event), NEW m \in Nat, NEW n \in Nat, m <= n, n <= Len(j)
    PROVE  /\ Bodies(SubSeq(j, 1, m)) \subseteq Bodies(SubSeq(j, 1, n))
           /\ Bodies(SubSeq(j, 1, n)) \subseteq Bodies(j)
<1>1. \A i \in 1 .. m : i \in 1 .. n /\ SubSeq(j, 1, m)[i] = SubSeq(j, 1, n)[i]
  BY PrefixIsPart
<1>2. QED
  BY <1>1, PrefixIsPart DEF Bodies

LEMMA PrefixViews ==
    ASSUME NEW j \in Seq(Event), NEW m \in Nat, NEW n \in Nat, m <= n, n <= Len(j)
    PROVE  /\ Archives(SubSeq(j, 1, m)) \subseteq Archives(SubSeq(j, 1, n))
           /\ Archives(SubSeq(j, 1, n)) \subseteq Archives(j)
           /\ Captures(SubSeq(j, 1, n)) \subseteq Captures(j)
           /\ Placements(SubSeq(j, 1, n)) \subseteq Placements(j)
           /\ Seals(SubSeq(j, 1, n)) \subseteq Seals(j)
  BY PrefixBodies DEF OfType, Archives, Captures, Placements, Seals

LEMMA PrefixStays ==
    ASSUME NEW j \in Seq(Event), NEW e \in Event, NEW n \in Nat, n <= Len(j)
    PROVE  SubSeq(Append(j, e), 1, n) = SubSeq(j, 1, n)
<1>1. /\ Append(j, e) \in Seq(Event)
      /\ Len(Append(j, e)) = Len(j) + 1
      /\ \A i \in 1 .. n : Append(j, e)[i] = j[i]
  OBVIOUS
<1>2. /\ SubSeq(Append(j, e), 1, n) = [i \in 1 .. n |-> Append(j, e)[i]]
      /\ SubSeq(j, 1, n) = [i \in 1 .. n |-> j[i]]
  BY <1>1
<1>3. QED
  BY <1>1, <1>2

\* Evidence with an intent that the snapshot does not show has it later.
LEMMA IntentIsLater ==
    ASSUME VaultInv, NEW n \in Nat, n <= Len(journal), NEW e,
           e \in Ids(Intents(journal)), e \notin Ids(Intents(SubSeq(journal, 1, n)))
    PROVE  \E i \in n + 1 .. Len(journal) :
              /\ journal[i].body.type = "EVIDENCE_DELETION_INTENT"
              /\ journal[i].body.id = e
<1>1. journal \in Seq(Event)
  BY JournalTyped DEF VaultInv
<1>2. PICK i \in DOMAIN journal : /\ journal[i].body.type = "EVIDENCE_DELETION_INTENT"
                                  /\ journal[i].body.id = e
  BY DEF Intents, OfType, Bodies, Ids
<1>3. i \notin 1 .. n
  <2>1. SUFFICES ASSUME i \in 1 .. n
                 PROVE  e \in Ids(Intents(SubSeq(journal, 1, n)))
    OBVIOUS
  <2>2. SubSeq(journal, 1, n)[i] = journal[i] /\ i \in DOMAIN SubSeq(journal, 1, n)
    BY <1>1, <2>1, PrefixIsPart
  <2>3. journal[i].body \in Intents(SubSeq(journal, 1, n))
    BY <1>2, <2>2 DEF Intents, OfType, Bodies
  <2>4. QED
    BY <1>2, <2>3 DEF Ids
<1>4. i \in 1 .. Len(journal)
  BY <1>1
<1>5. i \in n + 1 .. Len(journal)
  BY <1>1, <1>3, <1>4
<1>6. QED
  BY <1>2, <1>5

-----------------------------------------------------------------------------
(* What a reader sees of its snapshot. *)

\* The capture of an evidence id that was live when the snapshot was taken.
LEMMA LiveCaptured ==
    ASSUME VaultInv, AuditTypeOK, NEW a \in Auditors,
           audit[a].seen <= Len(journal), NEW e \in LiveAt(a)
    PROVE  /\ CaptureOf(a, e) \in LiveCaptures(Snapshot(a))
           /\ CaptureOf(a, e) \in Captures(journal)
           /\ CaptureOf(a, e).id = e
           /\ e \in Evidence
<1>1. journal \in Seq(Event) /\ audit[a].seen \in Nat
  BY JournalTyped DEF AuditRecord, AuditTypeOK, VaultInv
<1>2. Captures(Snapshot(a)) \subseteq Captures(journal)
  BY <1>1, PrefixViews DEF Snapshot
<1>3. PICK b \in LiveCaptures(Snapshot(a)) : b.id = e
  BY DEF LiveAt, Ids
<1>4. b \in Captures(Snapshot(a))
  BY DEF LiveCaptures
<1>5. CaptureOf(a, e) \in Captures(Snapshot(a)) /\ CaptureOf(a, e).id = e
  BY <1>3, <1>4 DEF CaptureOf
<1>6. CaptureOf(a, e) = b
  BY <1>2, <1>3, <1>4, <1>5 DEF VaultInv, OneCapture
<1>7. Ids(Captures(journal)) \subseteq Evidence
  BY <1>1, IdsTyped
<1>8. QED
  BY <1>2, <1>3, <1>4, <1>6, <1>7 DEF Ids

\* What is no longer there has a deletion intent later than the snapshot.
LEMMA MissingIsIntended ==
    ASSUME VaultInv, AuditTypeOK, NEW a \in Auditors,
           audit[a].seen <= Len(journal), NEW e \in LiveAt(a),
           CaptureOf(a, e).object \notin objects
    PROVE  \E i \in audit[a].seen + 1 .. Len(journal) :
              /\ journal[i].body.type = "EVIDENCE_DELETION_INTENT"
              /\ journal[i].body.id = e
<1> DEFINE b == CaptureOf(a, e)
<1>1. /\ b \in LiveCaptures(Snapshot(a))
      /\ b \in Captures(journal)
      /\ b.id = e
  BY LiveCaptured
<1>2. b.object \notin Retained(journal)
  BY DEF VaultInv, JournalInv, RetentionInv, LiveObjectsRetained
<1>3. e \in Ids(Intents(journal))
  BY <1>1, <1>2, UnretainedIsIntended DEF VaultInv, JournalInv
<1>4. e \notin Ids(Intents(Snapshot(a)))
  BY <1>1, LiveMeansUnmarked
<1>5. audit[a].seen \in Nat
  BY DEF AuditRecord, AuditTypeOK
<1>6. QED
  BY <1>3, <1>4, <1>5, IntentIsLater DEF Snapshot

\* A dependency of captured evidence is archived in the snapshot, its content
\* is in the CAS and stays there.
LEMMA DependencyAvailable ==
    ASSUME VaultInv, AuditTypeOK, NEW a \in Auditors,
           audit[a].seen <= Len(journal), NEW e \in LiveAt(a),
           NEW c \in CaptureOf(a, e).deps,
           NEW n \in Nat, audit[a].seen <= n, n <= Len(journal)
    PROVE  Available(SubSeq(journal, 1, n), c)
<1> DEFINE b == CaptureOf(a, e)
           m == audit[a].seen
           j == SubSeq(journal, 1, n)
<1>1. journal \in Seq(Event) /\ m \in Nat
  BY JournalTyped DEF AuditRecord, AuditTypeOK, VaultInv
<1>2. b \in Captures(Snapshot(a))
  BY LiveCaptured DEF LiveCaptures
<1>3. PICK i \in 1 .. m : journal[i].body = b /\ b.type = "EVIDENCE_APPENDED"
  BY <1>1, <1>2, PrefixIsPart DEF Snapshot, Captures, OfType, Bodies
<1>4. i \in DOMAIN journal
  BY <1>1
<1>5. c \in Refs(Archives(Before(journal, i)))
  BY <1>3, <1>4 DEF VaultInv, CapturesUseActiveComponents
<1>6. Archives(Before(journal, i)) \subseteq Archives(j)
  <2>1. i - 1 \in Nat /\ i - 1 <= n
    BY <1>1
  <2>2. QED
    BY <1>1, <2>1, PrefixViews DEF Before
<1>7. c \in Refs(Archives(j))
  BY <1>5, <1>6 DEF Refs
<1>8. \A d \in Archives(j) : d.object \in objects
  <2>1. Archives(j) \subseteq Archives(journal)
    BY <1>1, PrefixViews
  <2>2. QED
    BY <2>1 DEF VaultInv, JournalInv, RetentionInv, LiveObjectsRetained, Retained
<1>9. \E d \in Archives(j) : d.ref = c
  BY <1>7 DEF Refs
<1>10. ObjectOf(j, c) \in objects
  BY <1>8, <1>9 DEF ObjectOf
<1>11. QED
  BY <1>7, <1>10 DEF Available

-----------------------------------------------------------------------------
(* A reader that does not move: its snapshot stays what it was.             *)

LEMMA SnapshotKept ==
    ASSUME NEW a \in Auditors, SubSeq(journal', 1, audit'[a].seen)
                                   = SubSeq(journal, 1, audit[a].seen)
    PROVE  /\ Snapshot(a)' = Snapshot(a)
           /\ LiveAt(a)' = LiveAt(a)
           /\ \A e : CaptureOf(a, e)' = CaptureOf(a, e)
           /\ audit'[a].bundle = audit[a].bundle => Members(a)' = Members(a)
<1>1. Snapshot(a)' = Snapshot(a)
  BY DEF Snapshot
<1>2. QED
  BY <1>1 DEF LiveAt, CaptureOf, Members

LEMMA ReaderKept ==
    ASSUME VaultInv, AuditTypeOK, NEW a \in Auditors,
           ReaderInv(a), audit'[a] = audit[a],
           UNCHANGED journal \/ \E e \in Event : journal' = Append(journal, e)
    PROVE  ReaderInv(a)'
<1>1. journal \in Seq(Event) /\ audit[a].seen \in Nat /\ audit[a].seen <= Len(journal)
  BY JournalTyped DEF AuditRecord, ReaderInv, LoopInv, AuditTypeOK, VaultInv
<1>2. /\ SubSeq(journal', 1, audit'[a].seen) = SubSeq(journal, 1, audit[a].seen)
      /\ Len(journal) <= Len(journal') /\ Len(journal') \in Nat
      /\ \A i \in DOMAIN journal : journal'[i] = journal[i]
  <2>1. CASE UNCHANGED journal
    BY <1>1, <2>1
  <2>2. CASE \E e \in Event : journal' = Append(journal, e)
    <3>1. PICK e \in Event : journal' = Append(journal, e)
      BY <2>2
    <3>2. SubSeq(journal', 1, audit'[a].seen) = SubSeq(journal, 1, audit[a].seen)
      BY <1>1, <3>1, PrefixStays
    <3>3. QED
      BY <1>1, <3>1, <3>2
  <2>3. QED
    BY <2>1, <2>2
<1>3. /\ Snapshot(a)' = Snapshot(a)
      /\ LiveAt(a)' = LiveAt(a)
      /\ \A e : CaptureOf(a, e)' = CaptureOf(a, e)
      /\ Members(a)' = Members(a)
  BY <1>2, SnapshotKept
<1>4. LoopInv(a)'
  BY <1>1, <1>2, <1>3 DEF ReaderInv, LoopInv
<1>5. LostAfter(a)'
  <2>1. SUFFICES ASSUME NEW e \in ReportedLost(a)'
                 PROVE  \E i \in audit'[a].seen + 1 .. Len(journal') :
                            /\ journal'[i].body.type = "EVIDENCE_DELETION_INTENT"
                            /\ journal'[i].body.id = e
    BY DEF LostAfter
  <2>2. e \in ReportedLost(a)
    BY <2>1 DEF ReportedLost
  <2>3. PICK i \in audit[a].seen + 1 .. Len(journal) :
            /\ journal[i].body.type = "EVIDENCE_DELETION_INTENT"
            /\ journal[i].body.id = e
    BY <2>2 DEF ReaderInv, LostAfter
  <2>4. /\ i \in DOMAIN journal
        /\ i \in audit'[a].seen + 1 .. Len(journal')
    BY <1>1, <1>2
  <2>5. QED
    BY <1>2, <2>3, <2>4
<1>6. DependenciesFound(a)'
  BY <1>3 DEF ReaderInv, DependenciesFound
<1>7. ReadyTogether(a)'
  BY <1>3 DEF ReaderInv, ReadyTogether
<1>8. QED
  BY <1>4, <1>5, <1>6, <1>7 DEF ReaderInv

-----------------------------------------------------------------------------
(* A reader that moves.  Its record is replaced, the vault stays as it is.  *)

LEMMA Becomes ==
    ASSUME AuditTypeOK, NEW a \in Auditors,
           NEW record, Become(a, record)
    PROVE  /\ audit'[a] = record
           /\ \A b \in Auditors \ {a} : audit'[b] = audit[b]
           /\ record \in AuditRecord => AuditTypeOK'
           /\ UNCHANGED <<journal, objects>>
  BY DEF Become, vars, AuditTypeOK

Moved(a) == /\ AuditTypeOK'
            /\ ReaderInv(a)'

LEMMA ListingRecord ==
    ASSUME NEW r \in AuditRecord, NEW n \in Nat
    PROVE  [r EXCEPT !.phase = "listing", !.start = n] \in AuditRecord
  BY DEF AuditRecord

\* Opening, beginning an audit and answering start from an empty record.
LEMMA EmptyRecord ==
    ASSUME ReadersInv, NEW a \in Auditors,
           NEW record \in AuditRecord, Become(a, record),
           record.phase \in {"closed", "idle", "listing"}, record.op # "execute",
           record.seen = 0, record.material = {}, record.gaps = {}
    PROVE  Moved(a)
<1>1. /\ audit'[a] = record /\ UNCHANGED journal
      /\ AuditTypeOK'
  BY Becomes DEF ReadersInv
<1>2. Len(journal) \in Nat
  BY JournalTyped DEF ReadersInv
<1>3. LoopInv(a)'
  BY <1>1, <1>2 DEF LoopInv
<1>4. LostAfter(a)' /\ DependenciesFound(a)' /\ ReadyTogether(a)'
  BY <1>1 DEF LostAfter, ReportedLost, DependenciesFound, ReadyTogether
<1>5. QED
  BY <1>1, <1>3, <1>4 DEF Moved, ReaderInv

LEMMA BeginningMoves ==
    ASSUME ReadersInv, NEW a \in Auditors,
           \/ OpenReadOnly(a) \/ OpenPinned(a) \/ Answer(a)
           \/ \E n \in 0 .. Len(journal) : PinMatched(a, n)
           \/ \E op \in {"retrieve", "reverify"}, b \in Bundles, at \in Times :
                  BeginAudit(a, op, b, at)
    PROVE  Moved(a)
<1>1. audit[a] \in AuditRecord /\ Len(journal) \in Nat /\ Idle \in AuditRecord
  BY JournalTyped DEF ReadersInv, AuditRecord, Idle, AuditTypeOK
<1>2. CASE OpenReadOnly(a)
  BY <1>1, <1>2, EmptyRecord DEF OpenReadOnly, Idle, AuditRecord
<1>3. CASE OpenPinned(a)
  BY <1>1, <1>3, EmptyRecord DEF OpenPinned, BeginListing, Idle, AuditRecord
<1>4. CASE Answer(a)
  <2> DEFINE answered == [Idle EXCEPT !.phase = "idle", !.pin = audit[a].pin]
  <2>1. Become(a, Idle) \/ Become(a, answered)
    BY <1>4 DEF Answer
  <2>2. CASE Become(a, Idle)
    BY <1>1, <2>2, EmptyRecord DEF Idle
  <2>3. CASE Become(a, answered)
    <3>1. answered \in AuditRecord
      BY <1>1 DEF Idle, AuditRecord
    <3>2. /\ answered.phase = "idle" /\ answered.op = "open" /\ answered.seen = 0
          /\ answered.material = {} /\ answered.gaps = {}
      BY DEF Idle
    <3>3. QED
      BY <2>3, <3>1, <3>2, EmptyRecord
  <2>4. QED
    BY <2>1, <2>2, <2>3
<1>5. CASE \E n \in 0 .. Len(journal) : PinMatched(a, n)
  <2>1. PICK n \in 0 .. Len(journal) : PinMatched(a, n)
    BY <1>5
  <2> DEFINE opened == [Idle EXCEPT !.phase = "idle", !.pin = n]
  <2>2. opened \in AuditRecord
    <3>1. n \in Nat
      BY <1>1
    <3>2. QED
      BY <3>1 DEF Idle, AuditRecord
  <2>3. /\ opened.phase = "idle" /\ opened.op = "open" /\ opened.seen = 0
        /\ opened.material = {} /\ opened.gaps = {}
    BY DEF Idle
  <2>4. Become(a, opened)
    BY <2>1 DEF PinMatched
  <2>5. QED
    BY <2>2, <2>3, <2>4, EmptyRecord
<1>6. CASE \E op \in {"retrieve", "reverify"}, b \in Bundles, at \in Times :
                BeginAudit(a, op, b, at)
  <2>1. PICK op \in {"retrieve", "reverify"}, b \in Bundles, at \in Times :
                BeginAudit(a, op, b, at)
    BY <1>6
  <2> DEFINE begun == [Idle EXCEPT !.op = op, !.bundle = b, !.at = at,
                                   !.pin = audit[a].pin]
             record == [begun EXCEPT !.phase = "listing", !.start = Len(journal)]
  <2>2. record \in AuditRecord
    <3>1. begun \in AuditRecord
      <4>1. audit[a].pin \in Nat \cup {None}
        BY <1>1 DEF AuditRecord
      <4>2. QED
        BY <1>1, <4>1 DEF Idle, AuditRecord
    <3> HIDE DEF begun
    <3>2. QED
      BY <1>1, <3>1, ListingRecord
  <2>3. /\ record.phase = "listing" /\ record.op = op /\ record.seen = 0
        /\ record.material = {} /\ record.gaps = {}
    BY DEF Idle
  <2>4. Become(a, record)
    BY <2>1 DEF BeginAudit, BeginListing
  <2>5. QED
    BY <2>2, <2>3, <2>4, EmptyRecord
<1>7. QED
  BY <1>2, <1>3, <1>4, <1>5, <1>6

\* A step that gathers nothing: only the reader's place changes.
LEMMA SameFindings ==
    ASSUME ReadersInv, NEW a \in Auditors,
           NEW record \in AuditRecord, Become(a, record),
           record.seen = audit[a].seen, record.bundle = audit[a].bundle,
           record.material = audit[a].material, record.gaps = audit[a].gaps,
           record.phase \notin {"reading", "dependencies", "file not found",
                                "component unavailable"},
           record.phase = "listing" =>
               record.op = "execute" /\ record.seen <= record.start,
           record.phase \in {"rows", "ready"} =>
               /\ audit[a].phase \in {"rows", "dependencies"}
               /\ record.rest = audit[a].rest,
           record.phase = "ready" =>
               record.rest = {} /\ record.gaps = {}
    PROVE  Moved(a)
<1>1. /\ audit'[a] = record /\ UNCHANGED journal
      /\ AuditTypeOK'
  BY Becomes DEF ReadersInv
<1>2. ReaderInv(a)
  BY DEF ReadersInv
<1>3. /\ LiveAt(a)' = LiveAt(a)
      /\ \A e : CaptureOf(a, e)' = CaptureOf(a, e)
      /\ Members(a)' = Members(a)
  BY <1>1, SnapshotKept
<1>4. LoopInv(a)'
  BY <1>1, <1>2, <1>3 DEF ReaderInv, LoopInv
<1>5. LostAfter(a)'
  <2>1. ReportedLost(a)' \subseteq ReportedLost(a)
    BY <1>1 DEF ReportedLost
  <2>2. QED
    BY <1>1, <1>2, <2>1 DEF ReaderInv, LostAfter
<1>6. DependenciesFound(a)'
  BY <1>1, <1>2, <1>3 DEF ReaderInv, DependenciesFound
<1>7. ReadyTogether(a)'
  <2>1. SUFFICES ASSUME record.phase = "ready"
                 PROVE  /\ record.material = Members(a)
                        /\ Members(a) \subseteq LiveAt(a)
    BY <1>1, <1>3 DEF ReadyTogether
  <2>2. audit[a].rest = {} /\ audit[a].gaps = {}
    BY <2>1
  <2>3. Members(a) = audit[a].material
    BY <1>2, <2>1, <2>2 DEF ReaderInv, LoopInv
  <2>4. QED
    BY <1>2, <2>3 DEF ReaderInv, LoopInv
<1>8. QED
  BY <1>1, <1>4, <1>5, <1>6, <1>7 DEF Moved, ReaderInv

LEMMA PlaceMoves ==
    ASSUME ReadersInv, NEW a \in Auditors,
           ListingTorn(a) \/ RowDone(a) \/ Result(a) \/ ReplayAgain(a)
    PROVE  Moved(a)
<1>1. audit[a] \in AuditRecord /\ Len(journal) \in Nat
  BY JournalTyped DEF ReadersInv, AuditTypeOK
<1>2. CASE ListingTorn(a)
  <2> DEFINE record == [audit[a] EXCEPT !.phase = "journal error"]
  <2>1. Become(a, record)
    BY <1>2 DEF ListingTorn, Fail
  <2>2. record \in AuditRecord
    BY <1>1 DEF AuditRecord, Outcomes
  <2>3. /\ record.phase = "journal error" /\ record.seen = audit[a].seen
        /\ record.bundle = audit[a].bundle
        /\ record.material = audit[a].material /\ record.gaps = audit[a].gaps
    BY <1>1 DEF AuditRecord
  <2> HIDE DEF record
  <2>4. QED
    BY <2>1, <2>2, <2>3, SameFindings
<1>3. CASE RowDone(a)
  <2> DEFINE record == [audit[a] EXCEPT !.phase = "rows", !.part = None]
  <2>1. Become(a, record) /\ audit[a].phase = "dependencies"
    BY <1>3 DEF RowDone
  <2>2. record \in AuditRecord
    BY <1>1 DEF AuditRecord
  <2>3. /\ record.phase = "rows" /\ record.seen = audit[a].seen
        /\ record.bundle = audit[a].bundle /\ record.rest = audit[a].rest
        /\ record.material = audit[a].material /\ record.gaps = audit[a].gaps
    BY <1>1 DEF AuditRecord
  <2> HIDE DEF record
  <2>4. QED
    BY <2>1, <2>2, <2>3, SameFindings
<1>4. CASE Result(a)
  <2>1. PICK phase \in {"root pin mismatch", "ready", "gap"} :
            /\ Become(a, [audit[a] EXCEPT !.phase = phase])
            /\ phase = "ready" => audit[a].gaps = {}
    BY <1>4 DEF Result, Fail
  <2>2. audit[a].phase = "rows" /\ audit[a].rest = {}
    BY <1>4 DEF Result
  <2> DEFINE record == [audit[a] EXCEPT !.phase = phase]
  <2>3. record \in AuditRecord
    BY <1>1 DEF AuditRecord, Outcomes
  <2>4. /\ record.phase = phase /\ record.seen = audit[a].seen
        /\ record.bundle = audit[a].bundle /\ record.rest = audit[a].rest
        /\ record.material = audit[a].material /\ record.gaps = audit[a].gaps
    BY <1>1 DEF AuditRecord
  <2>5. Become(a, record)
    BY <2>1
  <2> HIDE DEF record
  <2>6. QED
    BY <2>1, <2>2, <2>3, <2>4, <2>5, SameFindings
<1>5. CASE ReplayAgain(a)
  <2> DEFINE asked == [audit[a] EXCEPT !.op = "execute"]
             record == [asked EXCEPT !.phase = "listing", !.start = Len(journal)]
  <2>1. Become(a, record)
    BY <1>5 DEF ReplayAgain, BeginListing
  <2>2. asked \in AuditRecord
    BY <1>1 DEF AuditRecord
  <2>3. record \in AuditRecord
    <3> HIDE DEF asked
    <3>1. QED
      BY <1>1, <2>2, ListingRecord
  <2>4. /\ record.phase = "listing" /\ record.seen = audit[a].seen
        /\ record.op = "execute" /\ record.start = Len(journal)
        /\ record.bundle = audit[a].bundle
        /\ record.material = audit[a].material /\ record.gaps = audit[a].gaps
    BY <1>1 DEF AuditRecord
  <2>5. audit[a].seen <= Len(journal)
    BY DEF ReadersInv, ReaderInv, LoopInv
  <2> HIDE DEF record
  <2>6. QED
    BY <2>1, <2>3, <2>4, <2>5, SameFindings
<1>6. QED
  BY <1>2, <1>3, <1>4, <1>5

\* Whatever was retrieved, its verifiers are there when they are executed.
LEMMA ExecuteMoves ==
    ASSUME ReadersInv, NEW a \in Auditors, NEW n \in 0 .. Len(journal), Execute(a, n)
    PROVE  Moved(a)
<1>1. /\ audit[a] \in AuditRecord /\ Len(journal) \in Nat
      /\ audit[a].seen \in Nat /\ audit[a].start \in Nat
  BY JournalTyped DEF ReadersInv, AuditRecord, AuditTypeOK
<1>2. n \in Nat /\ n <= Len(journal) /\ audit[a].seen <= n
  <2>1. /\ audit[a].phase = "listing" /\ audit[a].op = "execute"
        /\ n \in audit[a].start .. Len(journal)
    BY DEF Execute, Listed
  <2>2. audit[a].seen <= audit[a].start
    BY <2>1 DEF ReadersInv, ReaderInv, LoopInv
  <2>3. QED
    BY <1>1, <2>1, <2>2
<1>3. PICK ids \in SUBSET audit[a].material :
          Become(a, [audit[a] EXCEPT !.phase =
              IF ids = {} THEN "inventory gap"
              ELSE IF Cardinality(Verifiers(a, ids)) # 1 THEN "multiple verifiers"
              ELSE IF \A c \in Verifiers(a, ids) : Available(SubSeq(journal, 1, n), c)
                   THEN "reverified"
              ELSE "component unavailable"])
  BY DEF Execute
<1>4. \A c \in Verifiers(a, ids) : Available(SubSeq(journal, 1, n), c)
  <2>1. SUFFICES ASSUME NEW c \in Verifiers(a, ids)
                 PROVE  Available(SubSeq(journal, 1, n), c)
    OBVIOUS
  <2>2. PICK e \in ids : c \in CaptureOf(a, e).deps
    BY DEF Verifiers
  <2>3. e \in LiveAt(a) /\ audit[a].seen <= Len(journal)
    BY DEF ReadersInv, ReaderInv, LoopInv
  <2>4. QED
    BY <1>2, <2>2, <2>3, DependencyAvailable DEF ReadersInv
<1>5. PICK phase \in {"inventory gap", "multiple verifiers", "reverified"} :
          Become(a, [audit[a] EXCEPT !.phase = phase])
  BY <1>3, <1>4
<1> DEFINE record == [audit[a] EXCEPT !.phase = phase]
<1>6. record \in AuditRecord
  BY <1>1 DEF AuditRecord, Outcomes
<1>7. /\ record.phase = phase /\ record.seen = audit[a].seen
      /\ record.bundle = audit[a].bundle
      /\ record.material = audit[a].material /\ record.gaps = audit[a].gaps
  BY <1>1 DEF AuditRecord
<1>8. Become(a, record)
  BY <1>5
<1> HIDE DEF record
<1>9. QED
  BY <1>6, <1>7, <1>8, SameFindings

\* The snapshot that the rows are taken from.
LEMMA SnapshotMoves ==
    ASSUME ReadersInv, NEW a \in Auditors, NEW n \in 0 .. Len(journal),
           SnapshotTaken(a, n)
    PROVE  Moved(a)
<1> DEFINE j == SubSeq(journal, 1, n)
           rows == UNION {b.evidence : b \in {s \in Seals(j) : s.id = audit[a].bundle}}
           unknown == [audit[a] EXCEPT !.phase = "unknown bundle"]
           taken == [audit[a] EXCEPT !.phase = "rows", !.start = 0, !.seen = n,
                                     !.rest = rows]
<1>1. /\ audit[a] \in AuditRecord /\ journal \in Seq(Event) /\ Len(journal) \in Nat
      /\ n \in Nat /\ n <= Len(journal)
  BY JournalTyped DEF ReadersInv, AuditTypeOK, VaultInv
<1>2. Become(a, unknown) \/ Become(a, taken)
  BY DEF SnapshotTaken
<1>3. audit[a].material = {} /\ audit[a].gaps = {}
  BY DEF SnapshotTaken, Listed, ReadersInv, ReaderInv, LoopInv
<1>4. CASE Become(a, unknown)
  <2>1. unknown \in AuditRecord
    BY <1>1 DEF AuditRecord, Outcomes
  <2>2. /\ unknown.phase = "unknown bundle" /\ unknown.seen = audit[a].seen
        /\ unknown.bundle = audit[a].bundle
        /\ unknown.material = audit[a].material /\ unknown.gaps = audit[a].gaps
    BY <1>1 DEF AuditRecord
  <2> HIDE DEF unknown
  <2>3. QED
    BY <1>4, <2>1, <2>2, SameFindings
<1>5. CASE Become(a, taken)
  <2>1. rows \subseteq Evidence
    <3>1. \A b \in Seals(j) : b \in Body /\ b.type = "BUNDLE_SEALED"
      BY <1>1, PrefixViews, BodiesTyped DEF Seals, OfType
    <3>2. \A b \in Body : b.type = "BUNDLE_SEALED" => b.evidence \subseteq Evidence
      BY DEF Body, ArchiveBody, EvidenceBody, BundleBody, HoldBody, ReleaseBody,
             IntentBody, CommitBody, RetirementBody, RotationBody
    <3>3. QED
      BY <3>1, <3>2
  <2>2. taken \in AuditRecord
    <3> HIDE DEF rows
    <3>1. QED
      BY <1>1, <2>1 DEF AuditRecord
  <2>3. /\ taken.phase = "rows" /\ taken.seen = n /\ taken.rest = rows
        /\ taken.bundle = audit[a].bundle
        /\ taken.material = {} /\ taken.gaps = {}
    BY <1>1, <1>3 DEF AuditRecord
  <2>4. /\ audit'[a] = taken /\ UNCHANGED journal
        /\ AuditTypeOK'
    BY <1>5, <2>2, Becomes DEF ReadersInv
  <2>5. Members(a)' = rows
    BY <2>3, <2>4 DEF Members, Snapshot
  <2> HIDE DEF taken, rows
  <2>6. LoopInv(a)'
    BY <1>1, <2>3, <2>4, <2>5 DEF LoopInv
  <2>7. LostAfter(a)' /\ DependenciesFound(a)' /\ ReadyTogether(a)'
    BY <2>3, <2>4 DEF LostAfter, ReportedLost, DependenciesFound, ReadyTogether
  <2>8. QED
    BY <2>4, <2>6, <2>7 DEF Moved, ReaderInv
<1>6. QED
  BY <1>2, <1>4, <1>5

-----------------------------------------------------------------------------
(* The loop over the rows. *)

Missing(a, e) == e \in LiveAt(a) /\ CaptureOf(a, e).object \notin objects

\* What a step may add to the findings of an audit.
LEMMA MoreFindings ==
    ASSUME ReadersInv, NEW a \in Auditors, NEW record \in AuditRecord,
           Become(a, record),
           record.seen = audit[a].seen, record.bundle = audit[a].bundle,
           record.phase \notin {"ready", "component unavailable"},
           record.phase = "file not found" => Missing(a, record.part),
           audit[a].material \subseteq record.material,
           \A g \in record.gaps \ audit[a].gaps :
               /\ g.subtype = "RETENTION_NONCOMPLIANCE" =>
                      g.id \in record.material \/ Missing(a, g.id)
               /\ g.subtype \in Kinds =>
                      \E c \in CaptureOf(a, g.id).deps \ Usable : KindOf[c] = g.subtype,
           LoopInv(a)'
    PROVE  Moved(a)
<1>1. /\ audit'[a] = record /\ UNCHANGED journal
      /\ AuditTypeOK'
  BY Becomes DEF ReadersInv
<1>2. ReaderInv(a)
  BY DEF ReadersInv
<1>3. \A e : CaptureOf(a, e)' = CaptureOf(a, e)
  BY <1>1, SnapshotKept
<1>4. LostAfter(a)'
  <2>1. SUFFICES ASSUME NEW e \in ReportedLost(a)'
                 PROVE  \E i \in record.seen + 1 .. Len(journal) :
                            /\ journal[i].body.type = "EVIDENCE_DELETION_INTENT"
                            /\ journal[i].body.id = e
    BY <1>1 DEF LostAfter
  <2>2. CASE e \in ReportedLost(a)
    BY <1>2, <2>2 DEF ReaderInv, LostAfter
  <2>3. CASE Missing(a, e)
    <3>1. audit[a].seen <= Len(journal)
      BY <1>2 DEF ReaderInv, LoopInv
    <3>2. \E i \in audit[a].seen + 1 .. Len(journal) :
              /\ journal[i].body.type = "EVIDENCE_DELETION_INTENT"
              /\ journal[i].body.id = e
      <4>1. VaultInv /\ AuditTypeOK
        BY DEF ReadersInv
      <4>2. e \in LiveAt(a) /\ CaptureOf(a, e).object \notin objects
        BY <2>3 DEF Missing
      <4>3. QED
        BY <3>1, <4>1, <4>2, MissingIsIntended
    <3>3. QED
      BY <3>2
  <2>4. ASSUME Gap("RETENTION_NONCOMPLIANCE", e) \in record.gaps, e \notin record.material,
               e \in Evidence
        PROVE  e \in ReportedLost(a) \/ Missing(a, e)
    <3> DEFINE g == Gap("RETENTION_NONCOMPLIANCE", e)
    <3>1. g.subtype = "RETENTION_NONCOMPLIANCE" /\ g.id = e
      BY DEF Gap
    <3>2. CASE g \in audit[a].gaps
      BY <2>4, <3>2 DEF ReportedLost
    <3>3. CASE g \notin audit[a].gaps
      BY <2>4, <3>1, <3>3
    <3>4. QED
      BY <3>2, <3>3
  <2>5. ASSUME e = record.part, record.phase = "file not found"
        PROVE  Missing(a, e)
    BY <2>5
  <2>6. QED
    BY <1>1, <2>1, <2>2, <2>3, <2>4, <2>5 DEF ReportedLost
<1>5. DependenciesFound(a)'
  <2>1. \A g \in record.gaps : g.subtype \in {KindOf[c] : c \in Components} =>
            \E c \in CaptureOf(a, g.id).deps \ Usable : KindOf[c] = g.subtype
    <3>1. {KindOf[c] : c \in Components} \subseteq Kinds
      BY ConstantsAssumption DEF Kinds
    <3>2. QED
      BY <1>2, <3>1 DEF ReaderInv, DependenciesFound
  <2>2. QED
    BY <1>1, <1>3, <2>1 DEF DependenciesFound
<1>6. ReadyTogether(a)'
  BY <1>1 DEF ReadyTogether
<1>7. QED
  BY <1>1, <1>4, <1>5, <1>6 DEF Moved, ReaderInv

\* A row for which a gap is all that is found.
LEMMA GapTaken ==
    ASSUME ReadersInv, NEW a \in Auditors, NEW e, NEW subtype \in EvidenceSubtypes,
           TakeRow(a, e, [audit[a] EXCEPT !.gaps = @ \cup {Gap(subtype, e)}]),
           subtype = "RETENTION_NONCOMPLIANCE" => Missing(a, e)
    PROVE  Moved(a)
<1> DEFINE noted == [audit[a] EXCEPT !.gaps = @ \cup {Gap(subtype, e)}]
           record == [noted EXCEPT !.rest = @ \ {e}]
<1>1. audit[a] \in AuditRecord /\ e \in audit[a].rest /\ e \in Evidence
  BY DEF ReadersInv, AuditRecord, TakeRow, AuditTypeOK
<1>2. Become(a, record)
  BY DEF TakeRow
<1>3. noted \in AuditRecord
  <2>1. Gap(subtype, e) \in [subtype : EvidenceSubtypes \cup Kinds, id : Evidence]
    BY <1>1 DEF Gap
  <2>2. QED
    BY <1>1, <2>1 DEF AuditRecord
<1>4. /\ noted.rest = audit[a].rest /\ noted.gaps = audit[a].gaps \cup {Gap(subtype, e)}
      /\ noted.phase = "rows" /\ noted.op = audit[a].op /\ noted.seen = audit[a].seen
      /\ noted.bundle = audit[a].bundle /\ noted.material = audit[a].material
  BY <1>1 DEF AuditRecord, TakeRow
<1>5. /\ record \in AuditRecord
      /\ record.rest = audit[a].rest \ {e}
      /\ record.gaps = audit[a].gaps \cup {Gap(subtype, e)}
      /\ record.phase = "rows" /\ record.op = audit[a].op /\ record.seen = audit[a].seen
      /\ record.bundle = audit[a].bundle /\ record.material = audit[a].material
  <2> HIDE DEF noted
  <2>1. QED
    BY <1>3, <1>4 DEF AuditRecord
<1> HIDE DEF record, noted
<1>6. /\ audit'[a] = record /\ UNCHANGED journal
  BY <1>2, Becomes DEF ReadersInv
<1>7. LiveAt(a)' = LiveAt(a) /\ Members(a)' = Members(a)
  BY <1>5, <1>6, SnapshotKept
<1>8. LoopInv(a)'
  <2>1. LoopInv(a) /\ audit[a].phase = "rows"
    BY DEF ReadersInv, ReaderInv, TakeRow
  <2>2. Members(a) = audit[a].rest \cup audit[a].material \cup {g.id : g \in audit[a].gaps}
    BY <2>1 DEF LoopInv
  <2>3. Gap(subtype, e).id = e
    BY DEF Gap
  <2>4. Members(a) = record.rest \cup record.material \cup {g.id : g \in record.gaps}
                         \cup {x \in {record.part} : record.phase = "reading"}
    BY <1>1, <1>5, <2>2, <2>3
  <2>5. QED
    BY <1>5, <1>6, <1>7, <2>1, <2>4 DEF LoopInv
<1>9. \A g \in record.gaps \ audit[a].gaps :
          g.subtype = subtype /\ g.id = e /\ g.subtype \notin Kinds
  BY <1>5, AuditAssumption DEF Gap
<1>10. QED
  BY <1>2, <1>5, <1>8, <1>9, MoreFindings

LEMMA RowMoves ==
    ASSUME ReadersInv, NEW a \in Auditors,
           SkipDeleted(a) \/ SkipPending(a) \/ FindNothing(a) \/ FindFile(a)
    PROVE  Moved(a)
<1>1. CASE SkipDeleted(a)
  <2>1. PICK b \in Deletions(Snapshot(a)) :
            TakeRow(a, b.id, [audit[a] EXCEPT !.gaps = @ \cup
                {Gap(IF b.basis = "policy_deadline" THEN "LEGAL_DELETION_PREVENTS_REVERIFY"
                     ELSE "EVIDENCE_UNAVAILABLE", b.id)}])
    BY <1>1 DEF SkipDeleted
  <2> DEFINE subtype == IF b.basis = "policy_deadline" THEN "LEGAL_DELETION_PREVENTS_REVERIFY"
                        ELSE "EVIDENCE_UNAVAILABLE"
  <2>2. subtype \in EvidenceSubtypes /\ subtype # "RETENTION_NONCOMPLIANCE"
    BY DEF EvidenceSubtypes
  <2>3. TakeRow(a, b.id, [audit[a] EXCEPT !.gaps = @ \cup {Gap(subtype, b.id)}])
    BY <2>1
  <2> HIDE DEF subtype
  <2>4. QED
    BY <2>2, <2>3, GapTaken
<1>2. CASE SkipPending(a)
  <2>1. PICK e : TakeRow(a, e, [audit[a] EXCEPT !.gaps =
                                    @ \cup {Gap("DELETION_TRANSITION_INCOMPLETE", e)}])
    BY <1>2 DEF SkipPending
  <2>2. QED
    BY <2>1, GapTaken DEF EvidenceSubtypes
<1>3. CASE FindNothing(a)
  <2>1. PICK e : /\ TakeRow(a, e, [audit[a] EXCEPT !.gaps =
                                       @ \cup {Gap("RETENTION_NONCOMPLIANCE", e)}])
                 /\ Missing(a, e)
    BY <1>3 DEF FindNothing, Missing, LiveRow, LiveAt
  <2>2. QED
    BY <2>1, GapTaken DEF EvidenceSubtypes
<1>4. CASE FindFile(a)
  <2>1. PICK e \in audit[a].rest :
            /\ e \in LiveAt(a) /\ audit[a].phase = "rows"
            /\ Become(a, [[audit[a] EXCEPT !.phase = "reading", !.part = e]
                             EXCEPT !.rest = @ \ {e}])
    BY <1>4 DEF FindFile, LiveRow, LiveAt, TakeRow
  <2> DEFINE found == [audit[a] EXCEPT !.phase = "reading", !.part = e]
             record == [found EXCEPT !.rest = @ \ {e}]
  <2>2. audit[a] \in AuditRecord /\ e \in Evidence
    BY DEF ReadersInv, AuditRecord, AuditTypeOK
  <2>3. /\ found \in AuditRecord
        /\ found.rest = audit[a].rest /\ found.gaps = audit[a].gaps
        /\ found.phase = "reading" /\ found.seen = audit[a].seen /\ found.part = e
        /\ found.bundle = audit[a].bundle /\ found.material = audit[a].material
    BY <2>2 DEF AuditRecord
  <2>4. /\ record \in AuditRecord
        /\ record.rest = audit[a].rest \ {e} /\ record.gaps = audit[a].gaps
        /\ record.phase = "reading" /\ record.seen = audit[a].seen /\ record.part = e
        /\ record.bundle = audit[a].bundle /\ record.material = audit[a].material
    <3> HIDE DEF found
    <3>1. QED
      BY <2>3 DEF AuditRecord
  <2>5. Become(a, record)
    BY <2>1
  <2> HIDE DEF record, found
  <2>6. /\ audit'[a] = record /\ UNCHANGED journal
    BY <2>5, Becomes DEF ReadersInv
  <2>7. LiveAt(a)' = LiveAt(a) /\ Members(a)' = Members(a)
    BY <2>4, <2>6, SnapshotKept
  <2>8. LoopInv(a)'
    <3>1. LoopInv(a)
      BY DEF ReadersInv, ReaderInv
    <3>2. Members(a) = audit[a].rest \cup audit[a].material \cup {g.id : g \in audit[a].gaps}
      BY <2>1, <3>1 DEF LoopInv
    <3>3. Members(a) = record.rest \cup record.material \cup {g.id : g \in record.gaps}
                           \cup {x \in {record.part} : record.phase = "reading"}
      BY <2>1, <2>4, <3>2
    <3>4. QED
      BY <2>1, <2>4, <2>6, <2>7, <3>1, <3>3 DEF LoopInv
  <2>9. QED
    BY <2>4, <2>5, <2>8, MoreFindings
<1>5. QED
  BY <1>1, <1>2, <1>3, <1>4

LEMMA ReadMoves ==
    ASSUME ReadersInv, NEW a \in Auditors, ReadBytes(a)
    PROVE  Moved(a)
<1> DEFINE e == audit[a].part
           failed == [audit[a] EXCEPT !.phase = "file not found"]
<1>1. /\ audit[a] \in AuditRecord /\ audit[a].phase = "reading" /\ LoopInv(a)
      /\ VaultInv /\ AuditTypeOK
  BY DEF ReadersInv, ReaderInv, ReadBytes, AuditTypeOK
<1>2. /\ e \in LiveAt(a) /\ e \in Evidence
      /\ CaptureOf(a, e).deps \subseteq Components
  <2>1. e \in LiveAt(a) /\ audit[a].seen <= Len(journal)
    BY <1>1 DEF LoopInv
  <2>2. e \in Evidence /\ CaptureOf(a, e) \in Captures(journal)
    BY <1>1, <2>1, LiveCaptured
  <2>3. /\ CaptureOf(a, e) \in Body
        /\ CaptureOf(a, e).type = "EVIDENCE_APPENDED"
    BY <1>1, <2>2, JournalTyped, BodiesTyped DEF Captures, OfType, ReadersInv, VaultInv
  <2>4. \A b \in Body : b.type = "EVIDENCE_APPENDED" => b.deps \subseteq Components
    BY DEF Body, ArchiveBody, EvidenceBody, BundleBody, HoldBody, ReleaseBody,
           IntentBody, CommitBody, RetirementBody, RotationBody
  <2>5. QED
    BY <2>1, <2>2, <2>3, <2>4
<1>3. CASE CaptureOf(a, e).object \notin objects
  <2>1. Become(a, failed)
    BY <1>3 DEF ReadBytes, Fail
  <2>2. /\ failed \in AuditRecord /\ failed.phase = "file not found" /\ failed.part = e
        /\ failed.seen = audit[a].seen /\ failed.bundle = audit[a].bundle
        /\ failed.material = audit[a].material /\ failed.gaps = audit[a].gaps
    BY <1>1 DEF AuditRecord, Outcomes
  <2> HIDE DEF failed
  <2>3. audit'[a] = failed /\ UNCHANGED journal
    BY <1>1, <2>1, Becomes
  <2>4. LoopInv(a)'
    <3>1. LiveAt(a)' = LiveAt(a)
      BY <2>2, <2>3, SnapshotKept
    <3>2. QED
      BY <1>1, <2>2, <2>3, <3>1 DEF LoopInv
  <2>5. Missing(a, failed.part)
    BY <1>2, <1>3, <2>2 DEF Missing
  <2>6. QED
    BY <2>1, <2>2, <2>4, <2>5, MoreFindings
<1>4. CASE CaptureOf(a, e).object \in objects
  <2>1. PICK late \in SUBSET {Gap("RETENTION_NONCOMPLIANCE", e)} :
            Become(a, [audit[a] EXCEPT !.phase = "dependencies",
                                       !.deps = CaptureOf(a, e).deps,
                                       !.material = @ \cup {e},
                                       !.gaps = @ \cup late])
    <3> DEFINE overdue == RetentionStatus(Snapshot(a), CaptureOf(a, e), audit[a].at)
                              = "DELETION_REQUIRED"
               late == {g \in {Gap("RETENTION_NONCOMPLIANCE", e)} : overdue}
    <3>1. Become(a, [audit[a] EXCEPT !.phase = "dependencies",
                                     !.deps = CaptureOf(a, e).deps,
                                     !.material = @ \cup {e},
                                     !.gaps = @ \cup late])
      BY <1>4 DEF ReadBytes
    <3>2. late \in SUBSET {Gap("RETENTION_NONCOMPLIANCE", e)}
      OBVIOUS
    <3> HIDE DEF late
    <3>3. QED
      BY <3>1, <3>2
  <2> DEFINE record == [audit[a] EXCEPT !.phase = "dependencies",
                                        !.deps = CaptureOf(a, e).deps,
                                        !.material = @ \cup {e},
                                        !.gaps = @ \cup late]
  <2>2. /\ record.phase = "dependencies" /\ record.part = e
        /\ record.rest = audit[a].rest
        /\ record.seen = audit[a].seen /\ record.bundle = audit[a].bundle
        /\ record.deps = CaptureOf(a, e).deps
        /\ record.material = audit[a].material \cup {e}
        /\ record.gaps = audit[a].gaps \cup late
    BY <1>1 DEF AuditRecord
  <2>3. record \in AuditRecord
    <3>1. late \subseteq [subtype : EvidenceSubtypes \cup Kinds, id : Evidence]
      BY <1>2 DEF Gap, EvidenceSubtypes
    <3>2. QED
      BY <1>1, <1>2, <3>1 DEF AuditRecord
  <2>4. Become(a, record)
    BY <2>1
  <2> HIDE DEF record
  <2>5. audit'[a] = record /\ UNCHANGED journal
    BY <1>1, <2>4, Becomes
  <2>6. /\ LiveAt(a)' = LiveAt(a) /\ Members(a)' = Members(a)
        /\ Snapshot(a)' = Snapshot(a)
    BY <2>2, <2>5, SnapshotKept
  <2>7. Members(a) = audit[a].rest \cup audit[a].material
                         \cup {g.id : g \in audit[a].gaps} \cup {e}
    BY <1>1 DEF LoopInv
  <2>8. Members(a) = record.rest \cup record.material \cup {g.id : g \in record.gaps}
                         \cup {x \in {record.part} : record.phase = "reading"}
    <3>1. \A g \in late : g.id = e
      BY DEF Gap
    <3>2. QED
      BY <2>2, <2>7, <3>1
  <2>9. LoopInv(a)'
    <3>1. record.part \in LiveAt(a) /\ record.material \subseteq LiveAt(a)
      BY <1>1, <1>2, <2>2 DEF LoopInv
    <3>2. /\ record.part \in record.material
          /\ record.deps \subseteq CaptureOf(a, record.part).deps
      BY <2>2
    <3>3. record.seen <= Len(journal)
      BY <1>1, <2>2 DEF LoopInv
    <3>4. CaptureOf(a, audit[a].part)' = CaptureOf(a, record.part)
      BY <2>5, <2>6 DEF CaptureOf
    <3>5. QED
      BY <2>2, <2>5, <2>6, <2>8, <3>1, <3>2, <3>3, <3>4 DEF LoopInv
  <2>10. \A g \in record.gaps \ audit[a].gaps :
             /\ g.subtype = "RETENTION_NONCOMPLIANCE" /\ g.id \in record.material
             /\ g.subtype \notin Kinds
    BY <2>2, AuditAssumption DEF Gap, EvidenceSubtypes
  <2>11. QED
    BY <2>2, <2>3, <2>4, <2>9, <2>10, MoreFindings
<1>5. QED
  BY <1>3, <1>4

\* A component that its reader finds missing or unusable is unusable.
LEMMA DependencyMoves ==
    ASSUME ReadersInv, NEW a \in Auditors, CheckDependency(a)
    PROVE  Moved(a)
<1> DEFINE e == audit[a].part
<1>1. /\ audit[a] \in AuditRecord /\ audit[a].phase = "dependencies" /\ LoopInv(a)
      /\ VaultInv /\ AuditTypeOK
  BY DEF ReadersInv, ReaderInv, CheckDependency, AuditTypeOK
<1>2. /\ e \in LiveAt(a) /\ e \in audit[a].material
      /\ audit[a].deps \subseteq CaptureOf(a, e).deps
      /\ audit[a].seen <= Len(journal) /\ audit[a].seen \in Nat
      /\ e \in Evidence /\ audit[a].deps \subseteq Components
  BY <1>1 DEF LoopInv, AuditRecord
<1>3. PICK c \in audit[a].deps :
          Become(a, [audit[a] EXCEPT !.deps = @ \ {c}, !.gaps = @ \cup
              {g \in {Gap(KindOf[c], e)} :
                   ~(Available(Snapshot(a), c) /\ c \in Usable)}])
  BY DEF CheckDependency
<1>4. Available(Snapshot(a), c)
  BY <1>1, <1>2, DependencyAvailable DEF Snapshot
<1>5. PICK bad \in SUBSET {Gap(KindOf[c], e)} :
          /\ bad # {} => c \notin Usable
          /\ Become(a, [audit[a] EXCEPT !.deps = @ \ {c}, !.gaps = @ \cup bad])
  <2> DEFINE bad == {g \in {Gap(KindOf[c], e)} :
                         ~(Available(Snapshot(a), c) /\ c \in Usable)}
  <2>1. bad \in SUBSET {Gap(KindOf[c], e)} /\ (bad # {} => c \notin Usable)
    BY <1>4
  <2>2. Become(a, [audit[a] EXCEPT !.deps = @ \ {c}, !.gaps = @ \cup bad])
    BY <1>3
  <2> HIDE DEF bad
  <2>3. QED
    BY <2>1, <2>2
<1> DEFINE record == [audit[a] EXCEPT !.deps = @ \ {c}, !.gaps = @ \cup bad]
<1>6. /\ record.phase = "dependencies" /\ record.part = e
      /\ record.rest = audit[a].rest
      /\ record.seen = audit[a].seen /\ record.bundle = audit[a].bundle
      /\ record.deps = audit[a].deps \ {c}
      /\ record.material = audit[a].material
      /\ record.gaps = audit[a].gaps \cup bad
  BY <1>1 DEF AuditRecord
<1>7. KindOf[c] \in Kinds
  BY <1>2, ConstantsAssumption DEF Kinds
<1>8. record \in AuditRecord
  <2>1. bad \subseteq [subtype : EvidenceSubtypes \cup Kinds, id : Evidence]
    BY <1>2, <1>7 DEF Gap
  <2>2. QED
    BY <1>1, <2>1 DEF AuditRecord
<1>9. Become(a, record)
  BY <1>5
<1> HIDE DEF record
<1>10. audit'[a] = record /\ UNCHANGED journal
  BY <1>1, <1>9, Becomes
<1>11. /\ LiveAt(a)' = LiveAt(a) /\ Members(a)' = Members(a)
       /\ Snapshot(a)' = Snapshot(a)
  BY <1>6, <1>10, SnapshotKept
<1>12. LoopInv(a)'
  <2>1. Members(a) = audit[a].rest \cup audit[a].material \cup {g.id : g \in audit[a].gaps}
    BY <1>1 DEF LoopInv
  <2>2. \A g \in bad : g.id = e
    BY DEF Gap
  <2>3. Members(a) = record.rest \cup record.material \cup {g.id : g \in record.gaps}
                         \cup {x \in {record.part} : record.phase = "reading"}
    BY <1>2, <1>6, <2>1, <2>2
  <2>4. /\ record.part \in LiveAt(a) /\ record.part \in record.material
        /\ record.material \subseteq LiveAt(a)
        /\ record.deps \subseteq CaptureOf(a, record.part).deps
        /\ record.seen <= Len(journal)
    BY <1>1, <1>2, <1>6 DEF LoopInv
  <2>5. CaptureOf(a, audit[a].part)' = CaptureOf(a, record.part)
    BY <1>10, <1>11 DEF CaptureOf
  <2>6. QED
    BY <1>6, <1>10, <1>11, <2>3, <2>4, <2>5 DEF LoopInv
<1>13. \A g \in record.gaps \ audit[a].gaps :
           /\ g.id \in record.material
           /\ \E d \in CaptureOf(a, g.id).deps \ Usable : KindOf[d] = g.subtype
  BY <1>2, <1>5, <1>6 DEF Gap
<1>14. QED
  BY <1>6, <1>8, <1>9, <1>12, <1>13, MoreFindings

-----------------------------------------------------------------------------
(* What a reader has looked at.  Of the evidence it holds, whatever is      *)
(* overdue has left a gap, and so has whatever depends on an unusable       *)
(* component, unless the check of that component is still to come.          *)

Overdue(a, e) ==
    RetentionStatus(Snapshot(a), CaptureOf(a, e), audit[a].at) = "DELETION_REQUIRED"

Unchecked(a, e) ==
    {c \in audit[a].deps : audit[a].phase = "dependencies" /\ e = audit[a].part}

Scanned(a) ==
    /\ audit[a].phase = "ready" => audit[a].gaps = {}
    /\ audit[a].gaps = {} =>
          \A e \in audit[a].material :
              /\ ~Overdue(a, e)
              /\ CaptureOf(a, e).deps \subseteq Usable \cup Unchecked(a, e)

LEMMA ScannedNothing ==
    ASSUME NEW a \in Auditors, audit'[a].material = {}, audit'[a].phase # "ready"
    PROVE  Scanned(a)'
  BY DEF Scanned

\* A step that reads no evidence and drops no gap.
LEMMA ScannedStays ==
    ASSUME NEW a \in Auditors, Scanned(a),
           SubSeq(journal', 1, audit'[a].seen) = SubSeq(journal, 1, audit[a].seen),
           audit'[a].at = audit[a].at, audit'[a].material = audit[a].material,
           audit[a].gaps \subseteq audit'[a].gaps,
           audit'[a].phase = "ready" => audit'[a].gaps = {},
           audit[a].phase = "dependencies" =>
               \/ audit[a].deps = {}
               \/ /\ audit'[a].phase = "dependencies" /\ audit'[a].part = audit[a].part
                  /\ audit'[a].deps = audit[a].deps
    PROVE  Scanned(a)'
<1>1. Snapshot(a)' = Snapshot(a) /\ \A e : CaptureOf(a, e)' = CaptureOf(a, e)
  BY SnapshotKept
<1>2. \A e : Overdue(a, e)' <=> Overdue(a, e)
  BY <1>1 DEF Overdue
<1>3. \A e : Unchecked(a, e) \subseteq Unchecked(a, e)'
  BY DEF Unchecked
<1>4. SUFFICES ASSUME audit'[a].gaps = {}, NEW e \in audit[a].material
               PROVE  /\ ~Overdue(a, e)
                      /\ CaptureOf(a, e).deps \subseteq Usable \cup Unchecked(a, e)
  BY <1>1, <1>2, <1>3 DEF Scanned
<1>5. QED
  BY <1>4 DEF Scanned

LEMMA BeginningScanned ==
    ASSUME ReadersInv, NEW a \in Auditors,
           \/ OpenReadOnly(a) \/ OpenPinned(a) \/ Answer(a)
           \/ \E n \in 0 .. Len(journal) : PinMatched(a, n)
           \/ \E op \in {"retrieve", "reverify"}, b \in Bundles, at \in Times :
                  BeginAudit(a, op, b, at)
    PROVE  Scanned(a)'
<1>1. audit \in [Auditors -> AuditRecord]
  BY DEF ReadersInv, AuditTypeOK
<1>2. audit'[a].material = {} /\ audit'[a].phase # "ready"
  <2>1. CASE OpenReadOnly(a) \/ OpenPinned(a)
    BY <1>1, <2>1 DEF OpenReadOnly, OpenPinned, BeginListing, Become, Idle
  <2>2. CASE Answer(a)
    BY <1>1, <2>2 DEF Answer, Become, Idle
  <2>3. CASE \E n \in 0 .. Len(journal) : PinMatched(a, n)
    BY <1>1, <2>3 DEF PinMatched, Become, Idle
  <2>4. CASE \E op \in {"retrieve", "reverify"}, b \in Bundles, at \in Times :
                 BeginAudit(a, op, b, at)
    BY <1>1, <2>4 DEF BeginAudit, BeginListing, Become, Idle
  <2>5. QED
    BY <2>1, <2>2, <2>3, <2>4
<1>3. QED
  BY <1>2, ScannedNothing

LEMMA SnapshotScanned ==
    ASSUME ReadersInv, NEW a \in Auditors, NEW n \in 0 .. Len(journal),
           SnapshotTaken(a, n)
    PROVE  Scanned(a)'
<1>1. /\ audit \in [Auditors -> AuditRecord] /\ audit[a] \in AuditRecord
      /\ audit[a].material = {}
  BY DEF SnapshotTaken, Listed, ReadersInv, ReaderInv, LoopInv, AuditTypeOK
<1>2. audit'[a].material = {} /\ audit'[a].phase # "ready"
  BY <1>1 DEF SnapshotTaken, Become, AuditRecord
<1>3. QED
  BY <1>2, ScannedNothing

\* A step of the reader's own that reads no evidence.
Stays(a) ==
    /\ UNCHANGED journal
    /\ audit'[a].seen = audit[a].seen /\ audit'[a].at = audit[a].at
    /\ audit'[a].material = audit[a].material
    /\ audit[a].gaps \subseteq audit'[a].gaps
    /\ audit'[a].phase = "ready" => audit'[a].gaps = {}

LEMMA StaysScanned ==
    ASSUME NEW a \in Auditors, Scanned(a), Stays(a),
           audit[a].phase = "dependencies" => audit[a].deps = {}
    PROVE  Scanned(a)'
  BY ScannedStays DEF Stays

LEMMA PlaceScanned ==
    ASSUME ReadersInv, NEW a \in Auditors, Scanned(a),
           \/ ListingTorn(a) \/ RowDone(a) \/ Result(a) \/ ReplayAgain(a)
           \/ \E n \in 0 .. Len(journal) : Execute(a, n)
    PROVE  Scanned(a)'
<1>1. audit \in [Auditors -> AuditRecord] /\ audit[a] \in AuditRecord
  BY DEF ReadersInv, AuditTypeOK
<1>2. Stays(a)
  <2>1. CASE ListingTorn(a)
    BY <1>1, <2>1 DEF ListingTorn, Fail, Become, vars, Stays, AuditRecord
  <2>2. CASE RowDone(a)
    BY <1>1, <2>2 DEF RowDone, Become, vars, Stays, AuditRecord
  <2>3. CASE Result(a)
    <3>1. PICK phase \in {"root pin mismatch", "ready", "gap"} :
              /\ Become(a, [audit[a] EXCEPT !.phase = phase])
              /\ phase = "ready" => audit[a].gaps = {}
      BY <2>3 DEF Result, Fail
    <3>2. QED
      BY <1>1, <3>1 DEF Become, vars, Stays, AuditRecord
  <2>4. CASE ReplayAgain(a)
    BY <1>1, <2>4 DEF ReplayAgain, BeginListing, Become, vars, Stays, AuditRecord
  <2>5. CASE \E n \in 0 .. Len(journal) : Execute(a, n)
    <3>1. PICK n \in 0 .. Len(journal), ids \in SUBSET audit[a].material :
              Become(a, [audit[a] EXCEPT !.phase =
                  IF ids = {} THEN "inventory gap"
                  ELSE IF Cardinality(Verifiers(a, ids)) # 1 THEN "multiple verifiers"
                  ELSE IF \A c \in Verifiers(a, ids) : Available(SubSeq(journal, 1, n), c)
                       THEN "reverified"
                  ELSE "component unavailable"])
      BY <2>5 DEF Execute
    <3>2. QED
      BY <1>1, <3>1 DEF Become, vars, Stays, AuditRecord
  <2>6. QED
    BY <2>1, <2>2, <2>3, <2>4, <2>5
<1>3. audit[a].phase = "dependencies" => audit[a].deps = {}
  BY DEF ListingTorn, RowDone, Result, ReplayAgain, Execute, Listed
<1>4. QED
  BY <1>2, <1>3, StaysScanned

LEMMA RowScanned ==
    ASSUME ReadersInv, NEW a \in Auditors, Scanned(a),
           SkipDeleted(a) \/ SkipPending(a) \/ FindNothing(a) \/ FindFile(a)
    PROVE  Scanned(a)'
<1>1. audit[a] \in AuditRecord /\ audit[a].phase = "rows"
  BY DEF ReadersInv, AuditTypeOK, SkipDeleted, SkipPending, FindNothing, FindFile, TakeRow
<1>2. CASE SkipDeleted(a) \/ SkipPending(a) \/ FindNothing(a)
  <2>1. PICK e, found : TakeRow(a, e, [audit[a] EXCEPT !.gaps = @ \cup found])
    BY <1>2 DEF SkipDeleted, SkipPending, FindNothing
  <2> DEFINE noted == [audit[a] EXCEPT !.gaps = @ \cup found]
             record == [noted EXCEPT !.rest = @ \ {e}]
  <2>2. Become(a, record)
    BY <2>1 DEF TakeRow
  <2>3. /\ noted.seen = audit[a].seen /\ noted.at = audit[a].at
        /\ noted.material = audit[a].material /\ noted.phase = "rows"
        /\ noted.gaps = audit[a].gaps \cup found
    BY <1>1 DEF AuditRecord
  <2>4. audit'[a] = record /\ UNCHANGED journal
    BY <2>2, Becomes DEF ReadersInv
  <2> HIDE DEF noted
  <2>5. Stays(a)
    BY <2>3, <2>4 DEF Stays
  <2>6. QED
    BY <1>1, <2>5, StaysScanned
<1>3. CASE FindFile(a)
  <2>1. PICK e : TakeRow(a, e, [audit[a] EXCEPT !.phase = "reading", !.part = e])
    BY <1>3 DEF FindFile
  <2> DEFINE found == [audit[a] EXCEPT !.phase = "reading", !.part = e]
             record == [found EXCEPT !.rest = @ \ {e}]
  <2>2. Become(a, record)
    BY <2>1 DEF TakeRow
  <2>3. /\ found.seen = audit[a].seen /\ found.at = audit[a].at
        /\ found.material = audit[a].material /\ found.phase = "reading"
        /\ found.gaps = audit[a].gaps
    BY <1>1 DEF AuditRecord
  <2>4. audit'[a] = record /\ UNCHANGED journal
    BY <2>2, Becomes DEF ReadersInv
  <2> HIDE DEF found
  <2>5. Stays(a)
    BY <2>3, <2>4 DEF Stays
  <2>6. QED
    BY <1>1, <2>5, StaysScanned
<1>4. QED
  BY <1>2, <1>3

\* Evidence that is overdue when it is read leaves a gap at once.
LEMMA ReadScanned ==
    ASSUME ReadersInv, NEW a \in Auditors, Scanned(a), ReadBytes(a)
    PROVE  Scanned(a)'
<1> DEFINE e == audit[a].part
<1>1. audit[a] \in AuditRecord /\ audit[a].phase = "reading"
  BY DEF ReadersInv, AuditTypeOK, ReadBytes
<1>2. CASE CaptureOf(a, e).object \notin objects
  <2>1. Become(a, [audit[a] EXCEPT !.phase = "file not found"])
    BY <1>2 DEF ReadBytes, Fail
  <2>2. /\ audit'[a] = [audit[a] EXCEPT !.phase = "file not found"]
        /\ UNCHANGED journal
    BY <2>1, Becomes DEF ReadersInv
  <2>3. Stays(a)
    BY <1>1, <2>2 DEF Stays, AuditRecord
  <2>4. QED
    BY <1>1, <2>3, StaysScanned
<1>3. CASE CaptureOf(a, e).object \in objects
  <2>1. PICK late : /\ Become(a, [audit[a] EXCEPT !.phase = "dependencies",
                                     !.deps = CaptureOf(a, e).deps,
                                     !.material = @ \cup {e},
                                     !.gaps = @ \cup late])
                    /\ Overdue(a, e) => late # {}
    <3> DEFINE late == {g \in {Gap("RETENTION_NONCOMPLIANCE", e)} : Overdue(a, e)}
    <3>1. Become(a, [audit[a] EXCEPT !.phase = "dependencies",
                                     !.deps = CaptureOf(a, e).deps,
                                     !.material = @ \cup {e},
                                     !.gaps = @ \cup late])
      BY <1>3 DEF ReadBytes, Overdue
    <3>2. Overdue(a, e) => late # {}
      OBVIOUS
    <3> HIDE DEF late
    <3>3. QED
      BY <3>1, <3>2
  <2> DEFINE record == [audit[a] EXCEPT !.phase = "dependencies",
                                        !.deps = CaptureOf(a, e).deps,
                                        !.material = @ \cup {e},
                                        !.gaps = @ \cup late]
  <2>2. /\ record.phase = "dependencies" /\ record.part = e
        /\ record.seen = audit[a].seen /\ record.at = audit[a].at
        /\ record.deps = CaptureOf(a, e).deps
        /\ record.material = audit[a].material \cup {e}
        /\ record.gaps = audit[a].gaps \cup late
    BY <1>1 DEF AuditRecord
  <2>3. Become(a, record)
    BY <2>1
  <2> HIDE DEF record
  <2>4. audit'[a] = record /\ UNCHANGED journal
    BY <2>3, Becomes DEF ReadersInv
  <2>5. Snapshot(a)' = Snapshot(a) /\ \A x : CaptureOf(a, x)' = CaptureOf(a, x)
    BY <2>2, <2>4, SnapshotKept
  <2>6. \A x : Overdue(a, x)' <=> Overdue(a, x)
    BY <2>2, <2>4, <2>5 DEF Overdue
  <2>7. ASSUME record.gaps = {}, NEW x \in record.material
        PROVE  /\ ~Overdue(a, x)
               /\ CaptureOf(a, x).deps \subseteq Usable \cup Unchecked(a, x)'
    <3>1. audit[a].gaps = {} /\ late = {}
      BY <2>2, <2>7
    <3>2. CASE x = e
      <4>1. ~Overdue(a, x)
        BY <2>1, <3>1, <3>2
      <4>2. CaptureOf(a, x).deps \subseteq Unchecked(a, x)'
        BY <2>2, <2>4, <3>2 DEF Unchecked
      <4>3. QED
        BY <4>1, <4>2
    <3>3. CASE x # e
      <4>1. x \in audit[a].material
        BY <2>2, <2>7, <3>3
      <4>2. Unchecked(a, x) = {}
        BY <1>1 DEF Unchecked
      <4>3. QED
        BY <3>1, <4>1, <4>2 DEF Scanned
    <3>4. QED
      BY <3>2, <3>3
  <2>8. QED
    BY <2>2, <2>4, <2>5, <2>6, <2>7 DEF Scanned
<1>4. QED
  BY <1>2, <1>3

\* A component that is not usable leaves a gap when it is checked.
LEMMA DependencyScanned ==
    ASSUME ReadersInv, NEW a \in Auditors, Scanned(a), CheckDependency(a)
    PROVE  Scanned(a)'
<1> DEFINE e == audit[a].part
<1>1. audit[a] \in AuditRecord /\ audit[a].phase = "dependencies"
  BY DEF ReadersInv, AuditTypeOK, CheckDependency
<1>a. PICK c \in audit[a].deps : \E found :
          /\ Become(a, [audit[a] EXCEPT !.deps = @ \ {c}, !.gaps = @ \cup found])
          /\ c \notin Usable => found # {}
  <2>1. PICK c \in audit[a].deps :
            Become(a, [audit[a] EXCEPT !.deps = @ \ {c}, !.gaps = @ \cup
                {g \in {Gap(KindOf[c], e)} :
                     ~(Available(Snapshot(a), c) /\ c \in Usable)}])
    BY DEF CheckDependency
  <2> DEFINE bad == {g \in {Gap(KindOf[c], e)} :
                         ~(Available(Snapshot(a), c) /\ c \in Usable)}
  <2>2. c \notin Usable => bad # {}
    OBVIOUS
  <2>3. Become(a, [audit[a] EXCEPT !.deps = @ \ {c}, !.gaps = @ \cup bad])
    BY <2>1
  <2> HIDE DEF bad
  <2>4. QED
    BY <2>2, <2>3
<1>2. PICK bad :
          /\ Become(a, [audit[a] EXCEPT !.deps = @ \ {c}, !.gaps = @ \cup bad])
          /\ c \notin Usable => bad # {}
  BY <1>a
<1> DEFINE record == [audit[a] EXCEPT !.deps = @ \ {c}, !.gaps = @ \cup bad]
<1>3. /\ record.phase = "dependencies" /\ record.part = e
      /\ record.seen = audit[a].seen /\ record.at = audit[a].at
      /\ record.deps = audit[a].deps \ {c}
      /\ record.material = audit[a].material
      /\ record.gaps = audit[a].gaps \cup bad
  BY <1>1 DEF AuditRecord
<1>4. Become(a, record)
  BY <1>2
<1> HIDE DEF record
<1>5. audit'[a] = record /\ UNCHANGED journal
  BY <1>4, Becomes DEF ReadersInv
<1>6. Snapshot(a)' = Snapshot(a) /\ \A x : CaptureOf(a, x)' = CaptureOf(a, x)
  BY <1>3, <1>5, SnapshotKept
<1>7. \A x : Overdue(a, x)' <=> Overdue(a, x)
  BY <1>3, <1>5, <1>6 DEF Overdue
<1>8. ASSUME record.gaps = {}, NEW x \in record.material
      PROVE  /\ ~Overdue(a, x)
             /\ CaptureOf(a, x).deps \subseteq Usable \cup Unchecked(a, x)'
  <2>1. audit[a].gaps = {} /\ c \in Usable /\ x \in audit[a].material
    BY <1>2, <1>3, <1>8
  <2>2. /\ ~Overdue(a, x)
        /\ CaptureOf(a, x).deps \subseteq Usable \cup Unchecked(a, x)
    BY <2>1 DEF Scanned
  <2>3. Unchecked(a, x) \subseteq {c} \cup Unchecked(a, x)'
    BY <1>1, <1>3, <1>5 DEF Unchecked
  <2>4. QED
    BY <2>1, <2>2, <2>3
<1>9. QED
  BY <1>3, <1>5, <1>6, <1>7, <1>8 DEF Scanned

LEMMA AuditStepScanned ==
    ASSUME ReadersInv, NEW a \in Auditors, Scanned(a), AuditStep(a)
    PROVE  Scanned(a)'
  BY BeginningScanned, SnapshotScanned, PlaceScanned, RowScanned, ReadScanned,
     DependencyScanned DEF AuditStep

\* Whatever the others do, the snapshot of a reader stays what it was.
LEMMA OthersScanned ==
    ASSUME ReadersInv, NEW a \in Auditors, Scanned(a), audit'[a] = audit[a],
           UNCHANGED journal \/ \E e \in Event : journal' = Append(journal, e)
    PROVE  Scanned(a)'
<1>1. journal \in Seq(Event) /\ audit[a].seen \in Nat /\ audit[a].seen <= Len(journal)
  BY JournalTyped DEF AuditRecord, ReadersInv, ReaderInv, LoopInv, AuditTypeOK, VaultInv
<1>2. SubSeq(journal', 1, audit'[a].seen) = SubSeq(journal, 1, audit[a].seen)
  BY <1>1, PrefixStays
<1>3. audit'[a].phase = "ready" => audit'[a].gaps = {}
  BY DEF Scanned
<1>4. QED
  BY <1>2, <1>3, ScannedStays

-----------------------------------------------------------------------------
(* Theorems. *)

LEMMA AuditStepBecomes ==
    ASSUME NEW a \in Auditors, AuditStep(a)
    PROVE  \E record : Become(a, record)
<1>1. CASE OpenReadOnly(a) \/ OpenPinned(a) \/ ListingTorn(a)
  BY <1>1 DEF OpenReadOnly, OpenPinned, ListingTorn, BeginListing, Fail
<1>2. CASE \E n \in 0 .. Len(journal) :
               PinMatched(a, n) \/ SnapshotTaken(a, n) \/ Execute(a, n)
  BY <1>2 DEF PinMatched, SnapshotTaken, Execute
<1>3. CASE \E op \in {"retrieve", "reverify"}, b \in Bundles, at \in Times :
               BeginAudit(a, op, b, at)
  BY <1>3 DEF BeginAudit, BeginListing
<1>4. CASE SkipDeleted(a) \/ SkipPending(a) \/ FindNothing(a) \/ FindFile(a)
  BY <1>4 DEF SkipDeleted, SkipPending, FindNothing, FindFile, TakeRow
<1>5. CASE ReadBytes(a)
  BY <1>5 DEF ReadBytes, Fail
<1>6. CASE CheckDependency(a) \/ RowDone(a)
  BY <1>6 DEF CheckDependency, RowDone
<1>7. CASE Result(a)
  BY <1>7 DEF Result, Fail
<1>8. CASE ReplayAgain(a) \/ Answer(a)
  BY <1>8 DEF ReplayAgain, Answer, BeginListing
<1>9. QED
  BY <1>1, <1>2, <1>3, <1>4, <1>5, <1>6, <1>7, <1>8 DEF AuditStep

\* Readers do not disturb the vault: what is proved of Spec holds beside them.
THEOREM ReadersOnlyRead == AuditSpec => Spec
<1>1. AuditInit => Init
  BY DEF AuditInit
<1>2. [AuditNext]_allVars => [Next]_vars
  <2> SUFFICES ASSUME AuditNext PROVE [Next]_vars
    BY DEF allVars
  <2>1. CASE Next
    BY <2>1
  <2>2. CASE \E a \in Auditors : AuditStep(a)
    BY <2>2, AuditStepBecomes DEF Become
  <2>3. QED
    BY <2>1, <2>2 DEF AuditNext
<1>3. QED
  BY <1>1, <1>2, PTL DEF AuditSpec, Spec

LEMMA AuditStepMoves ==
    ASSUME ReadersInv, NEW a \in Auditors, AuditStep(a)
    PROVE  Moved(a)
  BY BeginningMoves, PlaceMoves, ExecuteMoves, SnapshotMoves, RowMoves, ReadMoves,
     DependencyMoves DEF AuditStep

LEMMA ReadersStep == ReadersInv /\ [AuditNext]_allVars => ReadersInv'
<1> SUFFICES ASSUME ReadersInv, [AuditNext]_allVars PROVE ReadersInv'
  OBVIOUS
<1>1. VaultInv /\ AuditTypeOK /\ \A a \in Auditors : ReaderInv(a)
  BY DEF ReadersInv
<1>2. CASE [Next]_vars /\ UNCHANGED audit
  <2>1. VaultInv'
    BY <1>1, <1>2, VaultStep
  <2>2. UNCHANGED journal \/ \E e \in Event : journal' = Append(journal, e)
    BY <1>1, <1>2, JournalSteps DEF VaultInv, Grows
  <2>3. \A a \in Auditors : ReaderInv(a)'
    BY <1>1, <1>2, <2>2, ReaderKept
  <2>4. QED
    BY <1>1, <1>2, <2>1, <2>3 DEF ReadersInv, AuditTypeOK
<1>3. CASE \E a \in Auditors : AuditStep(a)
  <2>1. PICK a \in Auditors : AuditStep(a)
    BY <1>3
  <2>2. PICK record : Become(a, record)
    BY <2>1, AuditStepBecomes
  <2>3. UNCHANGED vars
    BY <2>2 DEF Become
  <2>4. VaultInv'
    BY <1>1, <2>3, VaultStep
  <2>5. Moved(a)
    BY <2>1, AuditStepMoves
  <2>6. \A b \in Auditors \ {a} : ReaderInv(b)'
    <3>1. \A b \in Auditors \ {a} : audit'[b] = audit[b]
      BY <1>1, <2>2, Becomes
    <3>2. UNCHANGED journal
      BY <2>3 DEF vars
    <3>3. QED
      BY <1>1, <3>1, <3>2, ReaderKept
  <2>7. QED
    BY <2>4, <2>5, <2>6 DEF ReadersInv, Moved
<1>4. CASE UNCHANGED allVars
  BY <1>2, <1>4 DEF allVars
<1>5. QED
  BY <1>2, <1>3, <1>4 DEF AuditNext

LEMMA ReadersInit == AuditInit => ReadersInv
<1> SUFFICES ASSUME AuditInit PROVE ReadersInv
  OBVIOUS
<1>1. VaultInv
  BY VaultInit DEF AuditInit
<1>2. Idle \in AuditRecord
  BY DEF Idle, AuditRecord
<1>3. audit = [a \in Auditors |-> Idle]
  BY DEF AuditInit
<1>4. AuditTypeOK
  BY <1>2, <1>3 DEF AuditTypeOK
<1>5. ASSUME NEW a \in Auditors PROVE ReaderInv(a)
  <2>1. /\ audit[a].phase = "closed" /\ audit[a].seen = 0
        /\ audit[a].material = {} /\ audit[a].gaps = {}
    BY <1>3 DEF Idle
  <2>2. Len(journal) \in Nat
    BY <1>1, JournalTyped
  <2>3. QED
    BY <2>1, <2>2 DEF ReaderInv, LoopInv, LostAfter, ReportedLost, DependenciesFound,
                      ReadyTogether
<1>6. QED
  BY <1>1, <1>4, <1>5 DEF ReadersInv

LEMMA ReadersAlways == AuditSpec => []ReadersInv
  BY ReadersInit, ReadersStep, PTL DEF AuditSpec

THEOREM AuditTypeCorrect == AuditSpec => []AuditTypeOK
<1>1. ReadersInv => AuditTypeOK
  BY DEF ReadersInv
<1>2. QED
  BY <1>1, ReadersAlways, PTL

\* A reader misses evidence only when somebody has signed the intent to delete
\* it after the reader's snapshot, whatever else runs while it reads
\* (retrieve_for_audit takes no lock).
THEOREM LossesAreIntended == AuditSpec => []LossHasIntent
<1>1. ReadersInv => LossHasIntent
  BY DEF ReadersInv, ReaderInv, LostAfter, LossHasIntent
<1>2. QED
  BY <1>1, ReadersAlways, PTL

\* No evidence that an unreleased legal hold of the snapshot covers is reported
\* lost: placing a hold and deleting serialize, and a hold stays in force.
THEOREM HeldEvidenceIsRead == AuditSpec => []HeldEvidenceIsFound
<1>1. ReadersInv => HeldEvidenceIsFound
  <2> SUFFICES ASSUME ReadersInv, NEW a \in Auditors, NEW e \in ReportedLost(a),
                      NEW h \in ActiveHolds(Snapshot(a), e)
               PROVE  h.id \in Ids(Releases(journal))
    BY DEF HeldEvidenceIsFound
  <2>1. /\ VaultInv /\ journal \in Seq(Event)
        /\ audit[a].seen \in Nat /\ audit[a].seen <= Len(journal)
    BY JournalTyped DEF ReadersInv, ReaderInv, LoopInv, AuditRecord, AuditTypeOK, VaultInv
  <2>2. PICK i \in audit[a].seen + 1 .. Len(journal) :
            /\ journal[i].body.type = "EVIDENCE_DELETION_INTENT"
            /\ journal[i].body.id = e
    BY DEF ReadersInv, ReaderInv, LostAfter
  <2>3. e \in Ids(Intents(journal))
    <3>1. i \in DOMAIN journal
      BY <2>1
    <3>2. QED
      BY <2>2, <3>1 DEF Intents, OfType, Bodies, Ids
  <2>4. ActiveHolds(journal, e) = {}
    BY <2>1, <2>3 DEF VaultInv, HoldsBlockDeletion
  <2>5. h \in Placements(journal) /\ e \in h.evidence
    BY <2>1, PrefixViews DEF Snapshot, ActiveHolds
  <2>6. QED
    BY <2>4, <2>5 DEF ActiveHolds
<1>2. QED
  BY <1>1, ReadersAlways, PTL

\* An audit never fails for want of a component, and a dependency gap names a
\* component whose metadata is unusable: what captures depend on is archived
\* before them, and archived objects are never collected.
THEOREM DependenciesAreThere == AuditSpec => []DependenciesSurvive
<1>1. ReadersInv => DependenciesSurvive
  BY DEF ReadersInv, ReaderInv, DependenciesFound, DependenciesSurvive
<1>2. QED
  BY <1>1, ReadersAlways, PTL

AllScanned == \A a \in Auditors : Scanned(a)

LEMMA ScannedStep == ReadersInv /\ AllScanned /\ [AuditNext]_allVars => AllScanned'
<1> SUFFICES ASSUME ReadersInv, AllScanned, [AuditNext]_allVars PROVE AllScanned'
  OBVIOUS
<1>1. CASE [Next]_vars /\ UNCHANGED audit
  <2>1. UNCHANGED journal \/ \E e \in Event : journal' = Append(journal, e)
    BY <1>1, JournalSteps DEF ReadersInv, VaultInv, Grows
  <2>2. QED
    BY <1>1, <2>1, OthersScanned DEF AllScanned
<1>2. CASE \E a \in Auditors : AuditStep(a)
  <2>1. PICK a \in Auditors : AuditStep(a)
    BY <1>2
  <2>2. PICK record : Become(a, record)
    BY <2>1, AuditStepBecomes
  <2>3. UNCHANGED journal /\ \A b \in Auditors \ {a} : audit'[b] = audit[b]
    BY <2>2, Becomes DEF ReadersInv
  <2>4. Scanned(a)'
    BY <2>1, AuditStepScanned DEF AllScanned
  <2>5. \A b \in Auditors \ {a} : Scanned(b)'
    BY <2>3, OthersScanned DEF AllScanned
  <2>6. QED
    BY <2>4, <2>5 DEF AllScanned
<1>3. CASE UNCHANGED allVars
  BY <1>1, <1>3 DEF allVars
<1>4. QED
  BY <1>1, <1>2, <1>3 DEF AuditNext

LEMMA ScannedAlways == AuditSpec => []AllScanned
<1>1. AuditInit => AllScanned
  BY DEF AuditInit, Idle, AllScanned, Scanned
<1>2. QED
  BY <1>1, ReadersAlways, ScannedStep, PTL DEF AuditSpec

\* READY_FOR_REVERIFICATION speaks of one snapshot and of every member of the
\* bundle: none was deleted or overdue in it, and every component that a member
\* depends on is usable and still in the vault, whatever the writers have done
\* while the members were read (retrieve_for_audit).
THEOREM ReadyRetrievalsAreWhole == AuditSpec => []ReadyIsOneSnapshot
<1>1. ReadersInv /\ AllScanned => ReadyIsOneSnapshot
  <2> SUFFICES ASSUME ReadersInv, AllScanned, NEW a \in Auditors,
                      audit[a].phase = "ready"
               PROVE  /\ audit[a].material = Members(a)
                      /\ \A e \in Members(a) :
                            /\ e \in LiveAt(a)
                            /\ ~Overdue(a, e)
                            /\ CaptureOf(a, e).deps \subseteq Usable
                            /\ \A c \in CaptureOf(a, e).deps : Available(journal, c)
    BY DEF ReadyIsOneSnapshot, LiveRow, LiveAt, Overdue
  <2>1. /\ audit[a].material = Members(a)
        /\ Members(a) \subseteq LiveAt(a)
    BY DEF ReadersInv, ReaderInv, ReadyTogether
  <2>2. /\ VaultInv /\ AuditTypeOK /\ journal \in Seq(Event)
        /\ audit[a].seen \in Nat /\ audit[a].seen <= Len(journal)
    BY JournalTyped DEF ReadersInv, ReaderInv, LoopInv, AuditRecord, AuditTypeOK, VaultInv
  <2>3. \A e \in audit[a].material :
            ~Overdue(a, e) /\ CaptureOf(a, e).deps \subseteq Usable
    BY DEF AllScanned, Scanned, Unchecked
  <2>4. ASSUME NEW e \in Members(a), NEW c \in CaptureOf(a, e).deps
        PROVE  Available(journal, c)
    <3>1. Len(journal) \in Nat /\ SubSeq(journal, 1, Len(journal)) = journal
      BY <2>2
    <3>2. Available(SubSeq(journal, 1, Len(journal)), c)
      BY <2>1, <2>2, <3>1, DependencyAvailable
    <3>3. QED
      BY <3>1, <3>2
  <2>5. QED
    BY <2>1, <2>3, <2>4
<1>2. QED
  BY <1>1, ReadersAlways, ScannedAlways, PTL

-----------------------------------------------------------------------------
(* The refinement of VaultLifecycle, by step simulation. *)

LEMMA AppendViews ==
    ASSUME NEW j \in Seq(Event), NEW e \in Event
    PROVE  LET k == Append(j, e)
               More(t, bodies) == IF e.body.type = t THEN bodies \cup {e.body} ELSE bodies
           IN  /\ Archives(k) = More("COMPONENT_ARCHIVED", Archives(j))
               /\ Captures(k) = More("EVIDENCE_APPENDED", Captures(j))
               /\ Seals(k) = More("BUNDLE_SEALED", Seals(j))
               /\ Placements(k) = More("LEGAL_HOLD_PLACED", Placements(j))
               /\ Releases(k) = More("LEGAL_HOLD_RELEASED", Releases(j))
               /\ Intents(k) = More("EVIDENCE_DELETION_INTENT", Intents(j))
               /\ Deletions(k) = More("EVIDENCE_DELETED", Deletions(j))
               /\ Retirements(k) = More("COMPONENT_RETIRED", Retirements(j))
               /\ Rotations(k) = More("JOURNAL_AUTHORITY_ROTATED", Rotations(j))
  BY AppendOfType DEF Archives, Captures, Seals, Placements, Releases, Intents,
       Deletions, Retirements, Rotations

LEMMA TypesOfBodies ==
    ASSUME NEW b \in Body
    PROVE  b.type \in {"COMPONENT_ARCHIVED", "EVIDENCE_APPENDED", "BUNDLE_SEALED",
                       "LEGAL_HOLD_PLACED", "LEGAL_HOLD_RELEASED",
                       "EVIDENCE_DELETION_INTENT", "EVIDENCE_DELETED",
                       "COMPONENT_RETIRED", "JOURNAL_AUTHORITY_ROTATED"}
  BY DEF Body, ArchiveBody, EvidenceBody, BundleBody, HoldBody, ReleaseBody,
         IntentBody, CommitBody, RetirementBody, RotationBody

LEMMA RotationShape ==
    ASSUME NEW b \in Body, b.type = "JOURNAL_AUTHORITY_ROTATED"
    PROVE  b.successor \in Keys
  BY DEF Body, ArchiveBody, EvidenceBody, BundleBody, HoldBody, ReleaseBody,
         IntentBody, CommitBody, RetirementBody, RotationBody

LEMMA StagesOf ==
    ASSUME NEW x \in Evidence
    PROVE  /\ x \in Lifecycle!In("live") <=> x \in Ids(LiveCaptures(journal))
           /\ x \in Lifecycle!In("deleting") <=>
                 x \in Ids(Pending(journal)) \ Ids(Deletions(journal))
           /\ x \in Lifecycle!In("absent") <=>
                 x \notin Ids(Captures(journal)) \cup Ids(Deletions(journal))
                          \cup Ids(Pending(journal))
  BY DEF Lifecycle!In, StageOf, LiveCaptures, Ids

LEMMA NothingDeleting ==
    ASSUME Pending(journal) = {}
    PROVE  Lifecycle!In("deleting") = {}
  BY DEF Lifecycle!In, StageOf, Ids

LEMMA UnseenStep ==
    ASSUME UNCHANGED journal
    PROVE  UNCHANGED Lifecycle!lifecycle
  BY DEF Lifecycle!lifecycle, StageOf, NamedBy

LEMMA LiveIsReadable ==
    /\ LiveObjectsRetained => Lifecycle!LiveReadable
    /\ LiveObjectsRetained' => Lifecycle!LiveReadable'
<1>1. LiveObjectsRetained => Lifecycle!LiveReadable
  <2>1. SUFFICES ASSUME LiveObjectsRetained, NEW x \in Lifecycle!In("live")
                 PROVE  x \in Ids({b \in Captures(journal) : b.object \in objects})
    BY DEF Lifecycle!LiveReadable
  <2>2. PICK b \in LiveCaptures(journal) : b.id = x
    BY <2>1, StagesOf DEF Lifecycle!In, Ids
  <2>3. b \in Captures(journal) /\ b.object \in objects
    BY <2>1 DEF LiveObjectsRetained, Retained, LiveCaptures
  <2>4. QED
    BY <2>2, <2>3 DEF Ids
<1>2. LiveObjectsRetained' => Lifecycle!LiveReadable'
  BY <1>1, PTL
<1>3. QED
  BY <1>1, <1>2

LEMMA OperationOf ==
    ASSUME DependencyKinds # {}, JournalInv, NEW e \in Event,
           journal' = Append(journal, e), Origin(e.body)
    PROVE  Lifecycle!Operation
<1> DEFINE b == e.body
           t == b.type
           More(kind, bodies) == IF t = kind THEN bodies \cup {b} ELSE bodies
<1>1. journal \in Seq(Event) /\ b \in Body
  BY DEF JournalInv, RetentionInv, TypeOK, Event
<1>2. /\ Archives(journal') = More("COMPONENT_ARCHIVED", Archives(journal))
      /\ Captures(journal') = More("EVIDENCE_APPENDED", Captures(journal))
      /\ Seals(journal') = More("BUNDLE_SEALED", Seals(journal))
      /\ Placements(journal') = More("LEGAL_HOLD_PLACED", Placements(journal))
      /\ Releases(journal') = More("LEGAL_HOLD_RELEASED", Releases(journal))
      /\ Intents(journal') = More("EVIDENCE_DELETION_INTENT", Intents(journal))
      /\ Deletions(journal') = More("EVIDENCE_DELETED", Deletions(journal))
      /\ Retirements(journal') = More("COMPONENT_RETIRED", Retirements(journal))
      /\ Rotations(journal') = More("JOURNAL_AUTHORITY_ROTATED", Rotations(journal))
  BY <1>1, AppendViews
<1>3. t # "COMPONENT_RETIRED" => Accepts(journal, b)
  BY OriginChecked
<1>4. t # "EVIDENCE_DELETED" =>
         Pending(journal) = {} /\ Lifecycle!In("deleting") = {}
  BY OriginAlone, NothingDeleting
<1>5. t \notin {"EVIDENCE_APPENDED", "EVIDENCE_DELETION_INTENT", "EVIDENCE_DELETED"} =>
         \A x : StageOf(x)' = StageOf(x)
  BY <1>2 DEF StageOf, Pending
<1>6. t # "BUNDLE_SEALED" => \A x : NamedBy(Seals(journal), x)' = NamedBy(Seals(journal), x)
  BY <1>2 DEF NamedBy
<1>7. t # "LEGAL_HOLD_PLACED" =>
         \A x : NamedBy(Placements(journal), x)' = NamedBy(Placements(journal), x)
  BY <1>2 DEF NamedBy
<1>8. t # "JOURNAL_AUTHORITY_ROTATED" => KeyHistory(journal') = KeyHistory(journal)
  BY <1>2 DEF KeyHistory
<1>10. CASE t = "COMPONENT_ARCHIVED"
  <2>1. b.ref \in Components \ Refs(Archives(journal))
    BY <1>1, <1>3, <1>10, BodyShapes DEF Accepts
  <2>2. Refs(Archives(journal))' = Refs(Archives(journal)) \cup {b.ref}
    BY <1>2, <1>10 DEF Refs
  <2>3. Lifecycle!Archive
    BY <1>2, <1>5, <1>6, <1>7, <1>8, <1>10, <2>1, <2>2 DEF Lifecycle!Archive
  <2>4. QED
    BY <1>4, <1>10, <2>3 DEF Lifecycle!Operation
<1>11. CASE t = "COMPONENT_RETIRED"
  <2>1. b.ref \in Refs(Archives(journal)) \ Refs(Retirements(journal))
    BY <1>11, OriginChecked
  <2>2. Refs(Retirements(journal))' = Refs(Retirements(journal)) \cup {b.ref}
    BY <1>2, <1>11 DEF Refs
  <2>3. Lifecycle!Retire
    BY <1>2, <1>5, <1>6, <1>7, <1>8, <1>11, <2>1, <2>2 DEF Lifecycle!Retire
  <2>4. QED
    BY <1>4, <1>11, <2>3 DEF Lifecycle!Operation
<1>12. CASE t = "EVIDENCE_APPENDED"
  <2>1. b.id \in Evidence \ Ids(Captures(journal))
    BY <1>1, <1>3, <1>12, BodyShapes DEF Accepts
  <2>2. b.id \notin Ids(Deletions(journal)) \cup Ids(Pending(journal))
    BY <1>4, <1>12, <2>1 DEF JournalInv, DeletionsIntended, IntentsCaptured, Ids
  <2>3. b.id \in Lifecycle!In("absent")
    BY <2>1, <2>2, StagesOf
  <2>4. Refs(Archives(journal)) \ Refs(Retirements(journal)) # {}
    BY <1>12, OriginChecked, OriginAlone
  <2>5. \A x \in Evidence : StageOf(x)' = IF x = b.id THEN "live" ELSE StageOf(x)
    BY <1>2, <1>12, <2>2 DEF StageOf, Pending, Ids
  <2>6. [x \in Evidence |-> StageOf(x)]' =
           [[x \in Evidence |-> StageOf(x)] EXCEPT ![b.id] = "live"]
    BY <2>5
  <2>7. Lifecycle!Capture
    BY <1>2, <1>6, <1>7, <1>8, <1>12, <2>3, <2>4, <2>6 DEF Lifecycle!Capture
  <2>8. QED
    BY <1>4, <1>12, <2>7 DEF Lifecycle!Operation
<1>13. CASE t = "BUNDLE_SEALED"
  <2>1. b.id \in Bundles \ Ids(Seals(journal))
    BY <1>1, <1>3, <1>13, BodyShapes DEF Accepts
  <2>2. b.evidence \in (SUBSET Ids(LiveCaptures(journal))) \ {{}}
    BY <1>13, OriginAlone
  <2>3. b.evidence \in (SUBSET Lifecycle!In("live")) \ {{}}
    BY <1>1, <2>2, StagesOf, IdsTyped
  <2>4. NamedBy(Seals(journal), b.id) = {}
    BY <2>1 DEF NamedBy, Ids
  <2>5. \A x \in Bundles : NamedBy(Seals(journal), x)' =
           IF x = b.id THEN b.evidence ELSE NamedBy(Seals(journal), x)
    BY <1>2, <1>13, <2>1 DEF NamedBy, Ids
  <2>6. [x \in Bundles |-> NamedBy(Seals(journal), x)]' =
           [[x \in Bundles |-> NamedBy(Seals(journal), x)] EXCEPT ![b.id] = b.evidence]
    BY <2>5
  <2>7. Lifecycle!Seal
    BY <1>2, <1>5, <1>7, <1>8, <1>13, <2>1, <2>3, <2>4, <2>6 DEF Lifecycle!Seal
  <2>8. QED
    BY <1>4, <1>13, <2>7 DEF Lifecycle!Operation
<1>14. CASE t = "LEGAL_HOLD_PLACED"
  <2> DEFINE Held(x) == IF x \in Ids(Releases(journal)) THEN {}
                        ELSE NamedBy(Placements(journal), x)
  <2>1. b.id \in Holds \ Ids(Placements(journal))
    BY <1>1, <1>3, <1>14, BodyShapes DEF Accepts
  <2>2. b.evidence \in (SUBSET Ids(LiveCaptures(journal))) \ {{}}
    BY <1>14, OriginAlone
  <2>3. b.evidence \in (SUBSET Lifecycle!In("live")) \ {{}}
    BY <1>1, <2>2, StagesOf, IdsTyped
  <2>4. b.id \notin Ids(Releases(journal)) /\ Held(b.id) = {}
    BY <2>1 DEF NamedBy, Ids, JournalInv, HoldsNamed
  <2>5. \A x \in Holds : Held(x)' = IF x = b.id THEN b.evidence ELSE Held(x)
    <3>1. Placements(journal') = Placements(journal) \cup {b} /\ Releases(journal') = Releases(journal)
      BY <1>2, <1>14
    <3>2. \A x \in Holds : NamedBy(Placements(journal'), x) =
              IF x = b.id THEN NamedBy(Placements(journal), x) \cup b.evidence
              ELSE NamedBy(Placements(journal), x)
      BY <3>1 DEF NamedBy
    <3>3. NamedBy(Placements(journal), b.id) = {}
      BY <2>1 DEF NamedBy, Ids
    <3> QED BY <3>1, <3>2, <3>3, <2>4
  <2>6. [x \in Holds |-> Held(x)]' = [[x \in Holds |-> Held(x)] EXCEPT ![b.id] = b.evidence]
    BY <2>5
  <2>7. UNCHANGED <<Refs(Archives(journal)), Refs(Retirements(journal)),
                    [x \in Evidence |-> StageOf(x)],
                    [x \in Bundles |-> NamedBy(Seals(journal), x)],
                    Ids(Releases(journal)), KeyHistory(journal)>>
    BY <1>2, <1>5, <1>6, <1>8, <1>14
  <2>8. b.id \in Holds \ Ids(Releases(journal))
    BY <2>1, <2>4
  <2>9. [x \in Holds |-> Held(x)][b.id] = {}
    BY <2>1, <2>4
  <2>10. Lifecycle!PlaceHold
    BY <2>3, <2>6, <2>7, <2>8, <2>9 DEF Lifecycle!PlaceHold
  <2>11. QED
    BY <1>4, <1>14, <2>10 DEF Lifecycle!Operation
<1>15. CASE t = "LEGAL_HOLD_RELEASED"
  <2> DEFINE Held(x) == IF x \in Ids(Releases(journal)) THEN {}
                        ELSE NamedBy(Placements(journal), x)
  <2>1. b.id \in Ids(Placements(journal)) \ Ids(Releases(journal)) /\ b.id \in Holds
    BY <1>1, <1>3, <1>15, BodyShapes DEF Accepts
  <2>2. Held(b.id) # {}
    BY <2>1 DEF NamedBy, Ids, JournalInv, HoldsNamed
  <2>3. Ids(Releases(journal))' = Ids(Releases(journal)) \cup {b.id}
    BY <1>2, <1>15 DEF Ids
  <2>4. \A x \in Holds : Held(x)' = IF x = b.id THEN {} ELSE Held(x)
    BY <1>7, <1>15, <2>3
  <2>5. [x \in Holds |-> Held(x)]' = [[x \in Holds |-> Held(x)] EXCEPT ![b.id] = {}]
    BY <2>4
  <2>6. UNCHANGED <<Refs(Archives(journal)), Refs(Retirements(journal)),
                    [x \in Evidence |-> StageOf(x)],
                    [x \in Bundles |-> NamedBy(Seals(journal), x)],
                    KeyHistory(journal)>>
    BY <1>2, <1>5, <1>6, <1>8, <1>15
  <2>7. [x \in Holds |-> Held(x)][b.id] # {}
    BY <2>1, <2>2
  <2>8. Lifecycle!ReleaseHold
    BY <2>1, <2>3, <2>5, <2>6, <2>7 DEF Lifecycle!ReleaseHold
  <2>9. QED
    BY <1>4, <1>15, <2>8 DEF Lifecycle!Operation
<1>16. CASE t = "JOURNAL_AUTHORITY_ROTATED"
  <2>1. b.successor \in Keys \ KeyHistory(journal)
    BY <1>1, <1>3, <1>16, RotationShape DEF Accepts
  <2>2. KeyHistory(journal)' = KeyHistory(journal) \cup {b.successor}
    BY <1>2, <1>16 DEF KeyHistory
  <2>3. Lifecycle!Rotate
    BY <1>2, <1>5, <1>6, <1>7, <1>16, <2>1, <2>2 DEF Lifecycle!Rotate
  <2>4. QED
    BY <1>4, <1>16, <2>3 DEF Lifecycle!Operation
<1>17. CASE t = "EVIDENCE_DELETION_INTENT"
  <2>1. /\ b.id \in Ids(Captures(journal)) \
                    (Ids(Deletions(journal)) \cup Ids(Pending(journal)))
        /\ ActiveHolds(journal, b.id) = {}
    BY <1>17, OriginAlone
  <2>2. b.id \in Evidence
    BY <1>1, <2>1, IdsTyped
  <2>3. b.id \in Lifecycle!In("live")
    BY <2>1, <2>2 DEF Lifecycle!In, StageOf
  <2>4. \A h \in Holds : b.id \notin (IF h \in Ids(Releases(journal)) THEN {}
                                      ELSE NamedBy(Placements(journal), h))
    BY <2>1 DEF ActiveHolds, NamedBy
  <2>5. \A x \in Evidence : StageOf(x)' = IF x = b.id THEN "deleting" ELSE StageOf(x)
    BY <1>2, <1>17, <2>1 DEF StageOf, Pending, Ids
  <2>6. [x \in Evidence |-> StageOf(x)]' =
           [[x \in Evidence |-> StageOf(x)] EXCEPT ![b.id] = "deleting"]
    BY <2>5
  <2>7. Lifecycle!BeginDeletion
    BY <1>2, <1>6, <1>7, <1>8, <1>17, <2>3, <2>4, <2>6 DEF Lifecycle!BeginDeletion
  <2>8. QED
    BY <1>4, <1>17, <2>7 DEF Lifecycle!Operation
<1>18. CASE t = "EVIDENCE_DELETED"
  <2>1. PICK intent \in Pending(journal) : b = CommitBody(intent)
    BY <1>18, OriginAlone
  <2>2. b.id = intent.id
    BY <2>1 DEF CommitBody
  <2>3. b.id \in Evidence
    BY <1>1, <1>18, BodyShapes
  <2>4. b.id \in Ids(Pending(journal)) \ Ids(Deletions(journal))
    BY <2>1, <2>2 DEF Pending, Ids
  <2>5. b.id \in Lifecycle!In("deleting")
    BY <2>3, <2>4, StagesOf
  <2>6. \A x \in Evidence : StageOf(x)' = IF x = b.id THEN "deleted" ELSE StageOf(x)
    BY <1>2, <1>18 DEF StageOf, Pending, Ids
  <2>7. [x \in Evidence |-> StageOf(x)]' =
           [[x \in Evidence |-> StageOf(x)] EXCEPT ![b.id] = "deleted"]
    BY <2>6
  <2>8. Lifecycle!FinishDeletion
    BY <1>2, <1>6, <1>7, <1>8, <1>18, <2>5, <2>7 DEF Lifecycle!FinishDeletion
  <2>9. QED
    BY <2>5, <2>8 DEF Lifecycle!Operation
<1>19. QED
  BY <1>1, <1>10, <1>11, <1>12, <1>13, <1>14, <1>15, <1>16, <1>17, <1>18, TypesOfBodies

LEMMA LifecycleInit == Init => Lifecycle!Init
<1> SUFFICES ASSUME Init PROVE Lifecycle!Init
  OBVIOUS
<1>1. Bodies(journal) = {}
  BY DEF Init, Bodies
<1>2. /\ Archives(journal) = {} /\ Captures(journal) = {} /\ Seals(journal) = {}
      /\ Placements(journal) = {} /\ Releases(journal) = {} /\ Intents(journal) = {}
      /\ Deletions(journal) = {} /\ Retirements(journal) = {} /\ Rotations(journal) = {}
  BY <1>1 DEF Archives, Captures, Seals, Placements, Releases, Intents, Deletions,
       Retirements, Rotations, OfType
<1>3. QED
  BY <1>2 DEF Lifecycle!Init, StageOf, Pending, NamedBy, KeyHistory, Ids, Refs

-----------------------------------------------------------------------------
(* The steps of the two programs. *)

RuntimeInv == JournalInv /\ RuntimeTypeOK

\* The lock taken with a key that may have been rotated out meanwhile: apart
\* from that key it is an Open.
StaleOpen(w) ==
    /\ pc[w] = "closed"
    /\ lock = None
    /\ lock' = w
    /\ \E k \in Keys : handle' = [handle EXCEPT ![w] = k]
    /\ Goto(w, "opening")
    /\ UNCHANGED <<journal, objects, todo>>

\* The event of a prepared mutation is linked, and the writer is gone.
LastWords(w) ==
    /\ pc[w] = "append"
    /\ MaySign(w)
    /\ journal' = Signed(w, todo[w])
    /\ Leave(w, "closed")
    /\ UNCHANGED objects

\* What becomes of a probe: only a writer that is closed has one.
Probed ==
    /\ \A v \in RustWriters : probe'[v] # None => pc'[v] = "closed"
    /\ probe' \in [RustWriters -> Keys \cup {None}]

LEMMA RustSteps ==
    ASSUME RuntimeInv, NEW w \in RustWriters, RustStep(w)
    PROVE  \/ UNCHANGED vars /\ Probed
           \/ Steps(w) /\ pc[w] # "closed" /\ UNCHANGED probe
           \/ StaleOpen(w) /\ Probed
<1> USE DEF RuntimeInv, RuntimeTypeOK
<1>1. CASE (\E k \in Keys : RustCheckSigner(w, k)) \/ RustDieProbing(w)
  BY <1>1 DEF RustCheckSigner, RustDieProbing, Probed, vars
<1>2. CASE RustOpenLocked(w)
  <2>1. StaleOpen(w)
    BY <1>2 DEF RustOpenLocked, StaleOpen
  <2>2. \A v \in RustWriters : probe'[v] = IF v = w THEN None ELSE probe[v]
    BY <1>2 DEF RustOpenLocked
  <2>3. \A v \in RustWriters : pc'[v] = IF v = w THEN "opening" ELSE pc[v]
    BY <1>2, RuntimesAssumption DEF RustOpenLocked, Goto, TypeOK
  <2>4. probe' \in [RustWriters -> Keys \cup {None}]
    BY <1>2 DEF RustOpenLocked
  <2>5. QED
    BY <2>1, <2>2, <2>3, <2>4 DEF Probed
<1>3. CASE RustBegin(w)
  BY <1>3 DEF RustBegin, Begin, Steps
<1>4. CASE RustRecover(w) \/ RustCollect(w)
  BY <1>4 DEF RustRecover, RustCollect, Does, RecoverUnlink, RecoverCommit, RecoverFail,
       Collect, Recovered, Recovering, Recover, Steps
<1>5. CASE \/ RustAppendPrepared(w) \/ RustArchiveComponent(w) \/ RustAppendEvidence(w)
           \/ RustCreateBundle(w) \/ RustPlaceLegalHold(w) \/ RustReleaseLegalHold(w)
           \/ RustRetireComponent(w) \/ RustRotate(w) \/ RustDeleteEvidence(w)
           \/ RustReject(w)
  <2>1. MethodBody(w) /\ UNCHANGED probe
    BY <1>5 DEF RustAppendPrepared, RustArchiveComponent, RustAppendEvidence,
         RustCreateBundle, RustPlaceLegalHold, RustReleaseLegalHold, RustRetireComponent,
         RustRotate, RustDeleteEvidence, RustReject, Does, MethodBody
  <2>2. pc[w] # "closed"
    BY <2>1 DEF MethodBody, ArchiveComponent, AppendEvidence, AppendPrepared, CreateBundle,
         PlaceLegalHold, ReleaseLegalHold, RetireComponent, RotateJournalAuthority,
         DeleteIntent, DeleteUnlink, Reject
  <2>3. QED
    BY <2>1, <2>2 DEF Steps
<1>6. QED
  BY <1>1, <1>2, <1>3, <1>4, <1>5 DEF RustStep

LEMMA PythonSteps ==
    ASSUME RuntimeInv, NEW w \in Writers \ RustWriters, PythonStep(w)
    PROVE  (Steps(w) \/ LastWords(w)) /\ UNCHANGED probe
<1>1. CASE \E k \in Keys : PythonOpen(w, k)
  BY <1>1 DEF PythonOpen, Does, Steps
<1>2. CASE PythonBegin(w) \/ PythonMethod(w)
  BY <1>2 DEF PythonBegin, PythonMethod, Does, Steps
<1>3. CASE DieAfterLink(w)
  BY <1>3 DEF DieAfterLink, Dies, LastWords, Leave, Goto
<1>4. QED
  BY <1>1, <1>2, <1>3 DEF PythonStep

\* An unreadable journal ends a method as an I/O error does, and a death before
\* the link is a crash.
LEMMA FailureSteps ==
    ASSUME RuntimeInv, NEW w \in Writers,
           \/ Unreadable(w) \/ DieBeforeLink(w)
           \/ (IOError(w) \/ Crash(w)) /\ UNCHANGED <<probe, residue>>
    PROVE  Steps(w) /\ pc[w] # "closed" /\ UNCHANGED probe
<1>1. CASE Unreadable(w)
  BY <1>1 DEF Unreadable, IOError, InMethod, Steps
<1>2. CASE DieBeforeLink(w)
  <2>1. InMethod(w)
    BY <1>2 DEF DieBeforeLink, Writing, Recovering, InMethod
  <2>2. lock = w
    BY <2>1 DEF RuntimeInv, RuntimeTypeOK, TypeOK, ControlOK
  <2>3. Crash(w)
    BY <1>2, <2>1, <2>2 DEF DieBeforeLink, Dies, Crash, InMethod
  <2>4. QED
    BY <1>2, <2>1, <2>3 DEF DieBeforeLink, Dies, InMethod, Steps
<1>3. CASE (IOError(w) \/ Crash(w)) /\ UNCHANGED <<probe, residue>>
  BY <1>3 DEF IOError, Crash, InMethod, Steps
<1>4. QED
  BY <1>1, <1>2, <1>3

-----------------------------------------------------------------------------
(* The two steps that EvidenceVault does not have. *)

LEMMA StaleOpenKeeps ==
    ASSUME JournalInv, NEW w \in Writers, StaleOpen(w)
    PROVE  JournalInv' /\ Grows
<1> USE DEF JournalInv, RetentionInv
<1>1. /\ ~InMethod(w)
      /\ lock = None
      /\ lock' = w
      /\ pc' \in [Writers -> Labels]
      /\ handle' \in [Writers -> Keys \cup {None}]
      /\ UNCHANGED <<journal, objects, todo>>
  BY DEF TypeOK, StaleOpen, Goto, InMethod, Labels
<1>2. ControlOK'
  <2>1. SUFFICES ASSUME NEW v \in Writers
                 PROVE  /\ lock' = v <=> pc'[v] \notin {"closed", "idle"}
                        /\ handle'[v] = None <=> pc'[v] = "closed"
                        /\ todo[v] = None <=> pc'[v] \notin {"append", "unlink"}
    BY <1>1 DEF ControlOK, InMethod
  <2>2. CASE v = w
    BY <2>2, <1>1, ConstantsAssumption DEF TypeOK, ControlOK, StaleOpen, Goto, InMethod
  <2>3. CASE v # w
    BY <2>3, <1>1, ConstantsAssumption DEF TypeOK, ControlOK, StaleOpen, Goto, InMethod
  <2>4. QED
    BY <2>2, <2>3
<1>3. TypeOK'
  BY <1>1, <1>2 DEF TypeOK
<1>4. /\ UNCHANGED <<journal, objects, todo>>
      /\ pc' = [pc EXCEPT ![w] = "opening"]
  BY DEF StaleOpen, Goto
<1>5. EffectsInOrder'
  BY <1>4, QuietStep
<1>6. LiveObjectsRetained' /\ IntentsCaptured' /\ HoldsNamed'
  BY <1>4 DEF LiveObjectsRetained, IntentsCaptured, HoldsNamed
<1>7. \A v \in Writers : pc'[v] \in {"append", "unlink", "body"} => pc[v] = pc'[v]
  BY <1>4 DEF TypeOK
<1>8. CleanBeforeBody'
  BY <1>4, <1>7 DEF CleanBeforeBody
<1>9. DeletionsIntended' /\ OwedEvents'
  BY <1>4, <1>7 DEF DeletionsIntended, OwedEvents
<1>10. Grows
  BY <1>4 DEF Grows
<1>11. QED
  BY <1>3, <1>5, <1>6, <1>8, <1>9, <1>10

LEMMA LastWordsKeep ==
    ASSUME JournalInv, NEW w \in Writers, LastWords(w)
    PROVE  JournalInv' /\ Grows
<1> DEFINE e == [signer |-> handle[w], body |-> todo[w]]
<1>1. /\ InMethod(w) /\ pc[w] = "append" /\ TypeOK /\ journal \in Seq(Event)
      /\ e \in Event /\ e.body = todo[w] /\ e.signer = ActiveKey(journal)
      /\ journal' = Append(journal, e)
      /\ Leave(w, "closed")
      /\ UNCHANGED objects
  BY DEF LastWords, JournalInv, RetentionInv, TypeOK, ControlOK, InMethod, Event,
         MaySign, Signed
<1>2. Origin(e.body)
  BY <1>1 DEF Origin
<1>3. Grows
  BY <1>1, <1>2 DEF Grows
<1> HIDE DEF e
<1>4. TypeOK'
  BY <1>1, LeaveTyped DEF TypeOK
<1>5. EffectsInOrder'
  BY <1>1, LeaveInOrder
<1>6. \/ e.body.type \in {"COMPONENT_ARCHIVED", "EVIDENCE_APPENDED"}
             /\ e.body.object \in objects
      \/ e.body.type = "EVIDENCE_DELETED"
  BY <1>1 DEF JournalInv, RetentionInv, EffectsInOrder
<1>7. LiveObjectsRetained'
  BY <1>1, <1>6, RetainedByRefs, RetainedShrinks
     DEF JournalInv, RetentionInv, LiveObjectsRetained
<1>8. \A v \in Writers : pc'[v] \notin {"append", "unlink", "body"}
  BY <1>1 DEF TypeOK, ControlOK, InMethod, Leave, Goto
<1>9. CleanBeforeBody' /\ OwedEvents'
  BY <1>8 DEF CleanBeforeBody, OwedEvents
<1>10. DeletionsIntended'
  <2>1. /\ Deletions(journal') \subseteq Deletions(journal) \cup
               (IF e.body.type = "EVIDENCE_DELETED" THEN {e.body} ELSE {})
        /\ Intents(journal) \subseteq Intents(journal')
    BY <1>1, AppendOfType DEF Deletions, Intents
  <2>2. e.body.type = "EVIDENCE_DELETED" => e.body.id \in Ids(Intents(journal))
    BY <1>1 DEF JournalInv, DeletionsIntended
  <2>3. Ids(Deletions(journal')) \subseteq Ids(Intents(journal'))
    BY <2>1, <2>2 DEF JournalInv, DeletionsIntended, Ids
  <2>4. QED
    BY <1>8, <2>3 DEF DeletionsIntended
<1>11. IntentsCaptured' /\ HoldsNamed'
  BY <1>3, CapturedStep, NamedStep
<1>12. QED
  BY <1>3, <1>4, <1>5, <1>7, <1>9, <1>10, <1>11 DEF JournalInv, RetentionInv

-----------------------------------------------------------------------------
(* Every step of the two programs keeps JournalInv and grows the journal as   *)
(* EvidenceVault does.                                                        *)

LEMMA ProbeKept ==
    ASSUME RuntimeInv, NEW w \in Writers, Steps(w), UNCHANGED probe,
           w \in RustWriters => pc[w] # "closed"
    PROVE  Probed
<1>1. \A v \in Writers \ {w} : pc'[v] = pc[v]
  BY StepMoves DEF RuntimeInv, RuntimeTypeOK
<1>2. QED
  BY <1>1, RuntimesAssumption DEF Probed, RuntimeInv, RuntimeTypeOK

LEMMA RuntimeMoves ==
    ASSUME RuntimeInv, RuntimeNext
    PROVE  JournalInv' /\ Grows /\ Probed /\ residue' \in BOOLEAN
<1>1. residue' \in BOOLEAN
  BY DEF RuntimeInv, RuntimeTypeOK, RuntimeNext, RustStep, PythonStep, RustCheckSigner,
       RustOpenLocked, RustDieProbing, RustBegin, RustRecover, RustCollect,
       RustAppendPrepared, RustArchiveComponent, RustAppendEvidence, RustCreateBundle,
       RustPlaceLegalHold, RustReleaseLegalHold, RustRetireComponent, RustRotate,
       RustDeleteEvidence, RustReject, PythonOpen, PythonBegin, PythonMethod, Does,
       DieAfterLink, DieBeforeLink, Dies, Unreadable
<1>2. ASSUME NEW w \in Writers, Steps(w) PROVE JournalInv' /\ Grows
  <2>1. Next
    BY <1>2 DEF Next, Steps
  <2>2. QED
    BY <2>1, JournalStep, JournalSteps DEF RuntimeInv
<1>3. CASE \E w \in RustWriters : RustStep(w)
  <2>1. PICK w \in RustWriters : RustStep(w)
    BY <1>3
  <2>2. w \in Writers
    BY RuntimesAssumption
  <2>3. CASE UNCHANGED vars /\ Probed
    BY <1>1, <2>3, JournalStep, JournalSteps DEF RuntimeInv
  <2>4. CASE Steps(w) /\ pc[w] # "closed" /\ UNCHANGED probe
    BY <1>1, <1>2, <2>2, <2>4, ProbeKept
  <2>5. CASE StaleOpen(w) /\ Probed
    BY <1>1, <2>2, <2>5, StaleOpenKeeps DEF RuntimeInv
  <2>6. QED
    BY <2>1, <2>3, <2>4, <2>5, RustSteps
<1>4. CASE \E w \in Writers \ RustWriters : PythonStep(w)
  <2>1. PICK w \in Writers \ RustWriters : PythonStep(w)
    BY <1>4
  <2>2. CASE Steps(w)
    BY <1>1, <1>2, <2>1, <2>2, PythonSteps, ProbeKept
  <2>3. CASE LastWords(w)
    <3>1. \A v \in RustWriters : pc'[v] = pc[v]
      BY <2>1, <2>3, RuntimesAssumption
         DEF LastWords, Leave, Goto, RuntimeInv, RuntimeTypeOK, TypeOK
    <3>2. Probed
      BY <2>1, <3>1, PythonSteps DEF Probed, RuntimeInv, RuntimeTypeOK
    <3>3. QED
      BY <1>1, <2>3, <3>2, LastWordsKeep DEF RuntimeInv
  <2>4. QED
    BY <2>1, <2>2, <2>3, PythonSteps
<1>5. CASE \E w \in Writers :
              \/ Unreadable(w) \/ DieBeforeLink(w)
              \/ (IOError(w) \/ Crash(w)) /\ UNCHANGED <<probe, residue>>
  BY <1>1, <1>2, <1>5, FailureSteps, ProbeKept
<1>6. QED
  BY <1>3, <1>4, <1>5 DEF RuntimeNext

LEMMA RuntimeKeeps ==
    ASSUME RuntimeInv, [RuntimeNext]_runtimeVars
    PROVE  RuntimeInv' /\ Grows
<1>1. CASE UNCHANGED runtimeVars
  <2>1. UNCHANGED vars
    BY <1>1 DEF runtimeVars
  <2>2. JournalInv' /\ Grows
    BY <2>1, JournalStep, JournalSteps DEF RuntimeInv
  <2>3. TypeOK'
    BY <2>2 DEF JournalInv, RetentionInv
  <2>4. QED
    BY <1>1, <2>1, <2>2, <2>3 DEF RuntimeInv, RuntimeTypeOK, runtimeVars, vars
<1>2. CASE RuntimeNext
  <2>1. JournalInv' /\ Grows /\ Probed /\ residue' \in BOOLEAN
    BY <1>2, RuntimeMoves
  <2>2. QED
    BY <2>1 DEF RuntimeInv, RuntimeTypeOK, Probed, JournalInv, RetentionInv
<1>3. QED
  BY <1>1, <1>2

LEMMA RuntimeStarts == RuntimeInit => RuntimeInv
<1> SUFFICES ASSUME RuntimeInit PROVE RuntimeInv
  OBVIOUS
<1>1. JournalInv
  BY JournalInit DEF RuntimeInit
<1>2. RuntimeTypeOK
  BY <1>1, RuntimesAssumption DEF RuntimeInit, RuntimeTypeOK, JournalInv, RetentionInv
<1>3. QED
  BY <1>1, <1>2 DEF RuntimeInv

-----------------------------------------------------------------------------
(* The theorems. *)

LEMMA RuntimeInvariant == RuntimeSpec => []RuntimeInv
  BY RuntimeStarts, RuntimeKeeps, PTL DEF RuntimeSpec

\* Whichever program moves, a writer is inside a method exactly while it holds
\* the vault's lock, and only a Rust writer without a handle has probed.
THEOREM RuntimesTypeCorrect == RuntimeSpec => []RuntimeTypeOK
<1>1. RuntimeInv => RuntimeTypeOK
  BY DEF RuntimeInv
<1>2. QED
  BY <1>1, RuntimeInvariant, PTL

\* Although Rust compares its signer before it has the lock, every event of a
\* shared vault is signed by the key in charge at its place, and no key is in
\* charge twice.
THEOREM RuntimesShareAuthority == RuntimeSpec => []AuthorityChain
<1>1. RuntimeInit => AuthorityChain
  BY DEF RuntimeInit, Init, AuthorityChain, SignedInTurn, RotationSteps
<1>2. RuntimeInv /\ AuthorityChain /\ [RuntimeNext]_runtimeVars => AuthorityChain'
  BY RuntimeKeeps, AuthorityStep DEF RuntimeInv
<1>3. QED
  BY <1>1, <1>2, RuntimeStarts, RuntimeKeeps, PTL DEF RuntimeSpec

\* Whichever program prepares a capture while the other retires a component, the
\* capture names components that are archived and not retired at its place, and
\* no two programs can retire components in favour of each other in a circle.
THEOREM RuntimesCaptureCurrent ==
    RuntimeSpec => [](CapturesUseActiveComponents /\ ReplacementsEnd)
<1>1. RuntimeInit => CapturesUseActiveComponents /\ ReplacementsEnd
  <2>1. SUFFICES ASSUME RuntimeInit
                 PROVE  CapturesUseActiveComponents /\ ReplacementsEnd
    OBVIOUS
  <2>2. journal = <<>>
    BY <2>1 DEF RuntimeInit, Init
  <2>3. Retirements(journal) = {}
    BY <2>2 DEF Retirements, OfType, Bodies
  <2>4. QED
    BY <2>2, <2>3 DEF CapturesUseActiveComponents, ReplacementsEnd
<1>2. RuntimeInv /\ CapturesUseActiveComponents /\ [RuntimeNext]_runtimeVars =>
          CapturesUseActiveComponents'
  BY RuntimeKeeps, ActiveStep DEF RuntimeInv
<1>3. RuntimeInv /\ ReplacementsEnd /\ [RuntimeNext]_runtimeVars => ReplacementsEnd'
  BY RuntimeKeeps, ReplacementStep DEF RuntimeInv
<1>4. QED
  BY <1>1, <1>2, <1>3, RuntimeStarts, RuntimeKeeps, PTL DEF RuntimeSpec

\* No death and no leftover of either program costs the vault an object that
\* live evidence or a component refers to, and a hold keeps its evidence from
\* the deletions of both.
THEOREM RuntimesRetain == RuntimeSpec => [](LiveObjectsRetained /\ HoldsBlockDeletion)
<1>1. RuntimeInit => HoldsBlockDeletion
  BY HoldsInit DEF RuntimeInit
<1>2. RuntimeInv /\ HoldsBlockDeletion /\ [RuntimeNext]_runtimeVars => HoldsBlockDeletion'
  BY RuntimeKeeps, HoldsKept DEF RuntimeInv
<1>3. RuntimeInv => LiveObjectsRetained
  BY DEF RuntimeInv, JournalInv, RetentionInv
<1>4. QED
  BY <1>1, <1>2, <1>3, RuntimeStarts, RuntimeKeeps, PTL DEF RuntimeSpec

\* Bytes leave the CAS, and tombstones say so, in steps of EvidenceVault only: a
\* stale open touches neither, and the last words of a dying writer may be a
\* tombstone, but it owed that one only after the bytes were gone.
LEMMA RuntimeSteps ==
    ASSUME RuntimeInv, [RuntimeNext]_runtimeVars
    PROVE  [Next]_vars \/ \E w \in Writers : StaleOpen(w) \/ LastWords(w)
<1>1. CASE UNCHANGED runtimeVars
  BY <1>1 DEF runtimeVars
<1>2. CASE RuntimeNext
  <2>1. ASSUME NEW w \in Writers, Steps(w) PROVE Next
    BY <2>1 DEF Next, Steps
  <2>2. CASE \E w \in RustWriters : RustStep(w)
    BY <2>1, <2>2, RustSteps, RuntimesAssumption
  <2>3. CASE \E w \in Writers \ RustWriters : PythonStep(w)
    BY <2>1, <2>3, PythonSteps
  <2>4. CASE \E w \in Writers :
                \/ Unreadable(w) \/ DieBeforeLink(w)
                \/ (IOError(w) \/ Crash(w)) /\ UNCHANGED <<probe, residue>>
    BY <2>1, <2>4, FailureSteps
  <2>5. QED
    BY <1>2, <2>2, <2>3, <2>4 DEF RuntimeNext
<1>3. QED
  BY <1>1, <1>2

LEMMA LastTombstone ==
    ASSUME JournalInv, NEW w \in Writers, LastWords(w),
           NEW b \in Deletions(journal') \ Deletions(journal)
    PROVE  b.physical => b.object \notin objects'
<1> DEFINE e == [signer |-> handle[w], body |-> todo[w]]
<1>1. /\ pc[w] = "append" /\ journal \in Seq(Event)
      /\ e \in Event /\ e.body = todo[w]
      /\ journal' = Append(journal, e)
      /\ UNCHANGED objects
  BY DEF LastWords, JournalInv, RetentionInv, TypeOK, ControlOK, InMethod, Event, Signed
<1> HIDE DEF e
<1>2. Deletions(journal') = IF e.body.type = "EVIDENCE_DELETED"
                            THEN Deletions(journal) \cup {e.body} ELSE Deletions(journal)
  BY <1>1, AppendOfType DEF Deletions
<1>3. b = todo[w] /\ todo[w].type = "EVIDENCE_DELETED"
  BY <1>1, <1>2
<1>4. QED
  BY <1>1, <1>3 DEF JournalInv, RetentionInv, EffectsInOrder

\* A tombstone that claims physical deletion follows the removal of the bytes,
\* whichever program began the deletion, whichever finished it, and where either
\* of them died; and bytes leave only after a signed intent for every evidence
\* that referred to them, also when they are leftovers of the other program.
THEOREM RuntimesDeleteInOrder == RuntimeSpec => TombstoneAfterBytes /\ NoUnexplainedLoss
<1>1. RuntimeInv /\ [RuntimeNext]_runtimeVars =>
          [\A b \in Deletions(journal') \ Deletions(journal) :
               b.physical => b.object \notin objects']_vars
  <2>1. SUFFICES ASSUME RuntimeInv, [RuntimeNext]_runtimeVars,
                        NEW b \in Deletions(journal') \ Deletions(journal)
                 PROVE  b.physical => b.object \notin objects'
    OBVIOUS
  <2>2. CASE [Next]_vars
    BY <2>1, <2>2, NewTombstone DEF RuntimeInv, JournalInv
  <2>3. CASE \E w \in Writers : StaleOpen(w)
    BY <2>1, <2>3 DEF StaleOpen
  <2>4. CASE \E w \in Writers : LastWords(w)
    BY <2>1, <2>4, LastTombstone DEF RuntimeInv
  <2>5. QED
    BY <2>1, <2>2, <2>3, <2>4, RuntimeSteps
<1>2. RuntimeInv /\ [RuntimeNext]_runtimeVars =>
          [\A o \in objects \ objects' :
              /\ \A b \in Captures(journal) : b.object = o => b.id \in Ids(Intents(journal))
              /\ \A b \in Archives(journal) : b.object # o]_vars
  <2>1. SUFFICES ASSUME RuntimeInv, [RuntimeNext]_runtimeVars, NEW o \in objects \ objects'
                 PROVE  o \notin Retained(journal)
    BY UnretainedIsIntended DEF RuntimeInv, JournalInv
  <2>2. CASE [Next]_vars
    BY <2>1, <2>2, UnlinkedIsUnretained DEF RuntimeInv, JournalInv
  <2>3. CASE \E w \in Writers : StaleOpen(w) \/ LastWords(w)
    BY <2>1, <2>3 DEF StaleOpen, LastWords
  <2>4. QED
    BY <2>1, <2>2, <2>3, RuntimeSteps
<1>3. QED
  BY <1>1, <1>2, RuntimeStarts, RuntimeKeeps, PTL
     DEF RuntimeSpec, TombstoneAfterBytes, NoUnexplainedLoss

\* An operation of either program starts on a vault without pending deletions and
\* without leftovers: each has first finished or removed what the other left.
THEOREM RuntimesStartClean == RuntimeSpec => []CleanBeforeBody
<1>1. RuntimeInv => CleanBeforeBody
  BY DEF RuntimeInv, JournalInv
<1>2. QED
  BY <1>1, RuntimeStarts, RuntimeKeeps, PTL DEF RuntimeSpec

\* What breaks the journal for Rust is the leftover file and nothing else: the
\* events themselves always replay, as long as callers pass valid claim ids.
THEOREM RuntimesReplay ==
    ASSUME Claims \subseteq ValidClaims
    PROVE  RuntimeSpec => [](PythonReplays /\ (~residue => RustReplays))
<1>1. RuntimeInit => JournalReplays
  BY DEF RuntimeInit, Init, JournalReplays, Replayable, SignedInTurn
<1>2. RuntimeInv /\ JournalReplays /\ [RuntimeNext]_runtimeVars => JournalReplays'
  BY RuntimeKeeps, ReplayStep DEF RuntimeInv
<1>3. JournalReplays => PythonReplays /\ (~residue => RustReplays)
  BY DEF JournalReplays, PythonReplays, RustReplays
<1>4. QED
  BY <1>1, <1>2, <1>3, RuntimeStarts, RuntimeKeeps, PTL DEF RuntimeSpec

LEMMA LifecycleGrows ==
    ASSUME DependencyKinds # {}, JournalInv, JournalInv', Grows
    PROVE  [Lifecycle!Next]_(Lifecycle!lvars)
<1>1. Lifecycle!LiveReadable'
  BY LiveIsReadable DEF JournalInv, RetentionInv
<1>2. Lifecycle!Operation \/ UNCHANGED Lifecycle!lifecycle
  BY OperationOf, UnseenStep DEF Grows
<1>3. QED
  BY <1>1, <1>2 DEF Lifecycle!Next

\* The archive, whatever its writers, crashes and recoveries do, behaves towards
\* its callers as the atomic lifecycle does.  Captures name at least one
\* component, since there are kinds they must name.
THEOREM VaultImplementsLifecycle ==
    ASSUME DependencyKinds # {}
    PROVE  Spec => ImplementsLifecycle
<1>1. JournalInv /\ [Next]_vars => [Lifecycle!Next]_(Lifecycle!lvars)
  BY LifecycleGrows, JournalStep, JournalSteps
<1>2. QED
  BY <1>1, LifecycleInit, JournalInit, JournalStep, PTL
     DEF Spec, ImplementsLifecycle, Lifecycle!Spec

\* Two programs that share a vault still behave as the atomic lifecycle does.
THEOREM RuntimesImplementLifecycle ==
    ASSUME DependencyKinds # {}
    PROVE  RuntimeSpec => ImplementsLifecycle
<1>1. RuntimeInit => Lifecycle!Init
  BY LifecycleInit DEF RuntimeInit
<1>2. RuntimeInv /\ [RuntimeNext]_runtimeVars => [Lifecycle!Next]_(Lifecycle!lvars)
  BY LifecycleGrows, RuntimeKeeps DEF RuntimeInv
<1>3. QED
  BY <1>1, <1>2, RuntimeStarts, RuntimeKeeps, PTL
     DEF RuntimeSpec, ImplementsLifecycle, Lifecycle!Spec

===============================================================================
