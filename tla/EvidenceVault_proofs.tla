------------------------ MODULE EvidenceVault_proofs ------------------------
(***************************************************************************)
(* Theorems about the writers of a vault, for all constants: first what    *)
(* they do to the objects, then what replay() finds in the journal they    *)
(* leave.                                                                  *)
(***************************************************************************)
EXTENDS EvidenceVault, TLAPS

-----------------------------------------------------------------------------
(* The shapes of event bodies. *)

LEMMA BodyShapes ==
    ASSUME NEW b \in Body
    PROVE  /\ b.type = "COMPONENT_ARCHIVED" =>
                 b.ref \in Components /\ b.object \in Objects
           /\ b.type = "EVIDENCE_APPENDED" =>
                 /\ b.id \in Evidence /\ b.object \in Objects
                 /\ b.min \in Times /\ b.due \in Times
           /\ b.type = "BUNDLE_SEALED" => b.id \in Bundles
           /\ b.type = "LEGAL_HOLD_PLACED" => b.id \in Holds
           /\ b.type = "LEGAL_HOLD_RELEASED" => b.id \in Holds
           /\ b.type = "EVIDENCE_DELETION_INTENT" =>
                 \E e \in Evidence, o \in Objects, at \in Times,
                    bs \in Basis, p \in BOOLEAN : b = IntentBody(e, o, at, bs, p)
           /\ b.type = "EVIDENCE_DELETED" => b.id \in Evidence
           /\ b.type = "COMPONENT_RETIRED" => b.ref \in Components
  BY DEF Body, ArchiveBody, EvidenceBody, BundleBody, HoldBody, ReleaseBody,
         IntentBody, CommitBody, RetirementBody, RotationBody

LEMMA BodiesTyped ==
    ASSUME NEW j \in Seq(Event)
    PROVE  Bodies(j) \subseteq Body
<1>1. \A i \in DOMAIN j : j[i] \in Event
  OBVIOUS
<1>2. \A e \in Event : e.body \in Body
  BY DEF Event
<1>3. QED
  BY <1>1, <1>2 DEF Bodies

LEMMA IdsTyped ==
    ASSUME NEW j \in Seq(Event)
    PROVE  /\ Refs(Archives(j)) \subseteq Components
           /\ Ids(Captures(j)) \subseteq Evidence
           /\ Ids(LiveCaptures(j)) \subseteq Evidence
           /\ Ids(Placements(j)) \subseteq Holds
<1>1. \A b \in Bodies(j) : b \in Body
  BY BodiesTyped
<1>2. \A b \in Archives(j) : b.ref \in Components
  BY <1>1, BodyShapes DEF Archives, OfType
<1>3. \A b \in Captures(j) : b.id \in Evidence
  BY <1>1, BodyShapes DEF Captures, OfType
<1>4. \A b \in Placements(j) : b.id \in Holds
  BY <1>1, BodyShapes DEF Placements, OfType
<1>5. LiveCaptures(j) \subseteq Captures(j)
  BY DEF LiveCaptures
<1>6. QED
  BY <1>2, <1>3, <1>4, <1>5 DEF Refs, Ids

LEMMA CommitTyped ==
    ASSUME NEW b \in Body, b.type = "EVIDENCE_DELETION_INTENT"
    PROVE  CommitBody(b) \in Body
<1>1. PICK e \in Evidence, o \in Objects, at \in Times, bs \in Basis,
           p \in BOOLEAN : b = IntentBody(e, o, at, bs, p)
  BY BodyShapes
<1>2. QED
  BY <1>1 DEF Body

LEMMA SignedTyped ==
    ASSUME NEW w \in Writers, TypeOK, pc[w] # "closed", NEW b \in Body
    PROVE  Signed(w, b) \in Seq(Event)
  BY DEF TypeOK, ControlOK, Signed, Event

-----------------------------------------------------------------------------
(* Type correctness: one lemma for each way in which a step moves control.  *)

LEMMA LeaveTyped ==
    ASSUME TypeOK, NEW w \in Writers, InMethod(w),
           NEW label \in {"idle", "closed"}, Leave(w, label),
           journal' \in Seq(Event), objects' \in SUBSET Objects
    PROVE  TypeOK'
<1>1. /\ handle' \in [Writers -> Keys \cup {None}]
      /\ pc' \in [Writers -> Labels]
      /\ todo' \in [Writers -> Body \cup {None}]
      /\ lock' \in Writers \cup {None}
  BY DEF TypeOK, Leave, Goto, Labels
<1>2. lock = w
  BY DEF TypeOK, ControlOK
<1>3. ControlOK'
  <2>1. SUFFICES ASSUME NEW v \in Writers
                 PROVE  /\ lock' = v <=> pc'[v] \notin {"closed", "idle"}
                        /\ handle'[v] = None <=> pc'[v] = "closed"
                        /\ todo'[v] = None <=> pc'[v] \notin {"append", "unlink"}
    BY DEF ControlOK, InMethod
  <2>2. CASE v = w
    BY <2>2, ConstantsAssumption DEF TypeOK, ControlOK, Leave, Goto, InMethod
  <2>3. CASE v # w
    BY <2>3, <1>2, ConstantsAssumption DEF TypeOK, ControlOK, Leave, Goto, InMethod
  <2>4. QED
    BY <2>2, <2>3
<1>4. QED
  BY <1>1, <1>3 DEF TypeOK

LEMMA RaiseTyped ==
    ASSUME TypeOK, NEW w \in Writers, InMethod(w), Raise(w),
           UNCHANGED <<journal, objects>>
    PROVE  TypeOK'
  BY LeaveTyped DEF TypeOK, Raise

LEMMA PublishTyped ==
    ASSUME TypeOK, NEW w \in Writers, InMethod(w), NEW b, Publish(w, b),
           MaySign(w) => b \in Body
    PROVE  TypeOK'
<1>1. pc[w] # "closed"
  BY DEF InMethod
<1>2. journal' \in Seq(Event)
  BY <1>1, SignedTyped DEF Publish, TypeOK
<1>3. QED
  BY <1>2, LeaveTyped DEF Publish, Return, TypeOK

LEMMA StayTyped ==
    ASSUME TypeOK, NEW w \in Writers, InMethod(w),
           NEW label \in Labels \ {"closed", "idle"}, Goto(w, label),
           UNCHANGED <<lock, handle>>,
           NEW b \in Body \cup {None}, todo' = [todo EXCEPT ![w] = b],
           b = None <=> label \notin {"append", "unlink"},
           journal' \in Seq(Event), objects' \in SUBSET Objects
    PROVE  TypeOK'
<1>1. /\ pc' \in [Writers -> Labels]
      /\ todo' \in [Writers -> Body \cup {None}]
  BY DEF TypeOK, Goto
<1>2. ControlOK'
  <2>1. SUFFICES ASSUME NEW v \in Writers
                 PROVE  /\ lock = v <=> pc'[v] \notin {"closed", "idle"}
                        /\ handle[v] = None <=> pc'[v] = "closed"
                        /\ todo'[v] = None <=> pc'[v] \notin {"append", "unlink"}
    BY DEF ControlOK, InMethod
  <2>2. CASE v = w
    BY <2>2 DEF TypeOK, ControlOK, Goto, InMethod
  <2>3. CASE v # w
    BY <2>3 DEF TypeOK, ControlOK, Goto, InMethod
  <2>4. QED
    BY <2>2, <2>3
<1>3. QED
  BY <1>1, <1>2 DEF TypeOK

\* Steps that touch only the disk.
LEMMA DiskTyped ==
    ASSUME TypeOK, journal' \in Seq(Event), objects' \in SUBSET Objects,
           UNCHANGED <<lock, handle, pc, todo>>
    PROVE  TypeOK'
  BY DEF TypeOK, ControlOK, InMethod

LEMMA TypeInit == Init => TypeOK
  BY ConstantsAssumption DEF Init, TypeOK, ControlOK, InMethod, Labels

LEMMA LockTyped ==
    ASSUME TypeOK, NEW w \in Writers, Begin(w) \/ \E k \in Keys : Open(w, k)
    PROVE  TypeOK'
<1>1. /\ ~InMethod(w)
      /\ lock = None
      /\ lock' = w
      /\ pc' \in [Writers -> Labels]
      /\ handle' \in [Writers -> Keys \cup {None}]
      /\ UNCHANGED <<journal, objects, todo>>
  BY DEF TypeOK, Begin, Open, Goto, InMethod, Labels
<1>2. ControlOK'
  <2>1. SUFFICES ASSUME NEW v \in Writers
                 PROVE  /\ lock' = v <=> pc'[v] \notin {"closed", "idle"}
                        /\ handle'[v] = None <=> pc'[v] = "closed"
                        /\ todo[v] = None <=> pc'[v] \notin {"append", "unlink"}
    BY <1>1 DEF ControlOK, InMethod
  <2>2. CASE v = w
    BY <2>2, <1>1, ConstantsAssumption
       DEF TypeOK, ControlOK, Begin, Open, Goto, InMethod
  <2>3. CASE v # w
    BY <2>3, <1>1, ConstantsAssumption
       DEF TypeOK, ControlOK, Begin, Open, Goto, InMethod
  <2>4. QED
    BY <2>2, <2>3
<1>3. QED
  BY <1>1, <1>2 DEF TypeOK

LEMMA RecoverTyped ==
    ASSUME TypeOK, NEW w \in Writers, Recover(w)
    PROVE  TypeOK'
<1>1. CASE RecoverUnlink(w)
  BY <1>1, DiskTyped DEF RecoverUnlink, TypeOK
<1>2. CASE RecoverCommit(w)
  <2>1. PICK intent \in Pending(journal) :
            journal' = Signed(w, CommitBody(intent))
    BY <1>2 DEF RecoverCommit
  <2>2. intent \in Body /\ intent.type = "EVIDENCE_DELETION_INTENT"
    BY BodiesTyped DEF Pending, Intents, OfType, TypeOK
  <2>3. journal' \in Seq(Event)
    BY <1>2, <2>1, <2>2, CommitTyped, SignedTyped DEF RecoverCommit, Recovering
  <2>4. QED
    BY <1>2, <2>3, DiskTyped DEF RecoverCommit, TypeOK
<1>3. CASE RecoverFail(w)
  BY <1>3, RaiseTyped DEF RecoverFail, InMethod
<1>4. CASE Collect(w)
  BY <1>4, DiskTyped DEF Collect, TypeOK
<1>5. CASE Recovered(w)
  <2>1. CASE pc[w] = "opening" /\ Return(w)
    BY <1>5, <2>1, LeaveTyped DEF Recovered, Return, InMethod, TypeOK
  <2>2. CASE pc[w] = "recovering" /\ Goto(w, "body") /\ UNCHANGED <<lock, handle, todo>>
    <3>1. InMethod(w) /\ todo[w] = None
      BY <2>2 DEF InMethod, TypeOK, ControlOK
    <3>2. todo' = [todo EXCEPT ![w] = None]
      BY <2>2, <3>1 DEF TypeOK
    <3>3. journal' \in Seq(Event) /\ objects' \in SUBSET Objects
      BY <1>5 DEF Recovered, TypeOK
    <3>4. "body" \in Labels \ {"closed", "idle"}
      BY DEF Labels
    <3>5. None \in Body \cup {None} /\ "body" \notin {"append", "unlink"}
      OBVIOUS
    <3>6. UNCHANGED <<lock, handle>> /\ Goto(w, "body")
      BY <2>2
    <3>7. QED
      BY <3>1, <3>2, <3>3, <3>4, <3>5, <3>6, StayTyped
  <2>3. QED
    BY <1>5, <2>1, <2>2 DEF Recovered
<1>6. QED
  BY <1>1, <1>2, <1>3, <1>4, <1>5 DEF Recover

LEMMA PutTyped ==
    ASSUME TypeOK, NEW w \in Writers, pc[w] = "body",
           NEW o \in Objects, NEW b \in Body, PutObject(w, o, b)
    PROVE  TypeOK'
<1>1. InMethod(w) /\ b # None
  BY NoneAssumption DEF InMethod
<1>2. QED
  BY <1>1, StayTyped DEF PutObject, Labels, TypeOK

LEMMA DeletionTyped ==
    ASSUME TypeOK, NEW w \in Writers, DeleteIntent(w) \/ DeleteUnlink(w)
    PROVE  TypeOK'
<1>1. InMethod(w)
  BY DEF DeleteIntent, DeleteUnlink, InMethod
<1>2. CASE DeleteIntent(w)
  <2>1. PICK capture \in Captures(journal), at \in Times, basis \in Basis,
             physical \in BOOLEAN :
            LET intent == IntentBody(capture.id, capture.object, at, basis, physical)
            IN  /\ journal' = Signed(w, intent)
                /\ todo' = [todo EXCEPT ![w] = CommitBody(intent)]
                /\ Goto(w, IF physical THEN "unlink" ELSE "append")
    BY <1>2 DEF DeleteIntent
  <2> DEFINE intent == IntentBody(capture.id, capture.object, at, basis, physical)
  <2>2. capture.id \in Evidence /\ capture.object \in Objects
    BY BodiesTyped, BodyShapes DEF Captures, OfType, TypeOK
  <2>3. intent \in Body /\ intent.type = "EVIDENCE_DELETION_INTENT"
    BY <2>2 DEF Body, IntentBody
  <2>4. CommitBody(intent) \in Body
    BY <2>3, CommitTyped
  <2>5. journal' \in Seq(Event)
    BY <2>1, <2>3, <1>1, SignedTyped DEF InMethod
  <2>6. CommitBody(intent) # None
    BY <2>4, NoneAssumption
  <2>7. UNCHANGED <<objects, lock, handle>>
    BY <1>2 DEF DeleteIntent
  <2>8. QED
    BY <1>1, <2>1, <2>4, <2>5, <2>6, <2>7, StayTyped DEF Labels, TypeOK
<1>3. CASE DeleteUnlink(w)
  <2>1. todo[w] \in Body
    BY <1>3 DEF DeleteUnlink, TypeOK, ControlOK
  <2>2. todo' = [todo EXCEPT ![w] = todo[w]]
    BY <1>3 DEF DeleteUnlink, TypeOK
  <2>3. QED
    BY <1>1, <1>3, <2>1, <2>2, NoneAssumption, StayTyped
       DEF DeleteUnlink, Labels, TypeOK
<1>4. QED
  BY <1>2, <1>3

LEMMA MethodTyped ==
    ASSUME TypeOK, NEW w \in Writers, MethodBody(w)
    PROVE  TypeOK'
<1> USE DEF InMethod
<1>1. CASE ArchiveComponent(w)
  BY <1>1, PutTyped DEF ArchiveComponent, Body
<1>2. CASE AppendEvidence(w)
  BY <1>2, PutTyped DEF AppendEvidence, Body
<1>3. CASE AppendPrepared(w)
  BY <1>3, PublishTyped DEF AppendPrepared, TypeOK, ControlOK
<1>4. CASE CreateBundle(w)
  <2>1. PICK b \in Bundles, ids \in SUBSET Ids(LiveCaptures(journal)) :
            Publish(w, BundleBody(b, ids))
    BY <1>4 DEF CreateBundle
  <2>2. BundleBody(b, ids) \in Body
    BY <2>1, IdsTyped DEF Body, TypeOK
  <2>3. QED
    BY <1>4, <2>1, <2>2, PublishTyped DEF CreateBundle
<1>5. CASE PlaceLegalHold(w)
  <2>1. PICK h \in Holds, ids \in SUBSET Ids(LiveCaptures(journal)) :
            Publish(w, HoldBody(h, ids))
    BY <1>5 DEF PlaceLegalHold
  <2>2. HoldBody(h, ids) \in Body
    BY <2>1, IdsTyped DEF Body, TypeOK
  <2>3. QED
    BY <1>5, <2>1, <2>2, PublishTyped DEF PlaceLegalHold
<1>6. CASE ReleaseLegalHold(w)
  <2>1. PICK h \in Ids(Placements(journal)) : Publish(w, ReleaseBody(h))
    BY <1>6 DEF ReleaseLegalHold
  <2>2. ReleaseBody(h) \in Body
    BY <2>1, IdsTyped DEF Body, TypeOK
  <2>3. QED
    BY <1>6, <2>1, <2>2, PublishTyped DEF ReleaseLegalHold
<1>7. CASE RetireComponent(w)
  <2>1. PICK c \in Refs(Archives(journal)), r \in Components \cup {None},
             claims \in SUBSET Claims : Publish(w, RetirementBody(c, r, claims))
    BY <1>7 DEF RetireComponent
  <2>2. RetirementBody(c, r, claims) \in Body
    BY <2>1, IdsTyped DEF Body, TypeOK
  <2>3. QED
    BY <1>7, <2>1, <2>2, PublishTyped DEF RetireComponent
<1>8. CASE RotateJournalAuthority(w)
  <2>1. PICK k \in Keys : Publish(w, RotationBody(ActiveKey(journal), k))
    BY <1>8 DEF RotateJournalAuthority
  <2>2. pc[w] = "body"
    BY <1>8 DEF RotateJournalAuthority
  <2>3. MaySign(w) => ActiveKey(journal) \in Keys
    BY <2>2 DEF MaySign, TypeOK, ControlOK
  <2>4. MaySign(w) => RotationBody(ActiveKey(journal), k) \in Body
    BY <2>3 DEF Body
  <2>5. QED
    BY <2>1, <2>2, <2>4, PublishTyped
<1>9. CASE DeleteIntent(w) \/ DeleteUnlink(w)
  BY <1>9, DeletionTyped
<1>10. CASE Reject(w)
  BY <1>10, RaiseTyped DEF Reject
<1>11. QED
  BY <1>1, <1>2, <1>3, <1>4, <1>5, <1>6, <1>7, <1>8, <1>9, <1>10 DEF MethodBody

LEMMA CrashTyped ==
    ASSUME TypeOK, NEW w \in Writers, Crash(w)
    PROVE  TypeOK'
<1>1. /\ handle' \in [Writers -> Keys \cup {None}]
      /\ pc' \in [Writers -> Labels]
      /\ todo' \in [Writers -> Body \cup {None}]
      /\ lock' \in Writers \cup {None}
      /\ UNCHANGED <<journal, objects>>
  BY DEF TypeOK, Crash, Goto, Labels
<1>2. ControlOK'
  <2>1. SUFFICES ASSUME NEW v \in Writers
                 PROVE  /\ lock' = v <=> pc'[v] \notin {"closed", "idle"}
                        /\ handle'[v] = None <=> pc'[v] = "closed"
                        /\ todo'[v] = None <=> pc'[v] \notin {"append", "unlink"}
    BY DEF ControlOK, InMethod
  <2>2. CASE v = w
    BY <2>2, ConstantsAssumption DEF TypeOK, ControlOK, Crash, Goto, InMethod
  <2>3. CASE v # w
    BY <2>3, ConstantsAssumption DEF TypeOK, ControlOK, Crash, Goto, InMethod
  <2>4. QED
    BY <2>2, <2>3
<1>3. QED
  BY <1>1, <1>2 DEF TypeOK

LEMMA TypeStep == TypeOK /\ [Next]_vars => TypeOK'
<1> SUFFICES ASSUME TypeOK, [Next]_vars PROVE TypeOK'
  OBVIOUS
<1>1. CASE UNCHANGED vars
  BY <1>1, DiskTyped DEF vars, TypeOK
<1>2. CASE Next
  <2>1. PICK w \in Writers : \/ Begin(w) \/ \E k \in Keys : Open(w, k)
                             \/ Recover(w) \/ MethodBody(w)
                             \/ IOError(w) \/ Crash(w)
    BY <1>2 DEF Next
  <2>2. CASE Begin(w) \/ \E k \in Keys : Open(w, k)
    BY <2>2, LockTyped
  <2>3. CASE Recover(w)
    BY <2>3, RecoverTyped
  <2>4. CASE MethodBody(w)
    BY <2>4, MethodTyped
  <2>5. CASE IOError(w)
    BY <2>5, RaiseTyped DEF IOError
  <2>6. CASE Crash(w)
    BY <2>6, CrashTyped
  <2>7. QED
    BY <2>1, <2>2, <2>3, <2>4, <2>5, <2>6
<1>3. QED
  BY <1>1, <1>2

\* Every reachable state is well typed, and a writer is inside a method exactly
\* while it holds the vault's lock.
THEOREM TypeCorrect == Spec => []TypeOK
  BY TypeInit, TypeStep, PTL DEF Spec

-----------------------------------------------------------------------------
(* How one more event changes the replayed state. *)

LEMMA AppendBodies ==
    ASSUME NEW j \in Seq(Event), NEW e \in Event
    PROVE  Bodies(Append(j, e)) = Bodies(j) \cup {e.body}
<1> DEFINE k == Append(j, e)
<1>1. /\ DOMAIN j = 1 .. Len(j)
      /\ DOMAIN k = 1 .. Len(j) + 1
      /\ \A i \in 1 .. Len(j) : k[i] = j[i]
      /\ k[Len(j) + 1] = e
      /\ Len(j) \in Nat
  OBVIOUS
<1>2. Bodies(k) \subseteq Bodies(j) \cup {e.body}
  BY <1>1 DEF Bodies
<1>3. Bodies(j) \subseteq Bodies(k)
  BY <1>1 DEF Bodies
<1>4. e.body \in Bodies(k)
  BY <1>1 DEF Bodies
<1>5. QED
  BY <1>2, <1>3, <1>4

LEMMA AppendOfType ==
    ASSUME NEW j \in Seq(Event), NEW e \in Event, NEW t
    PROVE  OfType(Append(j, e), t) =
             IF e.body.type = t THEN OfType(j, t) \cup {e.body} ELSE OfType(j, t)
  BY AppendBodies DEF OfType

\* A tombstone takes the place of a pending intent, so evidence is live as long
\* as no intent and no tombstone names it.
LEMMA LiveMeansUnmarked ==
    ASSUME NEW j
    PROVE  LiveCaptures(j) =
             {b \in Captures(j) : b.id \notin Ids(Deletions(j)) \cup Ids(Intents(j))}
  BY DEF LiveCaptures, Pending, Ids

LEMMA RetainedByRefs ==
    ASSUME NEW j \in Seq(Event), NEW e \in Event,
           e.body.type \in {"COMPONENT_ARCHIVED", "EVIDENCE_APPENDED"}
    PROVE  Retained(Append(j, e)) \subseteq Retained(j) \cup {e.body.object}
<1>1. /\ Captures(Append(j, e)) \subseteq Captures(j) \cup {e.body}
      /\ Archives(Append(j, e)) \subseteq Archives(j) \cup {e.body}
      /\ Deletions(Append(j, e)) = Deletions(j)
      /\ Intents(Append(j, e)) = Intents(j)
  BY AppendOfType DEF Captures, Archives, Deletions, Intents
<1>2. LiveCaptures(Append(j, e)) \subseteq LiveCaptures(j) \cup {e.body}
  BY <1>1, LiveMeansUnmarked
<1>3. QED
  BY <1>1, <1>2 DEF Retained

LEMMA RetainedShrinks ==
    ASSUME NEW j \in Seq(Event), NEW e \in Event,
           e.body.type \notin {"COMPONENT_ARCHIVED", "EVIDENCE_APPENDED"}
    PROVE  Retained(Append(j, e)) \subseteq Retained(j)
<1>1. /\ Captures(Append(j, e)) = Captures(j)
      /\ Archives(Append(j, e)) = Archives(j)
      /\ Deletions(j) \subseteq Deletions(Append(j, e))
      /\ Intents(j) \subseteq Intents(Append(j, e))
  BY AppendOfType DEF Captures, Archives, Deletions, Intents
<1>2. LiveCaptures(Append(j, e)) \subseteq LiveCaptures(j)
  BY <1>1, LiveMeansUnmarked DEF Ids
<1>3. QED
  BY <1>1, <1>2 DEF Retained

LEMMA RetainedAfterIntent ==
    ASSUME NEW j \in Seq(Event), NEW e \in Event,
           e.body.type = "EVIDENCE_DELETION_INTENT"
    PROVE  Retained(Append(j, e)) \subseteq RetainedBesides(j, e.body.id)
<1>1. /\ Captures(Append(j, e)) = Captures(j)
      /\ Archives(Append(j, e)) = Archives(j)
      /\ Deletions(Append(j, e)) = Deletions(j)
      /\ Intents(Append(j, e)) = Intents(j) \cup {e.body}
  BY AppendOfType DEF Captures, Archives, Deletions, Intents
<1>2. LiveCaptures(Append(j, e)) \subseteq {c \in LiveCaptures(j) : c.id # e.body.id}
  BY <1>1, LiveMeansUnmarked DEF Ids
<1>3. QED
  BY <1>1, <1>2 DEF Retained, RetainedBesides

LEMMA RetainedWhilePending ==
    ASSUME NEW j, NEW intent \in Pending(j)
    PROVE  Retained(j) \subseteq RetainedBesides(j, intent.id)
  BY DEF Retained, RetainedBesides, LiveCaptures, Ids

-----------------------------------------------------------------------------
(* RetentionInv is inductive.  The writer that moves is alone with the disk:  *)
(* whoever is between two effects holds the lock.                             *)

LEMMA MoverAlone ==
    ASSUME TypeOK, NEW w \in Writers, InMethod(w), NEW label,
           pc' = [pc EXCEPT ![w] = label],
           label = "append" =>
              \/ /\ todo'[w].type \in {"COMPONENT_ARCHIVED", "EVIDENCE_APPENDED"}
                 /\ todo'[w].object \in objects'
              \/ /\ todo'[w].type = "EVIDENCE_DELETED"
                 /\ todo'[w].physical => todo'[w].object \notin objects',
           label = "unlink" =>
              /\ todo'[w].type = "EVIDENCE_DELETED"
              /\ todo'[w].object \notin Retained(journal')
    PROVE  EffectsInOrder'
<1>1. SUFFICES ASSUME NEW v \in Writers, v # w
               PROVE  pc'[v] \notin {"append", "unlink"}
  BY DEF TypeOK, EffectsInOrder
<1>2. ~InMethod(v)
  BY <1>1 DEF TypeOK, ControlOK
<1>3. QED
  BY <1>1, <1>2 DEF InMethod, TypeOK

LEMMA QuietStep ==
    ASSUME EffectsInOrder, TypeOK, NEW w \in Writers, NEW label,
           label \notin {"append", "unlink"},
           pc' = [pc EXCEPT ![w] = label],
           \A v \in Writers : v # w => todo'[v] = todo[v],
           UNCHANGED <<journal, objects>>
    PROVE  EffectsInOrder'
<1>1. SUFFICES ASSUME NEW v \in Writers
               PROVE  /\ pc'[v] \in {"append", "unlink"} => pc'[v] = pc[v] /\ v # w
                      /\ v # w => todo'[v] = todo[v]
  BY DEF EffectsInOrder
<1>2. QED
  BY DEF TypeOK

LEMMA LeaveInOrder ==
    ASSUME TypeOK, NEW w \in Writers, InMethod(w),
           NEW label \in {"idle", "closed"}, Leave(w, label)
    PROVE  EffectsInOrder'
  BY MoverAlone DEF Leave, Goto

LEMMA RaiseInOrder ==
    ASSUME TypeOK, NEW w \in Writers, InMethod(w), Raise(w)
    PROVE  EffectsInOrder'
  BY LeaveInOrder DEF Raise

LEMMA PublishRetains ==
    ASSUME RetentionInv, NEW w \in Writers, InMethod(w), NEW b \in Body,
           Publish(w, b),
           b.type \in {"COMPONENT_ARCHIVED", "EVIDENCE_APPENDED"} =>
              b.object \in objects
    PROVE  LiveObjectsRetained' /\ EffectsInOrder'
<1>1. EffectsInOrder'
  BY LeaveInOrder DEF Publish, Return, RetentionInv
<1>2. CASE journal' = journal
  BY <1>1, <1>2 DEF Publish, LiveObjectsRetained, RetentionInv
<1>3. CASE journal' = Signed(w, b)
  <2> DEFINE e == [signer |-> handle[w], body |-> b]
  <2>1. e \in Event /\ e.body = b
    BY DEF RetentionInv, TypeOK, ControlOK, InMethod, Event
  <2>2. journal' = Append(journal, e) /\ journal \in Seq(Event)
    BY <1>3 DEF Signed, RetentionInv, TypeOK
  <2>3. Retained(journal') \subseteq objects
    BY <2>1, <2>2, RetainedByRefs, RetainedShrinks
       DEF RetentionInv, LiveObjectsRetained
  <2>4. QED
    BY <1>1, <2>3 DEF LiveObjectsRetained, Publish
<1>4. QED
  BY <1>1, <1>2, <1>3 DEF Publish

LEMMA RecoverRetains ==
    ASSUME RetentionInv, NEW w \in Writers, Recover(w)
    PROVE  LiveObjectsRetained' /\ EffectsInOrder'
<1> USE DEF RetentionInv
<1>1. CASE RecoverUnlink(w)
  <2>1. PICK intent \in Pending(journal) :
            ~Conflict(intent) /\ intent.physical /\ objects' = objects \ {intent.object}
    BY <1>1 DEF RecoverUnlink
  <2>2. intent.object \notin Retained(journal)
    BY <2>1, RetainedWhilePending DEF Conflict
  <2>3. InMethod(w) /\ pc[w] \notin {"append", "unlink"} /\ pc' = [pc EXCEPT ![w] = pc[w]]
    BY <1>1 DEF RecoverUnlink, Recovering, InMethod, TypeOK
  <2>4. EffectsInOrder'
    BY <2>3, MoverAlone
  <2>5. QED
    BY <1>1, <2>1, <2>2, <2>4 DEF RecoverUnlink, LiveObjectsRetained
<1>2. CASE RecoverCommit(w)
  <2>1. PICK intent \in Pending(journal) : journal' = Signed(w, CommitBody(intent))
    BY <1>2 DEF RecoverCommit
  <2>2. intent \in Body /\ intent.type = "EVIDENCE_DELETION_INTENT"
    BY BodiesTyped DEF Pending, Intents, OfType, TypeOK
  <2> DEFINE e == [signer |-> handle[w], body |-> CommitBody(intent)]
  <2>3. InMethod(w) /\ pc[w] \notin {"append", "unlink"} /\ pc' = [pc EXCEPT ![w] = pc[w]]
    BY <1>2 DEF RecoverCommit, Recovering, InMethod, TypeOK
  <2>4. CommitBody(intent) \in Body
    BY <2>2, CommitTyped
  <2>5. e \in Event /\ e.body.type = "EVIDENCE_DELETED"
    BY <2>3, <2>4 DEF TypeOK, ControlOK, InMethod, Event, CommitBody
  <2>6. Retained(journal') \subseteq Retained(journal)
    BY <2>1, <2>5, RetainedShrinks DEF Signed, TypeOK
  <2>7. EffectsInOrder'
    BY <2>3, MoverAlone
  <2>8. QED
    BY <1>2, <2>6, <2>7 DEF RecoverCommit, LiveObjectsRetained
<1>3. CASE RecoverFail(w)
  BY <1>3, RaiseInOrder DEF RecoverFail, InMethod, LiveObjectsRetained
<1>4. CASE Collect(w)
  <2>1. InMethod(w) /\ pc[w] \notin {"append", "unlink"} /\ pc' = [pc EXCEPT ![w] = pc[w]]
    BY <1>4 DEF Collect, Recovering, InMethod, TypeOK
  <2>2. EffectsInOrder'
    BY <2>1, MoverAlone
  <2>3. QED
    BY <1>4, <2>2 DEF Collect, LiveObjectsRetained
<1>5. CASE Recovered(w)
  <2>1. InMethod(w)
    BY <1>5 DEF Recovered, Recovering, InMethod
  <2>2. CASE pc[w] = "opening" /\ Return(w)
    BY <1>5, <2>1, <2>2, LeaveInOrder DEF Recovered, Return, LiveObjectsRetained
  <2>3. CASE pc[w] = "recovering" /\ Goto(w, "body") /\ UNCHANGED <<lock, handle, todo>>
    BY <1>5, <2>1, <2>3, MoverAlone DEF Recovered, Goto, LiveObjectsRetained
  <2>4. QED
    BY <1>5, <2>2, <2>3 DEF Recovered
<1>6. QED
  BY <1>1, <1>2, <1>3, <1>4, <1>5 DEF Recover

LEMMA PutRetains ==
    ASSUME RetentionInv, NEW w \in Writers, pc[w] = "body",
           NEW o \in Objects, NEW b \in Body, PutObject(w, o, b), b.object = o,
           b.type \in {"COMPONENT_ARCHIVED", "EVIDENCE_APPENDED"}
    PROVE  LiveObjectsRetained' /\ EffectsInOrder'
<1>1. InMethod(w) /\ todo'[w] = b /\ o \in objects'
  BY DEF InMethod, PutObject, RetentionInv, TypeOK
<1>2. EffectsInOrder'
  BY <1>1, MoverAlone DEF PutObject, Goto, RetentionInv
<1>3. QED
  BY <1>2 DEF PutObject, RetentionInv, LiveObjectsRetained

LEMMA DeletionRetains ==
    ASSUME RetentionInv, NEW w \in Writers, DeleteIntent(w) \/ DeleteUnlink(w)
    PROVE  LiveObjectsRetained' /\ EffectsInOrder'
<1> USE DEF RetentionInv
<1>1. InMethod(w)
  BY DEF DeleteIntent, DeleteUnlink, InMethod
<1>2. CASE DeleteIntent(w)
  <2>1. PICK capture \in Captures(journal), at \in Times, basis \in Basis,
             physical \in BOOLEAN :
            LET intent == IntentBody(capture.id, capture.object, at, basis, physical)
            IN  /\ physical => capture.object \notin RetainedBesides(journal, capture.id)
                /\ journal' = Signed(w, intent)
                /\ todo' = [todo EXCEPT ![w] = CommitBody(intent)]
                /\ Goto(w, IF physical THEN "unlink" ELSE "append")
    BY <1>2 DEF DeleteIntent
  <2> DEFINE intent == IntentBody(capture.id, capture.object, at, basis, physical)
             e == [signer |-> handle[w], body |-> intent]
  <2>2. capture.id \in Evidence /\ capture.object \in Objects
    BY BodiesTyped, BodyShapes DEF Captures, OfType, TypeOK
  <2>3. intent \in Body
    BY <2>2 DEF Body
  <2>4. e \in Event /\ e.body = intent
    BY <1>1, <2>3 DEF TypeOK, ControlOK, InMethod, Event
  <2>5. e.body.type = "EVIDENCE_DELETION_INTENT" /\ e.body.id = capture.id
    BY <2>4 DEF IntentBody
  <2>6. /\ Retained(journal') \subseteq Retained(journal)
        /\ Retained(journal') \subseteq RetainedBesides(journal, capture.id)
    BY <2>1, <2>4, <2>5, RetainedShrinks, RetainedAfterIntent DEF Signed, TypeOK
  <2>7. /\ todo'[w].type = "EVIDENCE_DELETED"
        /\ todo'[w].object = capture.object
        /\ todo'[w].physical = physical
    BY <2>1 DEF CommitBody, IntentBody, TypeOK
  <2>8. EffectsInOrder'
    BY <1>1, <2>1, <2>6, <2>7, MoverAlone DEF Goto
  <2>9. QED
    BY <1>2, <2>6, <2>8 DEF DeleteIntent, LiveObjectsRetained
<1>3. CASE DeleteUnlink(w)
  <2>1. todo[w].type = "EVIDENCE_DELETED" /\ todo[w].object \notin Retained(journal)
    BY <1>3 DEF DeleteUnlink, EffectsInOrder
  <2>2. EffectsInOrder'
    BY <1>1, <1>3, <2>1, MoverAlone DEF DeleteUnlink, Goto
  <2>3. QED
    BY <1>3, <2>1, <2>2 DEF DeleteUnlink, LiveObjectsRetained
<1>4. QED
  BY <1>2, <1>3

LEMMA MethodRetains ==
    ASSUME RetentionInv, NEW w \in Writers, MethodBody(w)
    PROVE  LiveObjectsRetained' /\ EffectsInOrder'
<1> USE DEF RetentionInv, InMethod
<1>1. CASE ArchiveComponent(w)
  <2>1. PICK c \in Components, o \in Objects : PutObject(w, o, ArchiveBody(c, o))
    BY <1>1 DEF ArchiveComponent
  <2>2. ArchiveBody(c, o) \in Body
    BY DEF Body
  <2>3. QED
    BY <1>1, <2>1, <2>2, PutRetains DEF ArchiveComponent, ArchiveBody
<1>2. CASE AppendEvidence(w)
  <2>1. PICK e \in Evidence, o \in Objects, deps \in SUBSET Components,
             min \in Times, due \in Times :
            PutObject(w, o, EvidenceBody(e, o, deps, min, due))
    BY <1>2 DEF AppendEvidence
  <2>2. EvidenceBody(e, o, deps, min, due) \in Body
    BY DEF Body
  <2>3. QED
    BY <1>2, <2>1, <2>2, PutRetains DEF AppendEvidence, EvidenceBody
<1>3. CASE AppendPrepared(w)
  <2>1. todo[w] \in Body
    BY <1>3 DEF AppendPrepared, TypeOK, ControlOK
  <2>2. todo[w].type \in {"COMPONENT_ARCHIVED", "EVIDENCE_APPENDED"} =>
            todo[w].object \in objects
    BY <1>3 DEF AppendPrepared, EffectsInOrder
  <2>3. QED
    BY <1>3, <2>1, <2>2, PublishRetains DEF AppendPrepared
<1>4. CASE CreateBundle(w)
  <2>1. PICK b \in Bundles, ids \in SUBSET Ids(LiveCaptures(journal)) :
            Publish(w, BundleBody(b, ids))
    BY <1>4 DEF CreateBundle
  <2>2. BundleBody(b, ids) \in Body
    BY <2>1, IdsTyped DEF Body, TypeOK
  <2>3. QED
    BY <1>4, <2>1, <2>2, PublishRetains DEF CreateBundle, BundleBody
<1>5. CASE PlaceLegalHold(w)
  <2>1. PICK h \in Holds, ids \in SUBSET Ids(LiveCaptures(journal)) :
            Publish(w, HoldBody(h, ids))
    BY <1>5 DEF PlaceLegalHold
  <2>2. HoldBody(h, ids) \in Body
    BY <2>1, IdsTyped DEF Body, TypeOK
  <2>3. QED
    BY <1>5, <2>1, <2>2, PublishRetains DEF PlaceLegalHold, HoldBody
<1>6. CASE ReleaseLegalHold(w)
  <2>1. PICK h \in Ids(Placements(journal)) : Publish(w, ReleaseBody(h))
    BY <1>6 DEF ReleaseLegalHold
  <2>2. ReleaseBody(h) \in Body
    BY <2>1, IdsTyped DEF Body, TypeOK
  <2>3. QED
    BY <1>6, <2>1, <2>2, PublishRetains DEF ReleaseLegalHold, ReleaseBody
<1>7. CASE RetireComponent(w)
  <2>1. PICK c \in Refs(Archives(journal)), r \in Components \cup {None},
             claims \in SUBSET Claims : Publish(w, RetirementBody(c, r, claims))
    BY <1>7 DEF RetireComponent
  <2>2. RetirementBody(c, r, claims) \in Body
    BY <2>1, IdsTyped DEF Body, TypeOK
  <2>3. QED
    BY <1>7, <2>1, <2>2, PublishRetains DEF RetireComponent, RetirementBody
<1>8. CASE RotateJournalAuthority(w)
  <2>1. PICK k \in Keys : Publish(w, RotationBody(ActiveKey(journal), k))
    BY <1>8 DEF RotateJournalAuthority
  <2>2. pc[w] = "body"
    BY <1>8 DEF RotateJournalAuthority
  <2>3. CASE MaySign(w)
    <3>1. RotationBody(ActiveKey(journal), k) \in Body
      BY <2>2, <2>3 DEF MaySign, TypeOK, ControlOK, Body
    <3>2. QED
      BY <2>1, <2>2, <3>1, PublishRetains DEF RotationBody
  <2>4. CASE ~MaySign(w)
    BY <2>1, <2>2, <2>4, LeaveInOrder DEF Publish, Return, LiveObjectsRetained
  <2>5. QED
    BY <2>3, <2>4
<1>9. CASE DeleteIntent(w) \/ DeleteUnlink(w)
  BY <1>9, DeletionRetains
<1>10. CASE Reject(w)
  BY <1>10, RaiseInOrder DEF Reject, LiveObjectsRetained
<1>11. QED
  BY <1>1, <1>2, <1>3, <1>4, <1>5, <1>6, <1>7, <1>8, <1>9, <1>10 DEF MethodBody

LEMMA RetentionInit == Init => RetentionInv
<1> SUFFICES ASSUME Init PROVE RetentionInv
  OBVIOUS
<1>1. TypeOK
  BY TypeInit
<1>2. Bodies(journal) = {}
  BY DEF Init, Bodies
<1>3. LiveObjectsRetained
  BY <1>2 DEF LiveObjectsRetained, Retained, LiveCaptures, Captures, Archives, OfType
<1>4. EffectsInOrder
  BY DEF Init, EffectsInOrder
<1>5. QED
  BY <1>1, <1>3, <1>4 DEF RetentionInv

LEMMA RetentionStep == RetentionInv /\ [Next]_vars => RetentionInv'
<1> SUFFICES ASSUME RetentionInv, [Next]_vars PROVE RetentionInv'
  OBVIOUS
<1> USE DEF RetentionInv
<1>1. TypeOK'
  BY TypeStep
<1>2. LiveObjectsRetained' /\ EffectsInOrder'
  <2>1. CASE UNCHANGED vars
    BY <2>1 DEF vars, LiveObjectsRetained, EffectsInOrder
  <2>2. CASE Next
    <3>1. PICK w \in Writers : \/ Begin(w) \/ \E k \in Keys : Open(w, k)
                               \/ Recover(w) \/ MethodBody(w)
                               \/ IOError(w) \/ Crash(w)
      BY <2>2 DEF Next
    <3>2. CASE Begin(w) \/ \E k \in Keys : Open(w, k)
      <4>1. /\ UNCHANGED <<journal, objects, todo>>
            /\ \E label \in {"opening", "recovering"} : pc' = [pc EXCEPT ![w] = label]
        BY <3>2 DEF Begin, Open, Goto
      <4>2. EffectsInOrder'
        BY <4>1, QuietStep
      <4>3. QED
        BY <4>1, <4>2 DEF LiveObjectsRetained
    <3>3. CASE Recover(w)
      BY <3>3, RecoverRetains
    <3>4. CASE MethodBody(w)
      BY <3>4, MethodRetains
    <3>5. CASE IOError(w)
      BY <3>5, RaiseInOrder DEF IOError, LiveObjectsRetained
    <3>6. CASE Crash(w)
      <4>1. /\ UNCHANGED <<journal, objects>>
            /\ pc' = [pc EXCEPT ![w] = "closed"]
            /\ \A v \in Writers : v # w => todo'[v] = todo[v]
        BY <3>6 DEF Crash, Goto, TypeOK
      <4>2. EffectsInOrder'
        BY <4>1, QuietStep
      <4>3. QED
        BY <4>1, <4>2 DEF LiveObjectsRetained
    <3>7. QED
      BY <3>1, <3>2, <3>3, <3>4, <3>5, <3>6
  <2>3. QED
    BY <2>1, <2>2
<1>3. QED
  BY <1>1, <1>2

\* No interleaving of captures, deletions, recoveries, I/O errors and crashes
\* removes an object that live evidence or an archived component refers to.
THEOREM RetainedForever == Spec => []LiveObjectsRetained
<1>1. RetentionInv => LiveObjectsRetained
  BY DEF RetentionInv
<1>2. QED
  BY <1>1, RetentionInit, RetentionStep, PTL DEF Spec

-----------------------------------------------------------------------------
(* What a step can add to the journal.  Every step appends at most one event; *)
(* the three kinds of bodies that the next theorems are about come from one   *)
(* place each.                                                                *)

LEMMA PublishAppends ==
    ASSUME TypeOK, NEW w \in Writers, InMethod(w), NEW b, MaySign(w) => b \in Body,
           Publish(w, b)
    PROVE  \/ UNCHANGED journal
           \/ \E e \in Event : e.body = b /\ journal' = Append(journal, e)
<1>1. CASE MaySign(w)
  <2> DEFINE e == [signer |-> handle[w], body |-> b]
  <2>1. e \in Event /\ e.body = b
    BY <1>1 DEF TypeOK, ControlOK, InMethod, Event
  <2>2. QED
    BY <1>1, <2>1 DEF Publish, Signed
<1>2. CASE ~MaySign(w)
  BY <1>2 DEF Publish
<1>3. QED
  BY <1>1, <1>2

\* The event a step publishes, with what was checked before it.
LEMMA StepAppends ==
    ASSUME RetentionInv, [Next]_vars
    PROVE  \/ UNCHANGED journal
           \/ \E e \in Event :
                 /\ journal' = Append(journal, e)
                 /\ e.body.type = "EVIDENCE_DELETED" =>
                       (e.body.physical => e.body.object \notin objects')
                 /\ e.body.type = "EVIDENCE_DELETION_INTENT" =>
                       ActiveHolds(journal, e.body.id) = {}
                 /\ e.body.type = "LEGAL_HOLD_PLACED" =>
                       e.body.evidence \subseteq Ids(LiveCaptures(journal))
                 /\ e.body.type = "EVIDENCE_DELETED" =>
                       \/ e.body.id \in Ids(Intents(journal))
                       \/ \E w \in Writers : pc[w] = "append" /\ e.body = todo[w]
<1> USE DEF RetentionInv, InMethod
<1> DEFINE Good(e) ==
      /\ journal' = Append(journal, e)
      /\ e.body.type = "EVIDENCE_DELETED" =>
            (e.body.physical => e.body.object \notin objects')
      /\ e.body.type = "EVIDENCE_DELETION_INTENT" =>
            ActiveHolds(journal, e.body.id) = {}
      /\ e.body.type = "LEGAL_HOLD_PLACED" =>
            e.body.evidence \subseteq Ids(LiveCaptures(journal))
      /\ e.body.type = "EVIDENCE_DELETED" =>
            \/ e.body.id \in Ids(Intents(journal))
            \/ \E w \in Writers : pc[w] = "append" /\ e.body = todo[w]
<1>1. CASE UNCHANGED vars
  BY <1>1 DEF vars
<1>2. ASSUME NEW w \in Writers,
             \/ Begin(w) \/ \E k \in Keys : Open(w, k)
             \/ RecoverUnlink(w) \/ RecoverFail(w) \/ Collect(w) \/ Recovered(w)
             \/ ArchiveComponent(w) \/ AppendEvidence(w) \/ DeleteUnlink(w)
             \/ Reject(w) \/ IOError(w) \/ Crash(w)
      PROVE  UNCHANGED journal
  BY <1>2 DEF Begin, Open, RecoverUnlink, RecoverFail, Collect, Recovered,
       ArchiveComponent, AppendEvidence, PutObject, DeleteUnlink, Reject,
       IOError, Crash
<1>3. ASSUME NEW w \in Writers, RecoverCommit(w)
      PROVE  \E e \in Event : Good(e)
  <2>1. PICK intent \in Pending(journal) :
            /\ intent.physical => intent.object \notin objects
            /\ journal' = Signed(w, CommitBody(intent))
            /\ objects' = objects
    BY <1>3 DEF RecoverCommit
  <2>2. intent \in Body /\ intent.type = "EVIDENCE_DELETION_INTENT"
    BY BodiesTyped DEF Pending, Intents, OfType, TypeOK
  <2> DEFINE e == [signer |-> handle[w], body |-> CommitBody(intent)]
  <2>3. e \in Event
    BY <1>3, <2>2, CommitTyped
       DEF RecoverCommit, Recovering, TypeOK, ControlOK, Event
  <2>4. /\ e.body.type = "EVIDENCE_DELETED"
        /\ e.body.physical = intent.physical
        /\ e.body.object = intent.object
        /\ e.body.id \in Ids(Intents(journal))
    BY DEF CommitBody, Ids, Pending
  <2>5. Good(e)
    BY <2>1, <2>4 DEF Signed
  <2>6. QED
    BY <2>3, <2>5
<1>4. ASSUME NEW w \in Writers, DeleteIntent(w)
      PROVE  \E e \in Event : Good(e)
  <2>1. PICK capture \in Captures(journal), at \in Times, basis \in Basis,
             physical \in BOOLEAN :
          /\ RetentionStatus(journal, capture, at) = AllowedStatus(basis)
          /\ journal' = Signed(w, IntentBody(capture.id, capture.object, at, basis, physical))
    BY <1>4 DEF DeleteIntent
  <2> DEFINE intent == IntentBody(capture.id, capture.object, at, basis, physical)
             e == [signer |-> handle[w], body |-> intent]
  <2>2. capture.id \in Evidence /\ capture.object \in Objects
    BY BodiesTyped, BodyShapes DEF Captures, OfType, TypeOK
  <2>3. intent \in Body
    BY <2>2 DEF Body
  <2>4. e \in Event
    BY <1>4, <2>3 DEF DeleteIntent, TypeOK, ControlOK, Event
  <2>5. e.body.type = "EVIDENCE_DELETION_INTENT" /\ e.body.id = capture.id
    BY DEF IntentBody
  <2>6. ActiveHolds(journal, capture.id) = {}
    BY <2>1 DEF RetentionStatus, AllowedStatus
  <2>7. Good(e)
    BY <2>1, <2>5, <2>6 DEF Signed
  <2>8. QED
    BY <2>4, <2>7
<1>5. ASSUME NEW w \in Writers, AppendPrepared(w)
      PROVE  UNCHANGED journal \/ \E e \in Event : Good(e)
  <2>1. todo[w] \in Body
    BY <1>5 DEF AppendPrepared, TypeOK, ControlOK
  <2>2. \/ todo[w].type \in {"COMPONENT_ARCHIVED", "EVIDENCE_APPENDED"}
        \/ /\ todo[w].type = "EVIDENCE_DELETED"
           /\ todo[w].physical => todo[w].object \notin objects
    BY <1>5 DEF AppendPrepared, EffectsInOrder
  <2>3. objects' = objects
    BY <1>5 DEF AppendPrepared, Publish
  <2>4. UNCHANGED journal \/ \E e \in Event : e.body = todo[w] /\ journal' = Append(journal, e)
    BY <1>5, <2>1, PublishAppends DEF AppendPrepared
  <2>5. ASSUME NEW e \in Event, e.body = todo[w], journal' = Append(journal, e)
        PROVE  Good(e)
    BY <1>5, <2>2, <2>3, <2>5 DEF AppendPrepared
  <2>6. QED
    BY <2>4, <2>5
<1>6. ASSUME NEW w \in Writers, PlaceLegalHold(w)
      PROVE  UNCHANGED journal \/ \E e \in Event : Good(e)
  <2>1. PICK h \in Holds, ids \in SUBSET Ids(LiveCaptures(journal)) :
            Publish(w, HoldBody(h, ids))
    BY <1>6 DEF PlaceLegalHold
  <2>2. HoldBody(h, ids) \in Body
    BY <2>1, IdsTyped DEF Body, TypeOK
  <2>3. UNCHANGED journal \/ \E e \in Event : e.body = HoldBody(h, ids) /\ journal' = Append(journal, e)
    BY <1>6, <2>1, <2>2, PublishAppends DEF PlaceLegalHold
  <2>4. QED
    BY <2>1, <2>3 DEF HoldBody
<1>7. ASSUME NEW w \in Writers,
             \/ CreateBundle(w) \/ ReleaseLegalHold(w)
             \/ RetireComponent(w) \/ RotateJournalAuthority(w)
      PROVE  UNCHANGED journal \/ \E e \in Event : Good(e)
  <2>1. \E b : /\ MaySign(w) => b \in Body
               /\ b.type \in {"BUNDLE_SEALED", "LEGAL_HOLD_RELEASED",
                              "COMPONENT_RETIRED", "JOURNAL_AUTHORITY_ROTATED"}
               /\ Publish(w, b)
    <3>1. CASE CreateBundle(w)
      <4>1. PICK b \in Bundles, ids \in SUBSET Ids(LiveCaptures(journal)) :
                Publish(w, BundleBody(b, ids))
        BY <3>1 DEF CreateBundle
      <4>2. BundleBody(b, ids) \in Body
        BY <4>1, IdsTyped DEF Body, TypeOK
      <4>3. BundleBody(b, ids).type = "BUNDLE_SEALED"
        BY DEF BundleBody
      <4>4. QED
        BY <4>1, <4>2, <4>3
    <3>2. CASE ReleaseLegalHold(w)
      <4>1. PICK h \in Ids(Placements(journal)) : Publish(w, ReleaseBody(h))
        BY <3>2 DEF ReleaseLegalHold
      <4>2. ReleaseBody(h) \in Body /\ ReleaseBody(h).type = "LEGAL_HOLD_RELEASED"
        BY <4>1, IdsTyped DEF Body, TypeOK, ReleaseBody
      <4>3. QED
        BY <4>1, <4>2
    <3>3. CASE RetireComponent(w)
      <4>1. PICK c \in Refs(Archives(journal)), r \in Components \cup {None},
                 claims \in SUBSET Claims : Publish(w, RetirementBody(c, r, claims))
        BY <3>3 DEF RetireComponent
      <4>2. RetirementBody(c, r, claims) \in Body
        BY <4>1, IdsTyped DEF Body, TypeOK
      <4>3. RetirementBody(c, r, claims).type = "COMPONENT_RETIRED"
        BY DEF RetirementBody
      <4>4. QED
        BY <4>1, <4>2, <4>3
    <3>4. CASE RotateJournalAuthority(w)
      <4>1. PICK k \in Keys : Publish(w, RotationBody(ActiveKey(journal), k))
        BY <3>4 DEF RotateJournalAuthority
      <4>2. MaySign(w) => RotationBody(ActiveKey(journal), k) \in Body
        BY <3>4 DEF RotateJournalAuthority, MaySign, TypeOK, ControlOK, Body
      <4>3. RotationBody(ActiveKey(journal), k).type = "JOURNAL_AUTHORITY_ROTATED"
        BY DEF RotationBody
      <4>4. QED
        BY <4>1, <4>2, <4>3
    <3>5. QED
      BY <1>7, <3>1, <3>2, <3>3, <3>4
  <2>2. PICK b : /\ MaySign(w) => b \in Body
                 /\ b.type \in {"BUNDLE_SEALED", "LEGAL_HOLD_RELEASED",
                                "COMPONENT_RETIRED", "JOURNAL_AUTHORITY_ROTATED"}
                 /\ Publish(w, b)
    BY <2>1
  <2>3. pc[w] = "body"
    BY <1>7 DEF CreateBundle, ReleaseLegalHold, RetireComponent, RotateJournalAuthority
  <2>4. UNCHANGED journal \/ \E e \in Event : e.body = b /\ journal' = Append(journal, e)
    BY <2>2, <2>3, PublishAppends
  <2>5. QED
    BY <2>2, <2>4
<1>8. QED
  BY <1>1, <1>2, <1>3, <1>4, <1>5, <1>6, <1>7 DEF Next, Recover, MethodBody

LEMMA NewTombstone ==
    ASSUME RetentionInv, [Next]_vars, NEW b \in Deletions(journal') \ Deletions(journal)
    PROVE  b.physical => b.object \notin objects'
<1>1. PICK e \in Event :
          /\ journal' = Append(journal, e)
          /\ e.body.type = "EVIDENCE_DELETED" =>
                (e.body.physical => e.body.object \notin objects')
  BY StepAppends
<1>2. b = e.body /\ b.type = "EVIDENCE_DELETED"
  <2>1. journal \in Seq(Event)
    BY DEF RetentionInv, TypeOK
  <2>2. Deletions(journal') = IF e.body.type = "EVIDENCE_DELETED"
                              THEN Deletions(journal) \cup {e.body} ELSE Deletions(journal)
    BY <1>1, <2>1, AppendOfType DEF Deletions
  <2> QED BY <2>2
<1>3. QED
  BY <1>1, <1>2

\* A signed tombstone that claims physical deletion is published only after the
\* object has left the CAS, in delete_evidence and in recovery.
THEOREM TombstonesTellTheTruth == Spec => TombstoneAfterBytes
<1>1. RetentionInv /\ [Next]_vars =>
        [\A b \in Deletions(journal') \ Deletions(journal) :
            b.physical => b.object \notin objects']_vars
  BY NewTombstone
<1>2. QED
  BY <1>1, RetentionInit, RetentionStep, PTL DEF Spec, TombstoneAfterBytes

-----------------------------------------------------------------------------
(* Legal holds. *)

LEMMA HoldsInit == Init => HoldsBlockDeletion
  BY DEF Init, HoldsBlockDeletion, Intents, Ids, OfType, Bodies

LEMMA HoldsStep ==
    ASSUME journal \in Seq(Event), HoldsBlockDeletion,
           \/ UNCHANGED journal
           \/ \E e \in Event :
                 /\ journal' = Append(journal, e)
                 /\ e.body.type = "EVIDENCE_DELETION_INTENT" =>
                       ActiveHolds(journal, e.body.id) = {}
                 /\ e.body.type = "LEGAL_HOLD_PLACED" =>
                       e.body.evidence \subseteq Ids(LiveCaptures(journal))
    PROVE  HoldsBlockDeletion'
<1>1. CASE UNCHANGED journal
  BY <1>1 DEF HoldsBlockDeletion
<1>2. CASE \E e \in Event :
              /\ journal' = Append(journal, e)
              /\ e.body.type = "EVIDENCE_DELETION_INTENT" =>
                    ActiveHolds(journal, e.body.id) = {}
              /\ e.body.type = "LEGAL_HOLD_PLACED" =>
                    e.body.evidence \subseteq Ids(LiveCaptures(journal))
  <2>1. PICK e \in Event :
              /\ journal' = Append(journal, e)
              /\ e.body.type = "EVIDENCE_DELETION_INTENT" =>
                    ActiveHolds(journal, e.body.id) = {}
              /\ e.body.type = "LEGAL_HOLD_PLACED" =>
                    e.body.evidence \subseteq Ids(LiveCaptures(journal))
    BY <1>2
  <2>2. journal \in Seq(Event)
    OBVIOUS
  <2>3. /\ Intents(journal') = IF e.body.type = "EVIDENCE_DELETION_INTENT"
                               THEN Intents(journal) \cup {e.body} ELSE Intents(journal)
        /\ Placements(journal') = IF e.body.type = "LEGAL_HOLD_PLACED"
                                  THEN Placements(journal) \cup {e.body}
                                  ELSE Placements(journal)
        /\ Releases(journal) \subseteq Releases(journal')
    BY <2>1, <2>2, AppendOfType DEF Intents, Placements, Releases
  <2>4. Ids(LiveCaptures(journal)) \cap Ids(Intents(journal)) = {}
    BY LiveMeansUnmarked DEF Ids
  <2>5. SUFFICES ASSUME NEW i \in Ids(Intents(journal')), NEW b \in ActiveHolds(journal', i)
                 PROVE  FALSE
    BY DEF HoldsBlockDeletion
  <2>6. b \in Placements(journal') /\ i \in b.evidence /\ b.id \notin Ids(Releases(journal))
    BY <2>3, <2>5 DEF ActiveHolds, Ids
  <2>7. CASE e.body.type = "LEGAL_HOLD_PLACED"
    <3>1. i \in Ids(Intents(journal))
      BY <2>3, <2>7
    <3>2. b # e.body
      BY <2>1, <2>4, <2>6, <2>7, <3>1
    <3>3. b \in ActiveHolds(journal, i)
      BY <2>3, <2>6, <2>7, <3>2 DEF ActiveHolds
    <3>4. QED
      BY <3>1, <3>3 DEF HoldsBlockDeletion
  <2>8. CASE e.body.type # "LEGAL_HOLD_PLACED"
    <3>1. b \in ActiveHolds(journal, i)
      BY <2>3, <2>6, <2>8 DEF ActiveHolds
    <3>2. i \in Ids(Intents(journal)) \/ (e.body.type = "EVIDENCE_DELETION_INTENT" /\ i = e.body.id)
      BY <2>3 DEF Ids
    <3>3. QED
      BY <2>1, <3>1, <3>2 DEF HoldsBlockDeletion
  <2>9. QED
    BY <2>7, <2>8
<1>3. QED
  BY <1>1, <1>2

\* Evidence under a legal hold that is still active has no deletion intent,
\* whichever of the two calls came first.
THEOREM HoldsAreRespected == Spec => []HoldsBlockDeletion
<1>1. RetentionInv /\ HoldsBlockDeletion /\ [Next]_vars => HoldsBlockDeletion'
  BY StepAppends, HoldsStep DEF RetentionInv, TypeOK
<1>2. QED
  BY <1>1, HoldsInit, RetentionInit, RetentionStep, PTL DEF Spec

-----------------------------------------------------------------------------
(* Who moves.  A step moves the control of one writer; inside a method that   *)
(* writer holds the lock, so every other writer is outside.                   *)

Steps(w) == \/ Begin(w) \/ \E k \in Keys : Open(w, k)
            \/ Recover(w) \/ MethodBody(w) \/ IOError(w) \/ Crash(w)

LEMMA PublishMoves ==
    ASSUME NEW w \in Writers,
           \/ AppendPrepared(w) \/ CreateBundle(w) \/ PlaceLegalHold(w)
           \/ ReleaseLegalHold(w) \/ RetireComponent(w) \/ RotateJournalAuthority(w)
    PROVE  Leave(w, "idle") /\ UNCHANGED objects
<1>1. \E b : Publish(w, b)
  BY DEF AppendPrepared, CreateBundle, PlaceLegalHold, ReleaseLegalHold,
         RetireComponent, RotateJournalAuthority
<1>2. QED
  BY <1>1 DEF Publish, Return

LEMMA PutMoves ==
    ASSUME NEW w \in Writers, ArchiveComponent(w) \/ AppendEvidence(w)
    PROVE  /\ Goto(w, "append")
           /\ objects \subseteq objects'
           /\ \E b : /\ todo' = [todo EXCEPT ![w] = b]
                     /\ b.type \in {"COMPONENT_ARCHIVED", "EVIDENCE_APPENDED"}
<1>1. CASE ArchiveComponent(w)
  <2>1. PICK c, o : PutObject(w, o, ArchiveBody(c, o))
    BY <1>1 DEF ArchiveComponent
  <2>2. ArchiveBody(c, o).type = "COMPONENT_ARCHIVED"
    BY DEF ArchiveBody
  <2>3. QED
    BY <2>1, <2>2 DEF PutObject
<1>2. CASE AppendEvidence(w)
  <2>1. PICK e, o, deps, min, due : PutObject(w, o, EvidenceBody(e, o, deps, min, due))
    BY <1>2 DEF AppendEvidence
  <2>2. EvidenceBody(e, o, deps, min, due).type = "EVIDENCE_APPENDED"
    BY DEF EvidenceBody
  <2>3. QED
    BY <2>1, <2>2 DEF PutObject
<1>3. QED
  BY <1>1, <1>2

LEMMA RaiseMoves ==
    ASSUME NEW w \in Writers, Reject(w) \/ IOError(w) \/ RecoverFail(w)
    PROVE  /\ \E label \in {"idle", "closed"} : Leave(w, label)
           /\ UNCHANGED <<journal, objects>>
  BY DEF Reject, IOError, RecoverFail, Raise

LEMMA RecoveryMoves ==
    ASSUME NEW w \in Writers, Recover(w), ~RecoverFail(w)
    PROVE  /\ pc[w] \in {"opening", "recovering"}
           /\ \/ UNCHANGED <<pc, todo>> /\ ~Recovered(w)
              \/ Recovered(w) /\ Leave(w, "idle")
              \/ Recovered(w) /\ Goto(w, "body") /\ UNCHANGED todo
  BY DEF Recover, RecoverUnlink, RecoverCommit, Collect, Recovered, Recovering, Return

\* Where a step can take the writer that moves, and what it can owe there.
LEMMA StepMoves ==
    ASSUME TypeOK, NEW w \in Writers, Steps(w)
    PROVE  /\ \A v \in Writers \ {w} : pc'[v] = pc[v] /\ todo'[v] = todo[v]
           /\ InMethod(w) \/ UNCHANGED <<journal, objects>>
           /\ pc'[w] = "body" => Recovered(w)
           /\ pc'[w] \in {"append", "unlink"} =>
                 \/ todo'[w].type \in {"COMPONENT_ARCHIVED", "EVIDENCE_APPENDED"}
                 \/ DeleteIntent(w)
                 \/ DeleteUnlink(w) /\ todo'[w] = todo[w]
<1> USE DEF TypeOK
<1>1. CASE Begin(w) \/ \E k \in Keys : Open(w, k)
  BY <1>1 DEF Begin, Open, Goto
<1>2. CASE RecoverFail(w) \/ Reject(w) \/ IOError(w)
  <2>1. PICK label \in {"idle", "closed"} : Leave(w, label)
    BY <1>2, RaiseMoves
  <2>2. UNCHANGED <<journal, objects>>
    BY <1>2, RaiseMoves
  <2>3. QED
    BY <2>1, <2>2 DEF Leave, Goto
<1>3. CASE Recover(w) /\ ~RecoverFail(w)
  <2>1. InMethod(w) /\ pc[w] \notin {"body", "append", "unlink"}
    BY <1>3, RecoveryMoves DEF InMethod
  <2>2. CASE UNCHANGED <<pc, todo>>
    BY <2>1, <2>2
  <2>3. CASE Recovered(w) /\ Leave(w, "idle")
    BY <2>1, <2>3 DEF Leave, Goto
  <2>4. CASE Recovered(w) /\ Goto(w, "body") /\ UNCHANGED todo
    BY <2>1, <2>4 DEF Goto
  <2>5. QED
    BY <1>3, <2>2, <2>3, <2>4, RecoveryMoves
<1>4. CASE \/ AppendPrepared(w) \/ CreateBundle(w) \/ PlaceLegalHold(w)
           \/ ReleaseLegalHold(w) \/ RetireComponent(w) \/ RotateJournalAuthority(w)
  <2>1. InMethod(w)
    BY <1>4 DEF AppendPrepared, CreateBundle, PlaceLegalHold, ReleaseLegalHold,
                RetireComponent, RotateJournalAuthority, InMethod
  <2>2. Leave(w, "idle")
    BY <1>4, PublishMoves
  <2>3. QED
    BY <2>1, <2>2 DEF Leave, Goto
<1>5. CASE ArchiveComponent(w) \/ AppendEvidence(w)
  <2>1. InMethod(w)
    BY <1>5 DEF ArchiveComponent, AppendEvidence, InMethod
  <2>2. PICK b : /\ todo' = [todo EXCEPT ![w] = b]
                 /\ b.type \in {"COMPONENT_ARCHIVED", "EVIDENCE_APPENDED"}
    BY <1>5, PutMoves
  <2>3. Goto(w, "append")
    BY <1>5, PutMoves
  <2>4. QED
    BY <2>1, <2>2, <2>3 DEF Goto
<1>6. CASE DeleteIntent(w)
  <2>1. /\ \E label \in {"unlink", "append"} : Goto(w, label)
        /\ \E b : todo' = [todo EXCEPT ![w] = b]
    BY <1>6 DEF DeleteIntent
  <2>2. InMethod(w)
    BY <1>6 DEF DeleteIntent, InMethod
  <2>3. QED
    BY <1>6, <2>1, <2>2 DEF Goto
<1>7. CASE DeleteUnlink(w)
  BY <1>7 DEF DeleteUnlink, Goto, InMethod
<1>8. CASE Crash(w)
  BY <1>8 DEF Crash, Goto
<1>9. QED
  BY <1>1, <1>2, <1>3, <1>4, <1>5, <1>6, <1>7, <1>8 DEF Steps, Recover, MethodBody

LEMMA NextSteps == Next => \E w \in Writers : Steps(w)
  BY DEF Next, Steps

-----------------------------------------------------------------------------
(* Clean bodies: a writer enters a method body only from a recovery that has  *)
(* nothing left to do, and while it is there nobody else touches the disk.    *)

LEMMA CleanStep ==
    ASSUME RetentionInv, CleanBeforeBody, [Next]_vars
    PROVE  CleanBeforeBody'
<1> USE DEF RetentionInv
<1>1. CASE UNCHANGED vars
  BY <1>1 DEF vars, CleanBeforeBody
<1>2. CASE Next
  <2>1. PICK w \in Writers : Steps(w)
    BY <1>2, NextSteps
  <2>2. SUFFICES ASSUME NEW v \in Writers, pc'[v] = "body"
                 PROVE  (Pending(journal) = {} /\ objects = Retained(journal))'
    BY DEF CleanBeforeBody
  <2>3. CASE v = w
    <3>1. Recovered(w)
      BY <2>1, <2>2, <2>3, StepMoves
    <3>2. /\ Pending(journal) = {}
          /\ objects \subseteq Retained(journal)
          /\ UNCHANGED <<journal, objects>>
      BY <3>1 DEF Recovered
    <3>3. QED
      BY <3>2 DEF LiveObjectsRetained
  <2>4. CASE v # w
    <3>1. pc[v] = "body"
      BY <2>1, <2>2, <2>4, StepMoves
    <3>2. ~InMethod(w)
      BY <2>4, <3>1 DEF TypeOK, ControlOK, InMethod
    <3>3. UNCHANGED <<journal, objects>>
      BY <2>1, <3>2, StepMoves
    <3>4. QED
      BY <3>1, <3>3 DEF CleanBeforeBody
  <2>5. QED
    BY <2>3, <2>4
<1>3. QED
  BY <1>1, <1>2

\* Whatever a crash or an I/O error has left behind is gone before the next
\* mutation looks at the vault: its body runs with no deletion pending and with
\* exactly the referenced objects in the CAS.
THEOREM BodiesRunClean == Spec => []CleanBeforeBody
<1>1. Init => CleanBeforeBody
  BY DEF Init, CleanBeforeBody
<1>2. QED
  BY <1>1, RetentionInit, RetentionStep, CleanStep, PTL DEF Spec

-----------------------------------------------------------------------------
(* Loss: every tombstone, published or still owed, follows an intent for the  *)
(* same evidence, so that evidence which is no longer live has an intent.     *)

DeletionsIntended ==
    /\ Ids(Deletions(journal)) \subseteq Ids(Intents(journal))
    /\ \A w \in Writers :
          pc[w] \in {"append", "unlink"} /\ todo[w].type = "EVIDENCE_DELETED" =>
              todo[w].id \in Ids(Intents(journal))

LEMMA IntentsGrow ==
    ASSUME RetentionInv, [Next]_vars
    PROVE  Ids(Intents(journal)) \subseteq Ids(Intents(journal'))
<1>1. CASE UNCHANGED journal
  BY <1>1
<1>2. CASE \E e \in Event : journal' = Append(journal, e)
  BY <1>2, AppendOfType DEF Intents, Ids, RetentionInv, TypeOK
<1>3. QED
  BY <1>1, <1>2, StepAppends

LEMMA OwedAfterIntent ==
    ASSUME TypeOK, NEW w \in Writers, DeleteIntent(w)
    PROVE  todo'[w].id \in Ids(Intents(journal'))
<1>1. PICK capture \in Captures(journal), at \in Times, basis \in Basis,
           physical \in BOOLEAN :
          LET intent == IntentBody(capture.id, capture.object, at, basis, physical)
          IN  /\ journal' = Signed(w, intent)
              /\ todo' = [todo EXCEPT ![w] = CommitBody(intent)]
  BY DEF DeleteIntent
<1> DEFINE intent == IntentBody(capture.id, capture.object, at, basis, physical)
           e == [signer |-> handle[w], body |-> intent]
<1>2. capture.id \in Evidence /\ capture.object \in Objects
  BY BodiesTyped, BodyShapes DEF Captures, OfType, TypeOK
<1>3. intent \in Body
  BY <1>2 DEF Body
<1>4. e \in Event /\ e.body = intent
  BY <1>3 DEF DeleteIntent, TypeOK, ControlOK, Event
<1>5. intent.type = "EVIDENCE_DELETION_INTENT" /\ intent.id = capture.id
  BY DEF IntentBody
<1>6. intent \in Intents(journal')
  BY <1>1, <1>4, <1>5, AppendOfType DEF Signed, Intents, TypeOK
<1>7. todo'[w].id = intent.id
  BY <1>1 DEF CommitBody, TypeOK
<1>8. QED
  BY <1>6, <1>7 DEF Ids

LEMMA IntendedStep ==
    ASSUME RetentionInv, DeletionsIntended, [Next]_vars
    PROVE  DeletionsIntended'
<1>1. Ids(Deletions(journal')) \subseteq Ids(Intents(journal'))
  <2>1. CASE UNCHANGED journal
    BY <2>1 DEF DeletionsIntended
  <2>2. CASE \E e \in Event :
                /\ journal' = Append(journal, e)
                /\ e.body.type = "EVIDENCE_DELETED" =>
                      \/ e.body.id \in Ids(Intents(journal))
                      \/ \E w \in Writers : pc[w] = "append" /\ e.body = todo[w]
    <3>1. PICK e \in Event :
                /\ journal' = Append(journal, e)
                /\ e.body.type = "EVIDENCE_DELETED" =>
                      \/ e.body.id \in Ids(Intents(journal))
                      \/ \E w \in Writers : pc[w] = "append" /\ e.body = todo[w]
      BY <2>2
    <3>2. e.body.type = "EVIDENCE_DELETED" => e.body.id \in Ids(Intents(journal))
      BY <3>1 DEF DeletionsIntended
    <3>3. Deletions(journal') = IF e.body.type = "EVIDENCE_DELETED"
                                THEN Deletions(journal) \cup {e.body}
                                ELSE Deletions(journal)
      BY <3>1, AppendOfType DEF Deletions, RetentionInv, TypeOK
    <3>4. Ids(Deletions(journal')) \subseteq Ids(Intents(journal))
      BY <3>2, <3>3 DEF DeletionsIntended, Ids
    <3>5. QED
      BY <3>4, IntentsGrow
  <2>3. QED
    BY <2>1, <2>2, StepAppends
<1>2. ASSUME NEW v \in Writers, pc'[v] \in {"append", "unlink"},
             todo'[v].type = "EVIDENCE_DELETED"
      PROVE  todo'[v].id \in Ids(Intents(journal'))
  <2>1. CASE UNCHANGED vars
    BY <1>2, <2>1 DEF vars, DeletionsIntended
  <2>2. CASE Next
    <3>1. PICK w \in Writers : Steps(w)
      BY <2>2, NextSteps
    <3>2. CASE v # w
      BY <1>2, <3>1, <3>2, StepMoves, IntentsGrow DEF DeletionsIntended, RetentionInv
    <3>3. CASE v = w /\ DeleteIntent(w)
      BY <3>3, OwedAfterIntent DEF RetentionInv
    <3>4. CASE v = w /\ DeleteUnlink(w) /\ todo'[w] = todo[w]
      BY <1>2, <3>4, IntentsGrow DEF DeletionsIntended, DeleteUnlink
    <3>5. QED
      BY <1>2, <3>1, <3>2, <3>3, <3>4, StepMoves DEF RetentionInv
  <2>3. QED
    BY <2>1, <2>2
<1>3. QED
  BY <1>1, <1>2 DEF DeletionsIntended

\* An object nothing retains is one whose captures all have an intent.
LEMMA UnretainedIsIntended ==
    ASSUME DeletionsIntended, NEW o, o \notin Retained(journal)
    PROVE  /\ \A b \in Captures(journal) : b.object = o => b.id \in Ids(Intents(journal))
           /\ \A b \in Archives(journal) : b.object # o
<1>1. \A b \in LiveCaptures(journal) \cup Archives(journal) : b.object # o
  BY DEF Retained
<1>2. \A b \in Captures(journal) \ LiveCaptures(journal) : b.id \in Ids(Intents(journal))
  BY LiveMeansUnmarked DEF DeletionsIntended
<1>3. QED
  BY <1>1, <1>2

LEMMA UnlinkedIsUnretained ==
    ASSUME RetentionInv, [Next]_vars, NEW o \in objects \ objects'
    PROVE  o \notin Retained(journal)
<1> USE DEF RetentionInv
<1>1. CASE UNCHANGED vars
  BY <1>1 DEF vars
<1>2. CASE Next
  <2>1. PICK w \in Writers : Steps(w)
    BY <1>2, NextSteps
  <2>2. CASE RecoverUnlink(w)
    <3>1. PICK intent \in Pending(journal) :
              ~Conflict(intent) /\ intent.physical /\ objects' = objects \ {intent.object}
      BY <2>2 DEF RecoverUnlink
    <3>2. QED
      BY <3>1, RetainedWhilePending DEF Conflict
  <2>3. CASE Collect(w)
    BY <2>3 DEF Collect
  <2>4. CASE DeleteUnlink(w)
    <3>1. pc[w] = "unlink" /\ objects' = objects \ {todo[w].object}
      BY <2>4 DEF DeleteUnlink
    <3>2. QED
      BY <3>1 DEF EffectsInOrder
  <2>5. CASE ArchiveComponent(w) \/ AppendEvidence(w)
    BY <2>5, PutMoves
  <2>6. CASE \/ AppendPrepared(w) \/ CreateBundle(w) \/ PlaceLegalHold(w)
             \/ ReleaseLegalHold(w) \/ RetireComponent(w) \/ RotateJournalAuthority(w)
    BY <2>6, PublishMoves
  <2>7. CASE RecoverFail(w) \/ Reject(w) \/ IOError(w)
    BY <2>7, RaiseMoves
  <2>8. CASE \/ Begin(w) \/ \E k \in Keys : Open(w, k)
             \/ RecoverCommit(w) \/ Recovered(w) \/ DeleteIntent(w) \/ Crash(w)
    BY <2>8 DEF Begin, Open, RecoverCommit, Recovered, DeleteIntent, Crash
  <2>9. QED
    BY <2>1, <2>2, <2>3, <2>4, <2>5, <2>6, <2>7, <2>8 DEF Steps, Recover, MethodBody
<1>3. QED
  BY <1>1, <1>2

\* Bytes never leave the CAS unexplained: not in delete_evidence, not in the
\* recovery of a pending deletion and not as residue of a crash.
THEOREM LossIsExplained == Spec => NoUnexplainedLoss
<1>1. Init => DeletionsIntended
  BY DEF Init, DeletionsIntended, Deletions, OfType, Bodies, Ids
<1>2. RetentionInv /\ DeletionsIntended /\ [Next]_vars =>
        [\A o \in objects \ objects' :
          /\ \A b \in Captures(journal) : b.object = o => b.id \in Ids(Intents(journal))
          /\ \A b \in Archives(journal) : b.object # o]_vars
  BY UnlinkedIsUnretained, UnretainedIsIntended
<1>3. QED
  BY <1>1, <1>2, RetentionInit, RetentionStep, IntendedStep, PTL
     DEF Spec, NoUnexplainedLoss

(***************************************************************************)
(* The journal: who signs an event, what its predecessors say, and that    *)
(* replay() accepts it.  The lemmas speak of any step that grows the       *)
(* journal as the methods of EvidenceVault do, so that VaultRuntimes can   *)
(* use them as well.                                                       *)
(***************************************************************************)

(* Prefixes of a journal that grows at its end. *)

LEMMA JournalGrows ==
    ASSUME NEW j \in Seq(Event), NEW e \in Event
    PROVE  /\ Append(j, e) \in Seq(Event)
           /\ DOMAIN Append(j, e) = DOMAIN j \cup {Len(j) + 1}
           /\ Append(j, e)[Len(j) + 1] = e
           /\ Before(Append(j, e), Len(j) + 1) = j
           /\ \A i \in DOMAIN j : /\ i # Len(j) + 1
                                  /\ Append(j, e)[i] = j[i]
                                  /\ Before(Append(j, e), i) = Before(j, i)
<1> DEFINE k == Append(j, e)
<1>1. /\ k \in Seq(Event)
      /\ Len(k) = Len(j) + 1
      /\ DOMAIN j = 1 .. Len(j)
      /\ DOMAIN k = 1 .. Len(j) + 1
      /\ \A i \in 1 .. Len(j) : k[i] = j[i]
      /\ k[Len(j) + 1] = e
      /\ Len(j) \in Nat
  OBVIOUS
<1>2. ASSUME NEW i \in 1 .. Len(j) + 1
      PROVE  /\ Before(k, i) = [n \in 1 .. i - 1 |-> j[n]]
             /\ i \in DOMAIN j => Before(j, i) = [n \in 1 .. i - 1 |-> j[n]]
  <2>1. /\ SubSeq(k, 1, i - 1) = [n \in 1 .. i - 1 |-> k[n]]
        /\ SubSeq(j, 1, i - 1) = [n \in 1 .. i - 1 |-> j[n]]
    BY <1>1, <1>2
  <2>2. \A n \in 1 .. i - 1 : k[n] = j[n]
    BY <1>1, <1>2
  <2>3. QED
    BY <2>1, <2>2 DEF Before
<1>3. Before(k, Len(j) + 1) = j
  <2>1. j = [n \in 1 .. Len(j) |-> j[n]]
    BY <1>1
  <2>2. (Len(j) + 1) - 1 = Len(j) /\ Len(j) + 1 \in 1 .. Len(j) + 1
    BY <1>1
  <2>3. Before(k, Len(j) + 1) = [n \in 1 .. (Len(j) + 1) - 1 |-> j[n]]
    BY <1>2, <2>2
  <2>4. QED
    BY <2>1, <2>2, <2>3
<1>4. ASSUME NEW i \in DOMAIN j PROVE Before(k, i) = Before(j, i)
  <2>1. i \in 1 .. Len(j) + 1
    BY <1>1, <1>4
  <2>2. QED
    BY <1>2, <2>1
<1>5. DOMAIN k = DOMAIN j \cup {Len(j) + 1}
  BY <1>1
<1>6. QED
  BY <1>1, <1>3, <1>4, <1>5

-----------------------------------------------------------------------------
(* What is known of an event when it is published. *)

LEMMA PublishSigns ==
    ASSUME TypeOK, NEW w \in Writers, InMethod(w), NEW b, MaySign(w) => b \in Body,
           Publish(w, b)
    PROVE  \/ UNCHANGED journal
           \/ \E e \in Event : /\ e.body = b
                               /\ e.signer = ActiveKey(journal)
                               /\ journal' = Append(journal, e)
<1>1. CASE MaySign(w)
  <2> DEFINE e == [signer |-> handle[w], body |-> b]
  <2>1. e \in Event /\ e.body = b /\ e.signer = ActiveKey(journal)
    BY <1>1 DEF TypeOK, ControlOK, InMethod, Event, MaySign
  <2>2. QED
    BY <1>1, <2>1 DEF Publish, Signed
<1>2. CASE ~MaySign(w)
  BY <1>2 DEF Publish
<1>3. QED
  BY <1>1, <1>2

\* The origins of an event: it was owed, it ends a pending deletion, or the
\* method that publishes it has just checked it against the journal.
Origin(b) ==
    \/ \E w \in Writers : pc[w] = "append" /\ b = todo[w]
    \/ \E intent \in Pending(journal) : b = CommitBody(intent)
    \/ /\ \E w \in Writers : pc[w] = "body"
       /\ b.type = "EVIDENCE_DELETION_INTENT"
       /\ b.id \in Ids(Captures(journal)) \
                   (Ids(Deletions(journal)) \cup Ids(Pending(journal)))
       /\ ActiveHolds(journal, b.id) = {}
    \/ /\ \E w \in Writers : pc[w] = "body"
       /\ b.type \in {"BUNDLE_SEALED", "LEGAL_HOLD_PLACED", "LEGAL_HOLD_RELEASED",
                      "JOURNAL_AUTHORITY_ROTATED"}
       /\ Accepts(journal, b)
       /\ b.type \in {"BUNDLE_SEALED", "LEGAL_HOLD_PLACED"} =>
             b.evidence \in (SUBSET Ids(LiveCaptures(journal))) \ {{}}
    \/ /\ \E w \in Writers : pc[w] = "body"
       /\ b.type = "COMPONENT_RETIRED"
       /\ b.ref \in Refs(Archives(journal)) \ Refs(Retirements(journal))
       /\ b.claims \subseteq Claims
       /\ b.replacement # None =>
             /\ b.replacement \in Refs(Archives(journal)) \
                                  (Refs(Retirements(journal)) \cup {b.ref})
             /\ KindOf[b.replacement] = KindOf[b.ref]

LEMMA BodyOrigins ==
    ASSUME TypeOK, NEW w \in Writers,
           \/ AppendPrepared(w) \/ CreateBundle(w) \/ PlaceLegalHold(w)
           \/ ReleaseLegalHold(w) \/ RetireComponent(w) \/ RotateJournalAuthority(w)
    PROVE  \E b : /\ Publish(w, b)
                  /\ MaySign(w) => b \in Body
                  /\ Origin(b)
<1>1. CASE AppendPrepared(w)
  <2>1. todo[w] \in Body
    BY <1>1 DEF AppendPrepared, TypeOK, ControlOK
  <2>2. Publish(w, todo[w]) /\ pc[w] = "append"
    BY <1>1 DEF AppendPrepared
  <2>3. QED
    BY <2>1, <2>2 DEF Origin
<1>2. CASE CreateBundle(w)
  <2>1. PICK b \in Bundles \ Ids(Seals(journal)), ids \in (SUBSET Ids(LiveCaptures(journal))) \ {{}} :
            Publish(w, BundleBody(b, ids))
    BY <1>2 DEF CreateBundle
  <2>2. BundleBody(b, ids) \in Body
    BY <2>1, IdsTyped DEF Body, TypeOK
  <2>3. Origin(BundleBody(b, ids))
    BY <1>2, <2>1 DEF Origin, Accepts, BundleBody, CreateBundle
  <2>4. QED
    BY <2>1, <2>2, <2>3
<1>3. CASE PlaceLegalHold(w)
  <2>1. PICK h \in Holds \ Ids(Placements(journal)), ids \in (SUBSET Ids(LiveCaptures(journal))) \ {{}} :
            Publish(w, HoldBody(h, ids))
    BY <1>3 DEF PlaceLegalHold
  <2>2. HoldBody(h, ids) \in Body
    BY <2>1, IdsTyped DEF Body, TypeOK
  <2>3. Origin(HoldBody(h, ids))
    BY <1>3, <2>1 DEF Origin, Accepts, HoldBody, PlaceLegalHold
  <2>4. QED
    BY <2>1, <2>2, <2>3
<1>4. CASE ReleaseLegalHold(w)
  <2>1. PICK h \in Ids(Placements(journal)) \ Ids(Releases(journal)) :
            Publish(w, ReleaseBody(h))
    BY <1>4 DEF ReleaseLegalHold
  <2>2. ReleaseBody(h) \in Body
    BY <2>1, IdsTyped DEF Body, TypeOK
  <2>3. Origin(ReleaseBody(h))
    BY <1>4, <2>1 DEF Origin, Accepts, ReleaseBody, ReleaseLegalHold
  <2>4. QED
    BY <2>1, <2>2, <2>3
<1>5. CASE RetireComponent(w)
  <2>1. PICK c \in Refs(Archives(journal)) \ Refs(Retirements(journal)),
             r \in Components \cup {None}, claims \in SUBSET Claims :
            /\ r # None =>
                  /\ r \in Refs(Archives(journal)) \ (Refs(Retirements(journal)) \cup {c})
                  /\ KindOf[r] = KindOf[c]
            /\ Publish(w, RetirementBody(c, r, claims))
    BY <1>5 DEF RetireComponent
  <2>2. RetirementBody(c, r, claims) \in Body
    <3>1. c \in Components
      BY IdsTyped DEF TypeOK
    <3>2. QED
      BY <3>1 DEF Body
  <2>3. Origin(RetirementBody(c, r, claims))
    BY <1>5, <2>1 DEF Origin, RetirementBody, RetireComponent
  <2>4. QED
    BY <2>1, <2>2, <2>3
<1>6. CASE RotateJournalAuthority(w)
  <2>1. PICK k \in Keys \ KeyHistory(journal) :
            Publish(w, RotationBody(ActiveKey(journal), k))
    BY <1>6 DEF RotateJournalAuthority
  <2>2. MaySign(w) => RotationBody(ActiveKey(journal), k) \in Body
    BY <1>6 DEF RotateJournalAuthority, MaySign, TypeOK, ControlOK, Body
  <2>3. Origin(RotationBody(ActiveKey(journal), k))
    BY <1>6, <2>1 DEF Origin, Accepts, RotationBody, RotateJournalAuthority
  <2>4. QED
    BY <2>1, <2>2, <2>3
<1>7. QED
  BY <1>1, <1>2, <1>3, <1>4, <1>5, <1>6

\* The deletion intent, with what delete_evidence has decided before it.
LEMMA IntentPublished ==
    ASSUME TypeOK, NEW w \in Writers, DeleteIntent(w)
    PROVE  \E e \in Event :
              /\ journal' = Append(journal, e)
              /\ e.signer = ActiveKey(journal)
              /\ e.body.type = "EVIDENCE_DELETION_INTENT"
              /\ Origin(e.body)
              /\ todo'[w] = CommitBody(e.body)
<1>1. PICK capture \in Captures(journal), at \in Times, basis \in Basis,
           physical \in BOOLEAN :
          LET intent == IntentBody(capture.id, capture.object, at, basis, physical)
          IN  /\ RetentionStatus(journal, capture, at) = AllowedStatus(basis)
              /\ journal' = Signed(w, intent)
              /\ todo' = [todo EXCEPT ![w] = CommitBody(intent)]
  BY DEF DeleteIntent
<1> DEFINE intent == IntentBody(capture.id, capture.object, at, basis, physical)
           e == [signer |-> handle[w], body |-> intent]
<1>2. capture.id \in Evidence /\ capture.object \in Objects
  BY BodiesTyped, BodyShapes DEF Captures, OfType, TypeOK
<1>3. intent \in Body
  BY <1>2 DEF Body
<1>4. e \in Event /\ e.body = intent /\ e.signer = ActiveKey(journal)
  BY <1>3 DEF DeleteIntent, TypeOK, ControlOK, Event, MaySign
<1>5. intent.type = "EVIDENCE_DELETION_INTENT" /\ intent.id = capture.id
  BY DEF IntentBody
<1>6. /\ capture.id \notin Ids(Deletions(journal)) \cup Ids(Pending(journal))
      /\ ActiveHolds(journal, capture.id) = {}
  BY <1>1 DEF RetentionStatus, AllowedStatus
<1>7. capture.id \in Ids(Captures(journal))
  BY DEF Ids
<1>8. Origin(intent)
  BY <1>5, <1>6, <1>7 DEF Origin, DeleteIntent
<1>9. todo'[w] = CommitBody(intent) /\ journal' = Append(journal, e)
  BY <1>1 DEF TypeOK, Signed
<1>10. QED
  BY <1>4, <1>5, <1>8, <1>9

\* The one way in which the journal changes.
Grows ==
    \/ UNCHANGED journal
    \/ \E e \in Event : /\ journal' = Append(journal, e)
                        /\ e.signer = ActiveKey(journal)
                        /\ Origin(e.body)

LEMMA StepOrigins ==
    ASSUME TypeOK, [Next]_vars
    PROVE  Grows
<1> USE DEF Grows
<1>1. CASE UNCHANGED vars
  BY <1>1 DEF vars
<1>2. CASE Next
  <2>1. PICK w \in Writers : Steps(w)
    BY <1>2, NextSteps
  <2>2. CASE \/ Begin(w) \/ \E k \in Keys : Open(w, k)
             \/ RecoverUnlink(w) \/ RecoverFail(w) \/ Collect(w) \/ Recovered(w)
             \/ ArchiveComponent(w) \/ AppendEvidence(w) \/ DeleteUnlink(w)
             \/ Reject(w) \/ IOError(w) \/ Crash(w)
    BY <2>2 DEF Begin, Open, RecoverUnlink, RecoverFail, Collect, Recovered,
         ArchiveComponent, AppendEvidence, PutObject, DeleteUnlink, Reject,
         IOError, Crash
  <2>3. CASE RecoverCommit(w)
    <3>1. PICK intent \in Pending(journal) : journal' = Signed(w, CommitBody(intent))
      BY <2>3 DEF RecoverCommit
    <3>2. intent \in Body /\ intent.type = "EVIDENCE_DELETION_INTENT"
      BY BodiesTyped DEF Pending, Intents, OfType, TypeOK
    <3> DEFINE e == [signer |-> handle[w], body |-> CommitBody(intent)]
    <3>3. e \in Event /\ e.signer = ActiveKey(journal) /\ e.body = CommitBody(intent)
      BY <2>3, <3>2, CommitTyped
         DEF RecoverCommit, Recovering, TypeOK, ControlOK, Event, MaySign
    <3>4. QED
      BY <3>1, <3>3 DEF Signed, Origin
  <2>4. CASE DeleteIntent(w)
    BY <2>4, IntentPublished
  <2>5. CASE \/ AppendPrepared(w) \/ CreateBundle(w) \/ PlaceLegalHold(w)
             \/ ReleaseLegalHold(w) \/ RetireComponent(w) \/ RotateJournalAuthority(w)
    <3>1. PICK b : Publish(w, b) /\ (MaySign(w) => b \in Body) /\ Origin(b)
      BY <2>5, BodyOrigins
    <3>2. InMethod(w)
      BY <2>5 DEF AppendPrepared, CreateBundle, PlaceLegalHold, ReleaseLegalHold,
                  RetireComponent, RotateJournalAuthority, InMethod
    <3>3. QED
      BY <3>1, <3>2, PublishSigns
  <2>6. QED
    BY <2>1, <2>2, <2>3, <2>4, <2>5 DEF Steps, Recover, MethodBody
<1>3. QED
  BY <1>1, <1>2

-----------------------------------------------------------------------------
(* What a writer owes stays publishable: only it can change the journal. *)

OwedEvents ==
    \A w \in Writers : pc[w] \in {"append", "unlink"} =>
        /\ todo[w].type = "COMPONENT_ARCHIVED" =>
              /\ todo[w].ref \notin Refs(Archives(journal))
              /\ Pending(journal) = {}
        /\ todo[w].type = "EVIDENCE_APPENDED" =>
              /\ todo[w].id \notin Ids(Captures(journal))
              /\ todo[w].deps \subseteq Refs(Archives(journal)) \ Refs(Retirements(journal))
              /\ DependencyKinds # {} => todo[w].deps # {}
              /\ Pending(journal) = {}
        /\ todo[w].type = "EVIDENCE_DELETED" =>
              \E intent \in Pending(journal) : todo[w] = CommitBody(intent)

IntentsCaptured == Ids(Intents(journal)) \subseteq Ids(Captures(journal))

HoldsNamed ==
    /\ Ids(Releases(journal)) \subseteq Ids(Placements(journal))
    /\ \A b \in Placements(journal) : b.evidence # {}

\* What makes the next event a good one.
JournalInv ==
    /\ RetentionInv
    /\ CleanBeforeBody
    /\ DeletionsIntended
    /\ OwedEvents
    /\ IntentsCaptured
    /\ HoldsNamed

LEMMA PutOwes ==
    ASSUME TypeOK, NEW w \in Writers, ArchiveComponent(w) \/ AppendEvidence(w)
    PROVE  /\ UNCHANGED journal
           /\ \/ /\ todo'[w].type = "COMPONENT_ARCHIVED"
                 /\ todo'[w].ref \notin Refs(Archives(journal))
              \/ /\ todo'[w].type = "EVIDENCE_APPENDED"
                 /\ todo'[w].id \notin Ids(Captures(journal))
                 /\ todo'[w].deps \subseteq
                       Refs(Archives(journal)) \ Refs(Retirements(journal))
                 /\ DependencyKinds # {} => todo'[w].deps # {}
<1>1. CASE ArchiveComponent(w)
  <2>1. PICK c \in Components \ Refs(Archives(journal)), o \in Objects :
            PutObject(w, o, ArchiveBody(c, o))
    BY <1>1 DEF ArchiveComponent
  <2>2. UNCHANGED journal /\ todo'[w] = ArchiveBody(c, o)
    BY <2>1 DEF PutObject, TypeOK
  <2>3. QED
    BY <2>1, <2>2 DEF ArchiveBody
<1>2. CASE AppendEvidence(w)
  <2>1. PICK e \in Evidence \ Ids(Captures(journal)), o \in Objects,
             deps \in SUBSET Components, min \in Times, due \in Times :
            Eligible(journal, deps) /\ PutObject(w, o, EvidenceBody(e, o, deps, min, due))
    BY <1>2 DEF AppendEvidence
  <2>2. UNCHANGED journal /\ todo'[w] = EvidenceBody(e, o, deps, min, due)
    BY <2>1 DEF PutObject, TypeOK
  <2>3. QED
    BY <2>1, <2>2 DEF EvidenceBody, Eligible
<1>3. QED
  BY <1>1, <1>2

LEMMA DeletionOwes ==
    ASSUME TypeOK, NEW w \in Writers, DeleteIntent(w)
    PROVE  /\ todo'[w].type = "EVIDENCE_DELETED"
           /\ \E intent \in Pending(journal') : todo'[w] = CommitBody(intent)
<1>1. PICK e \in Event : /\ journal' = Append(journal, e)
                         /\ e.body.type = "EVIDENCE_DELETION_INTENT"
                         /\ Origin(e.body)
                         /\ todo'[w] = CommitBody(e.body)
  BY IntentPublished
<1>2. pc[w] = "body" /\ lock = w
  BY DEF DeleteIntent, TypeOK, ControlOK, InMethod
<1>3. \A v \in Writers : pc[v] # "append"
  BY <1>2 DEF TypeOK, ControlOK, InMethod
<1>4. \A intent : CommitBody(intent).type = "EVIDENCE_DELETED"
  BY DEF CommitBody
<1>5. e.body.id \notin Ids(Deletions(journal))
  BY <1>1, <1>3, <1>4 DEF Origin
<1>6. /\ Deletions(journal') = Deletions(journal)
      /\ e.body \in Intents(journal')
  BY <1>1, AppendOfType DEF Deletions, Intents, TypeOK
<1>7. e.body \in Pending(journal')
  BY <1>5, <1>6 DEF Pending
<1>8. QED
  BY <1>1, <1>4, <1>7

LEMMA OwedStep ==
    ASSUME RetentionInv, CleanBeforeBody, OwedEvents, [Next]_vars
    PROVE  OwedEvents'
<1> USE DEF RetentionInv
<1>1. CASE UNCHANGED vars
  BY <1>1 DEF vars, OwedEvents
<1>2. CASE Next
  <2>1. PICK w \in Writers : Steps(w)
    BY <1>2, NextSteps
  <2>2. ASSUME NEW v \in Writers, pc'[v] \in {"append", "unlink"},
               pc[v] \in {"append", "unlink"}, todo'[v] = todo[v], UNCHANGED journal
        PROVE  /\ todo'[v].type = "COMPONENT_ARCHIVED" =>
                     /\ todo'[v].ref \notin Refs(Archives(journal'))
                     /\ Pending(journal') = {}
               /\ todo'[v].type = "EVIDENCE_APPENDED" =>
                     /\ todo'[v].id \notin Ids(Captures(journal'))
                     /\ todo'[v].deps \subseteq
                           Refs(Archives(journal')) \ Refs(Retirements(journal'))
                     /\ DependencyKinds # {} => todo'[v].deps # {}
                     /\ Pending(journal') = {}
               /\ todo'[v].type = "EVIDENCE_DELETED" =>
                     \E intent \in Pending(journal') : todo'[v] = CommitBody(intent)
    BY <2>2 DEF OwedEvents
  <2>3. SUFFICES ASSUME NEW v \in Writers, pc'[v] \in {"append", "unlink"}
        PROVE  /\ todo'[v].type = "COMPONENT_ARCHIVED" =>
                     /\ todo'[v].ref \notin Refs(Archives(journal'))
                     /\ Pending(journal') = {}
               /\ todo'[v].type = "EVIDENCE_APPENDED" =>
                     /\ todo'[v].id \notin Ids(Captures(journal'))
                     /\ todo'[v].deps \subseteq
                           Refs(Archives(journal')) \ Refs(Retirements(journal'))
                     /\ DependencyKinds # {} => todo'[v].deps # {}
                     /\ Pending(journal') = {}
               /\ todo'[v].type = "EVIDENCE_DELETED" =>
                     \E intent \in Pending(journal') : todo'[v] = CommitBody(intent)
    BY DEF OwedEvents
  <2>4. CASE v # w
    <3>1. pc[v] = pc'[v] /\ todo'[v] = todo[v]
      BY <2>1, <2>4, StepMoves
    <3>2. ~InMethod(w)
      BY <2>3, <2>4, <3>1 DEF TypeOK, ControlOK, InMethod
    <3>3. UNCHANGED journal
      BY <2>1, <3>2, StepMoves
    <3>4. QED
      BY <2>2, <2>3, <3>1, <3>3
  <2>5. CASE v = w /\ (ArchiveComponent(w) \/ AppendEvidence(w))
    <3>1. \/ /\ todo'[w].type = "COMPONENT_ARCHIVED"
             /\ todo'[w].ref \notin Refs(Archives(journal))
          \/ /\ todo'[w].type = "EVIDENCE_APPENDED"
             /\ todo'[w].id \notin Ids(Captures(journal))
             /\ todo'[w].deps \subseteq
                   Refs(Archives(journal)) \ Refs(Retirements(journal))
             /\ DependencyKinds # {} => todo'[w].deps # {}
      BY <2>5, PutOwes
    <3>2. UNCHANGED journal
      BY <2>5, PutOwes
    <3>3. Pending(journal) = {}
      BY <2>5 DEF ArchiveComponent, AppendEvidence, CleanBeforeBody
    <3>4. QED
      BY <2>5, <3>1, <3>2, <3>3
  <2>6. CASE v = w /\ DeleteIntent(w)
    BY <2>6, DeletionOwes
  <2>7. CASE v = w /\ DeleteUnlink(w)
    BY <2>2, <2>3, <2>7 DEF DeleteUnlink
  <2>8. CASE v = w /\ ~(\/ ArchiveComponent(w) \/ AppendEvidence(w)
                        \/ DeleteIntent(w) \/ DeleteUnlink(w))
    <3>1. CASE Begin(w) \/ (\E k \in Keys : Open(w, k)) \/ Crash(w)
      BY <2>3, <2>8, <3>1 DEF Begin, Open, Crash, Goto, TypeOK
    <3>2. CASE RecoverFail(w) \/ Reject(w) \/ IOError(w)
      <4>1. \E label \in {"idle", "closed"} : Leave(w, label)
        BY <3>2, RaiseMoves
      <4>2. QED
        BY <2>3, <2>8, <4>1 DEF Leave, Goto, TypeOK
    <3>3. CASE Recover(w) /\ ~RecoverFail(w)
      <4>1. pc[w] \in {"opening", "recovering"}
        BY <3>3, RecoveryMoves
      <4>2. UNCHANGED pc \/ Leave(w, "idle") \/ Goto(w, "body")
        BY <3>3, RecoveryMoves
      <4>3. QED
        BY <2>3, <2>8, <4>1, <4>2 DEF Leave, Goto, TypeOK
    <3>4. CASE \/ AppendPrepared(w) \/ CreateBundle(w) \/ PlaceLegalHold(w)
               \/ ReleaseLegalHold(w) \/ RetireComponent(w) \/ RotateJournalAuthority(w)
      <4>1. Leave(w, "idle")
        BY <3>4, PublishMoves
      <4>2. QED
        BY <2>3, <2>8, <4>1 DEF Leave, Goto, TypeOK
    <3>5. QED
      BY <2>1, <2>8, <3>1, <3>2, <3>3, <3>4 DEF Steps, MethodBody
  <2>9. QED
    BY <2>4, <2>5, <2>6, <2>7, <2>8
<1>3. QED
  BY <1>1, <1>2

\* The checks an event has passed, wherever it comes from.
LEMMA OriginChecked ==
    ASSUME JournalInv, NEW b, Origin(b)
    PROVE  /\ b.type # "COMPONENT_RETIRED" => Accepts(journal, b)
           /\ b.type = "COMPONENT_RETIRED" =>
                 /\ b.ref \in Refs(Archives(journal)) \ Refs(Retirements(journal))
                 /\ b.claims \subseteq Claims
                 /\ b.replacement # None =>
                       /\ b.replacement \in Refs(Archives(journal)) \
                                            (Refs(Retirements(journal)) \cup {b.ref})
                       /\ KindOf[b.replacement] = KindOf[b.ref]
           /\ b.type = "EVIDENCE_APPENDED" =>
                 b.deps \subseteq Refs(Archives(journal)) \ Refs(Retirements(journal))
           /\ b.type = "EVIDENCE_DELETION_INTENT" => b.id \in Ids(Captures(journal))
<1> USE DEF JournalInv, RetentionInv
<1>1. ASSUME NEW intent \in Pending(journal), b = CommitBody(intent)
      PROVE  b.type = "EVIDENCE_DELETED" /\ Accepts(journal, b)
  <2>1. b.type = "EVIDENCE_DELETED" /\ b.id = intent.id
    BY <1>1 DEF CommitBody
  <2>2. intent \in Intents(journal) /\ intent.id \notin Ids(Deletions(journal))
    BY <1>1 DEF Pending
  <2>3. intent.id \in Ids(Captures(journal))
    BY <2>2 DEF IntentsCaptured, Ids
  <2>4. QED
    BY <1>1, <2>1, <2>2, <2>3 DEF Accepts
<1>2. CASE \E w \in Writers : pc[w] = "append" /\ b = todo[w]
  <2>1. PICK w \in Writers : pc[w] = "append" /\ b = todo[w]
    BY <1>2
  <2>2. b.type \in {"COMPONENT_ARCHIVED", "EVIDENCE_APPENDED", "EVIDENCE_DELETED"}
    BY <2>1 DEF EffectsInOrder
  <2>3. CASE b.type = "EVIDENCE_DELETED"
    BY <1>1, <2>1, <2>3 DEF OwedEvents
  <2>4. CASE b.type # "EVIDENCE_DELETED"
    BY <2>1, <2>2, <2>4 DEF OwedEvents, Accepts
  <2>5. QED
    BY <2>3, <2>4
<1>3. CASE \E intent \in Pending(journal) : b = CommitBody(intent)
  BY <1>1, <1>3
<1>4. CASE /\ \E w \in Writers : pc[w] = "body"
           /\ b.type = "EVIDENCE_DELETION_INTENT"
           /\ b.id \in Ids(Captures(journal)) \
                       (Ids(Deletions(journal)) \cup Ids(Pending(journal)))
  <2>1. b.id \notin Ids(Intents(journal))
    BY <1>4 DEF Pending, Ids
  <2>2. QED
    BY <1>4, <2>1 DEF Accepts
<1>5. QED
  BY <1>2, <1>3, <1>4 DEF Origin

\* While a deletion is pending only its tombstone can be published, and what
\* refers to evidence refers to live evidence.
LEMMA OriginAlone ==
    ASSUME JournalInv, NEW b, Origin(b)
    PROVE  /\ b.type # "EVIDENCE_DELETED" => Pending(journal) = {}
           /\ b.type = "EVIDENCE_DELETED" =>
                 \E intent \in Pending(journal) : b = CommitBody(intent)
           /\ b.type = "EVIDENCE_APPENDED" /\ DependencyKinds # {} => b.deps # {}
           /\ b.type \in {"BUNDLE_SEALED", "LEGAL_HOLD_PLACED"} =>
                 b.evidence \in (SUBSET Ids(LiveCaptures(journal))) \ {{}}
           /\ b.type = "EVIDENCE_DELETION_INTENT" =>
                 /\ b.id \in Ids(Captures(journal)) \
                             (Ids(Deletions(journal)) \cup Ids(Pending(journal)))
                 /\ ActiveHolds(journal, b.id) = {}
<1> USE DEF JournalInv, RetentionInv
<1>1. CASE \E w \in Writers : pc[w] = "append" /\ b = todo[w]
  <2>1. PICK w \in Writers : pc[w] = "append" /\ b = todo[w]
    BY <1>1
  <2>2. b.type \in {"COMPONENT_ARCHIVED", "EVIDENCE_APPENDED", "EVIDENCE_DELETED"}
    BY <2>1 DEF EffectsInOrder
  <2>3. QED
    BY <2>1, <2>2 DEF OwedEvents
<1>2. CASE \E intent \in Pending(journal) : b = CommitBody(intent)
  <2>1. b.type = "EVIDENCE_DELETED"
    BY <1>2 DEF CommitBody
  <2>2. QED
    BY <1>2, <2>1
<1>3. CASE \E w \in Writers : pc[w] = "body"
  <2>1. Pending(journal) = {}
    BY <1>3 DEF CleanBeforeBody
  <2>2. CASE b.type \in {"EVIDENCE_DELETED", "EVIDENCE_APPENDED"}
    BY <1>1, <1>2, <2>2 DEF Origin
  <2>3. CASE b.type \notin {"EVIDENCE_DELETED", "EVIDENCE_APPENDED"}
    <3>1. CASE \E w \in Writers : pc[w] = "append" /\ b = todo[w]
      BY <1>1, <3>1
    <3>2. CASE \E intent \in Pending(journal) : b = CommitBody(intent)
      BY <1>2, <3>2
    <3>3. QED
      BY <2>1, <2>3, <3>1, <3>2 DEF Origin
  <2>4. QED
    BY <2>2, <2>3
<1>4. QED
  BY <1>1, <1>2, <1>3 DEF Origin

LEMMA JournalTyped == JournalInv => journal \in Seq(Event)
  BY DEF JournalInv, RetentionInv, TypeOK

LEMMA CapturedStep ==
    ASSUME JournalInv, Grows
    PROVE  IntentsCaptured'
<1>1. CASE UNCHANGED journal
  BY <1>1 DEF JournalInv, IntentsCaptured
<1>2. CASE \E e \in Event : journal' = Append(journal, e) /\ Origin(e.body)
  <2>1. PICK e \in Event : journal' = Append(journal, e) /\ Origin(e.body)
    BY <1>2
  <2>2. e.body.type = "EVIDENCE_DELETION_INTENT" => e.body.id \in Ids(Captures(journal))
    BY <2>1, OriginChecked
  <2>3. /\ Captures(journal) \subseteq Captures(journal')
        /\ Intents(journal') = IF e.body.type = "EVIDENCE_DELETION_INTENT"
                               THEN Intents(journal) \cup {e.body} ELSE Intents(journal)
    BY <2>1, AppendOfType DEF Captures, Intents, JournalInv, RetentionInv, TypeOK
  <2>4. QED
    BY <2>2, <2>3 DEF JournalInv, IntentsCaptured, Ids
<1>3. QED
  BY <1>1, <1>2 DEF Grows

LEMMA NamedStep ==
    ASSUME JournalInv, Grows
    PROVE  HoldsNamed'
<1>1. CASE UNCHANGED journal
  BY <1>1 DEF JournalInv, HoldsNamed
<1>2. CASE \E e \in Event : journal' = Append(journal, e) /\ Origin(e.body)
  <2>1. PICK e \in Event : journal' = Append(journal, e) /\ Origin(e.body)
    BY <1>2
  <2>2. /\ Placements(journal') = IF e.body.type = "LEGAL_HOLD_PLACED"
                                  THEN Placements(journal) \cup {e.body}
                                  ELSE Placements(journal)
        /\ Releases(journal') = IF e.body.type = "LEGAL_HOLD_RELEASED"
                                THEN Releases(journal) \cup {e.body}
                                ELSE Releases(journal)
    BY <2>1, AppendOfType DEF Placements, Releases, JournalInv, RetentionInv, TypeOK
  <2>3. e.body.type = "LEGAL_HOLD_PLACED" => e.body.evidence # {}
    BY <2>1, OriginAlone
  <2>4. e.body.type = "LEGAL_HOLD_RELEASED" => e.body.id \in Ids(Placements(journal))
    BY <2>1, OriginChecked DEF Accepts
  <2>5. QED
    BY <2>2, <2>3, <2>4 DEF JournalInv, HoldsNamed, Ids
<1>3. QED
  BY <1>1, <1>2 DEF Grows

LEMMA JournalInit == Init => JournalInv
<1>1. Init => OwedEvents
  BY DEF Init, OwedEvents
<1>2. Init => IntentsCaptured
  BY DEF Init, IntentsCaptured, Intents, OfType, Bodies, Ids
<1>3. Init => HoldsNamed
  BY DEF Init, HoldsNamed, Releases, Placements, OfType, Bodies, Ids
<1>4. Init => DeletionsIntended
  BY DEF Init, DeletionsIntended, Deletions, OfType, Bodies, Ids
<1>5. Init => CleanBeforeBody
  BY DEF Init, CleanBeforeBody
<1>6. QED
  BY <1>1, <1>2, <1>3, <1>4, <1>5, RetentionInit DEF JournalInv

LEMMA JournalSteps == JournalInv /\ [Next]_vars => Grows
  BY StepOrigins DEF JournalInv, RetentionInv

LEMMA JournalStep == JournalInv /\ [Next]_vars => JournalInv'
  BY RetentionStep, CleanStep, IntendedStep, OwedStep, CapturedStep, NamedStep,
     JournalSteps DEF JournalInv

LEMMA HoldsKept ==
    ASSUME JournalInv, HoldsBlockDeletion, Grows
    PROVE  HoldsBlockDeletion'
<1>1. ASSUME NEW e \in Event, Origin(e.body)
      PROVE  /\ e.body.type = "EVIDENCE_DELETION_INTENT" =>
                    ActiveHolds(journal, e.body.id) = {}
             /\ e.body.type = "LEGAL_HOLD_PLACED" =>
                    e.body.evidence \subseteq Ids(LiveCaptures(journal))
  BY <1>1, OriginAlone
<1>2. QED
  BY <1>1, JournalTyped, HoldsStep DEF Grows

-----------------------------------------------------------------------------
(* The journal authority. *)

LEMMA AuthorityStep ==
    ASSUME JournalInv, AuthorityChain, Grows
    PROVE  AuthorityChain'
<1>1. CASE UNCHANGED journal
  BY <1>1 DEF AuthorityChain, SignedInTurn, RotationSteps
<1>2. CASE \E e \in Event : /\ journal' = Append(journal, e)
                            /\ e.signer = ActiveKey(journal)
                            /\ Origin(e.body)
  <2>1. PICK e \in Event : /\ journal' = Append(journal, e)
                           /\ e.signer = ActiveKey(journal)
                           /\ Origin(e.body)
    BY <1>2
  <2> DEFINE n == Len(journal) + 1
  <2>2. /\ DOMAIN journal' = DOMAIN journal \cup {n}
        /\ journal'[n] = e
        /\ Before(journal', n) = journal
        /\ \A i \in DOMAIN journal : /\ i # n
                                     /\ journal'[i] = journal[i]
                                     /\ Before(journal', i) = Before(journal, i)
    BY <2>1, JournalTyped, JournalGrows
  <2>3. SignedInTurn(journal')
    BY <2>1, <2>2 DEF SignedInTurn, AuthorityChain
  <2>4. \A i \in RotationSteps(journal) : journal[i].body.successor \in KeyHistory(journal)
    BY DEF RotationSteps, KeyHistory, Rotations, OfType, Bodies
  <2>5. e.body.type = "JOURNAL_AUTHORITY_ROTATED" =>
           e.body.successor \notin KeyHistory(journal)
    BY <2>1, OriginChecked DEF Accepts
  <2>6. RotationSteps(journal') \subseteq RotationSteps(journal) \cup
           (IF e.body.type = "JOURNAL_AUTHORITY_ROTATED" THEN {n} ELSE {})
    BY <2>2 DEF RotationSteps
  <2>7. RotationSteps(journal) \subseteq DOMAIN journal
    BY DEF RotationSteps
  <2>8. InitialKey \in KeyHistory(journal)
    BY DEF KeyHistory
  <2>9. \A i, k \in RotationSteps(journal') :
           journal'[i].body.successor = journal'[k].body.successor => i = k
    <3>1. SUFFICES ASSUME NEW i \in RotationSteps(journal'), NEW k \in RotationSteps(journal'),
                          journal'[i].body.successor = journal'[k].body.successor
                   PROVE  i = k
      OBVIOUS
    <3>2. CASE i \in RotationSteps(journal) /\ k \in RotationSteps(journal)
      BY <2>2, <2>7, <3>1, <3>2 DEF AuthorityChain
    <3>3. CASE i = n /\ k \in RotationSteps(journal)
      BY <2>2, <2>4, <2>5, <2>6, <2>7, <3>1, <3>3
    <3>4. CASE k = n /\ i \in RotationSteps(journal)
      BY <2>2, <2>4, <2>5, <2>6, <2>7, <3>1, <3>4
    <3>5. QED
      BY <2>6, <3>2, <3>3, <3>4
  <2>10. \A i \in RotationSteps(journal') : journal'[i].body.successor # InitialKey
    BY <2>2, <2>5, <2>6, <2>7, <2>8 DEF AuthorityChain
  <2>11. QED
    BY <2>3, <2>9, <2>10 DEF AuthorityChain
<1>3. QED
  BY <1>1, <1>2 DEF Grows

\* However many handles are open while the authority rotates, every event is
\* signed by the key in charge at its place, and no key is in charge twice.
THEOREM AuthorityIsLinear == Spec => []AuthorityChain
<1>1. Init => AuthorityChain
  BY DEF Init, AuthorityChain, SignedInTurn, RotationSteps
<1>2. QED
  BY <1>1, JournalInit, JournalStep, JournalSteps, AuthorityStep, PTL DEF Spec

-----------------------------------------------------------------------------
(* Captures and retirements. *)

LEMMA ActiveStep ==
    ASSUME JournalInv, CapturesUseActiveComponents, Grows
    PROVE  CapturesUseActiveComponents'
<1>1. CASE UNCHANGED journal
  BY <1>1 DEF CapturesUseActiveComponents
<1>2. CASE \E e \in Event : journal' = Append(journal, e) /\ Origin(e.body)
  <2>1. PICK e \in Event : journal' = Append(journal, e) /\ Origin(e.body)
    BY <1>2
  <2> DEFINE n == Len(journal) + 1
  <2>2. /\ DOMAIN journal' = DOMAIN journal \cup {n}
        /\ journal'[n] = e
        /\ Before(journal', n) = journal
        /\ \A i \in DOMAIN journal : /\ i # n
                                     /\ journal'[i] = journal[i]
                                     /\ Before(journal', i) = Before(journal, i)
    BY <2>1, JournalTyped, JournalGrows
  <2>3. e.body.type = "EVIDENCE_APPENDED" =>
           e.body.deps \subseteq Refs(Archives(journal)) \ Refs(Retirements(journal))
    BY <2>1, OriginChecked
  <2>4. QED
    BY <2>2, <2>3 DEF CapturesUseActiveComponents
<1>3. QED
  BY <1>1, <1>2 DEF Grows

\* A component that one writer retires while another prepares a capture is not
\* a dependency of that capture.
THEOREM CapturesAreCurrent == Spec => []CapturesUseActiveComponents
<1>1. Init => CapturesUseActiveComponents
  BY DEF Init, CapturesUseActiveComponents
<1>2. QED
  BY <1>1, JournalInit, JournalStep, JournalSteps, ActiveStep, PTL DEF Spec

LEMMA ReplacementStep ==
    ASSUME JournalInv, ReplacementsEnd, Grows
    PROVE  ReplacementsEnd'
<1>1. CASE UNCHANGED journal
  BY <1>1 DEF ReplacementsEnd
<1>2. CASE \E e \in Event : journal' = Append(journal, e) /\ Origin(e.body)
  <2>1. PICK e \in Event : journal' = Append(journal, e) /\ Origin(e.body)
    BY <1>2
  <2>2. Retirements(journal') = IF e.body.type = "COMPONENT_RETIRED"
                                THEN Retirements(journal) \cup {e.body}
                                ELSE Retirements(journal)
    BY <2>1, JournalTyped, AppendOfType DEF Retirements
  <2>3. SUFFICES ASSUME NEW S \in (SUBSET Retirements(journal')) \ {{}}
                 PROVE  \E b \in S : b.replacement \notin Refs(S)
    BY DEF ReplacementsEnd
  <2>4. CASE S \subseteq Retirements(journal)
    BY <2>3, <2>4 DEF ReplacementsEnd
  <2>5. CASE ~(S \subseteq Retirements(journal))
    <3>1. e.body \in S /\ e.body.type = "COMPONENT_RETIRED"
      BY <2>2, <2>3, <2>5
    <3>2. Refs(S) \subseteq Refs(Retirements(journal)) \cup {e.body.ref}
      BY <2>2, <2>3 DEF Refs
    <3>3. Refs(Archives(journal)) \subseteq Components
      BY JournalTyped, IdsTyped
    <3>4. /\ e.body.ref \in Refs(Archives(journal))
          /\ e.body.replacement # None =>
                e.body.replacement \notin Refs(Retirements(journal)) \cup {e.body.ref}
      BY <2>1, <3>1, OriginChecked
    <3>5. Refs(Retirements(journal)) \subseteq Components
      BY JournalTyped, BodiesTyped, BodyShapes DEF Retirements, OfType, Refs
    <3>6. e.body.replacement \notin Refs(S)
      BY <3>2, <3>3, <3>4, <3>5, ConstantsAssumption
    <3>7. QED
      BY <3>1, <3>6
  <2>6. QED
    BY <2>4, <2>5
<1>3. QED
  BY <1>1, <1>2 DEF Grows

\* Replacements never form a cycle, so that following them from a retired
\* component ends.
THEOREM ReplacementsTerminate == Spec => []ReplacementsEnd
<1>1. Init => ReplacementsEnd
  <2>1. Init => Retirements(journal) = {}
    BY DEF Init, Retirements, OfType, Bodies
  <2>2. ASSUME Retirements(journal) = {} PROVE ReplacementsEnd
    <3>1. (SUBSET Retirements(journal)) \ {{}} = {}
      BY <2>2
    <3>2. QED
      BY <3>1 DEF ReplacementsEnd
  <2>3. QED
    BY <2>1, <2>2
<1>2. QED
  BY <1>1, JournalInit, JournalStep, JournalSteps, ReplacementStep, PTL DEF Spec

-----------------------------------------------------------------------------
(* Replay. *)

LEMMA ReplayStep ==
    ASSUME Claims \subseteq ValidClaims, JournalInv, JournalReplays, Grows
    PROVE  JournalReplays'
<1>1. CASE UNCHANGED journal
  BY <1>1 DEF JournalReplays
<1>2. CASE \E e \in Event : /\ journal' = Append(journal, e)
                            /\ e.signer = ActiveKey(journal)
                            /\ Origin(e.body)
  <2>1. PICK e \in Event : /\ journal' = Append(journal, e)
                           /\ e.signer = ActiveKey(journal)
                           /\ Origin(e.body)
    BY <1>2
  <2> DEFINE n == Len(journal) + 1
  <2>2. /\ DOMAIN journal' = DOMAIN journal \cup {n}
        /\ journal'[n] = e
        /\ Before(journal', n) = journal
        /\ \A i \in DOMAIN journal : /\ i # n
                                     /\ journal'[i] = journal[i]
                                     /\ Before(journal', i) = Before(journal, i)
    BY <2>1, JournalTyped, JournalGrows
  <2>3. Accepts(journal, e.body)
    <3>1. CASE e.body.type # "COMPONENT_RETIRED"
      BY <2>1, <3>1, OriginChecked
    <3>2. CASE e.body.type = "COMPONENT_RETIRED"
      <4>1. /\ e.body.ref \in Refs(Archives(journal)) \ Refs(Retirements(journal))
            /\ e.body.claims \subseteq Claims
            /\ e.body.replacement # None =>
                  /\ e.body.replacement \in Refs(Archives(journal)) \
                                  (Refs(Retirements(journal)) \cup {e.body.ref})
                  /\ KindOf[e.body.replacement] = KindOf[e.body.ref]
        BY <2>1, <3>2, OriginChecked
      <4>2. ValidRetirement(journal, e.body)
        BY <4>1 DEF ValidRetirement
      <4>3. QED
        BY <3>2, <4>1, <4>2 DEF Accepts
    <3>3. QED
      BY <3>1, <3>2
  <2>4. Replayable(journal)
    BY DEF JournalReplays
  <2>5. SignedInTurn(journal')
    BY <2>1, <2>2, <2>4 DEF Replayable, SignedInTurn
  <2>6. \A i \in DOMAIN journal' : Accepts(Before(journal', i), journal'[i].body)
    BY <2>2, <2>3, <2>4 DEF Replayable
  <2>7. QED
    BY <2>5, <2>6 DEF JournalReplays, Replayable
<1>3. QED
  BY <1>1, <1>2 DEF Grows

\* As long as callers pass claim ids that match ID_PATTERN, which the writer
\* does not check, replay() accepts every journal the writer leaves behind.
THEOREM JournalsReplay ==
    ASSUME Claims \subseteq ValidClaims
    PROVE  Spec => []JournalReplays
<1>1. Init => JournalReplays
  BY DEF Init, JournalReplays, Replayable, SignedInTurn
<1>2. JournalInv /\ JournalReplays /\ [Next]_vars => JournalReplays'
  BY ReplayStep, JournalSteps
<1>3. QED
  BY <1>1, <1>2, JournalInit, JournalStep, PTL DEF Spec

=============================================================================
