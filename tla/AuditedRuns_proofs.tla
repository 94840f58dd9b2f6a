-------------------------- MODULE AuditedRuns_proofs --------------------------
(***************************************************************************)
(* Theorems about audited runs, for all runs, scenarios and bounds.        *)
(*                                                                         *)
(* What a run has emitted is known in closed form.  A workflow emits its   *)
(* slots in a fixed order, each under one mechanism; the event of a slot   *)
(* has the number of contracted slots up to it, and what it carries is a   *)
(* function of the run's world.                                            *)
(***************************************************************************)
EXTENDS AuditedRuns, FiniteSetTheorems, SequenceTheorems, WellFoundedInduction, TLAPS

-----------------------------------------------------------------------------
(* The slots of the two workflows. *)

PaymentSlots ==
    <<"canonical_action", "coarse_amount_channel", "amount_token", "generic_agent_trace",
      "model_advice", "human_decision_record", "approval_bound_receipt", "delegation_context",
      "policy_snapshot", "coarse_policy_channel", "policy_state_token", "gateway_coverage",
      "durable_effect_receipt", "generic_agent_trace", "final_output",
      "virtualized_tool_omission_replay">>

CreditSlots ==
    <<"canonical_application", "coarse_score_channel", "score_token", "feature_provenance",
      "feature_coverage", "policy_snapshot", "coarse_credit_policy_channel",
      "credit_policy_state_token", "generic_decision_trace", "model_reason_record",
      "decision_receipt", "notice_receipt", "final_decision", "virtualized_income_ablation">>

Slots(st) == IF st.workflow = "payment" THEN PaymentSlots ELSE CreditSlots

SlotNames(st, k) ==
    IF st.workflow = "payment" /\ k = 4 THEN {"model_recommendation", "human_decision"}
    ELSE IF st.workflow = "payment" /\ k = 14 THEN {"tool_response"}
    ELSE AllNames(st, Slots(st)[k])

StoredApplication(st) ==
    IF st.world.decision_record_bound THEN _action_identity(Spec(st), st.world)
    ELSE <<"other-application">>

SlotMore(st, k, proof) ==
    IF st.workflow = "payment"
    THEN CASE k = 1 \/ k = 13 -> [digest |-> ActionDigest(st)]
           [] k = 4 -> [node |-> "review"]
           [] k = 7 -> [digest |-> ApprovedDigest(st)]
           [] k = 14 -> [node |-> "report"]
           [] k = 16 -> [replay_proof |-> proof]
           [] OTHER -> NoMore
    ELSE CASE k = 1 -> [digest |-> ActionDigest(st)]
           [] k = 11 -> [stored_application |-> StoredApplication(st)]
           [] k = 14 -> [replay_proof |-> proof]
           [] OTHER -> NoMore

SlotAttributes(st, k, proof) ==
    event_attributes(Spec(st), Slots(st)[k], st.world, _action_identity(Spec(st), st.world),
                     SlotNames(st, k), SlotMore(st, k, proof))

(* The contracted slots up to k, and so the number of the k-th slot's event. *)
Contracted(st, k) == {j \in 1 .. k : Slots(st)[j] \in st.contract}

Number(st, k) == Cardinality(Contracted(st, k))

Hash(st, n) == IF n = 0 THEN Genesis ELSE <<st.sink.id, st.run, n>>

SlotEvent(st, k, proof) ==
    [run |-> st.run, sequence |-> Number(st, k), mechanism |-> Slots(st)[k],
     action |-> _action_identity(Spec(st), st.world),
     attributes |-> SlotAttributes(st, k, proof),
     previous |-> Hash(st, Number(st, k) - 1), hash |-> Hash(st, Number(st, k))]

(* The sink holds the events of the contracted slots up to k. *)
HoldsSlots(st, k, proof) ==
    /\ st.sink.enabled = st.contract
    /\ DOMAIN st.sink = {"id", "enabled", "events"}
    /\ st.sink.events \in Seq({SlotEvent(st, j, proof) : j \in Contracted(st, k)})
    /\ Len(st.sink.events) = Number(st, k)
    /\ \A j \in Contracted(st, k) : st.sink.events[Number(st, j)] = SlotEvent(st, j, proof)
    /\ \A i \in DOMAIN st.sink.events :
          \E j \in Contracted(st, k) :
              Number(st, j) = i /\ st.sink.events[i] = SlotEvent(st, j, proof)

-----------------------------------------------------------------------------
(* Counting the contracted slots. *)

LEMMA NumberIsNat ==
    ASSUME NEW st, NEW k \in Nat
    PROVE  /\ IsFiniteSet(Contracted(st, k))
           /\ Number(st, k) \in Nat
  <1>1. IsFiniteSet(1 .. k)
    BY FS_Interval
  <1>2. Contracted(st, k) \subseteq 1 .. k
    BY DEF Contracted
  <1>3. IsFiniteSet(Contracted(st, k))
    BY <1>1, <1>2, FS_Subset
  <1> QED
    BY <1>3, FS_CardinalityType DEF Number

LEMMA NumberOfNone == ASSUME NEW st PROVE Contracted(st, 0) = {} /\ Number(st, 0) = 0
  <1>1. Contracted(st, 0) = {}
    BY DEF Contracted
  <1> QED
    BY <1>1, FS_EmptySet DEF Number

LEMMA NumberOfNext ==
    ASSUME NEW st, NEW k \in Nat
    PROVE  /\ Slots(st)[k + 1] \in st.contract =>
                 /\ Contracted(st, k + 1) = Contracted(st, k) \cup {k + 1}
                 /\ Number(st, k + 1) = Number(st, k) + 1
           /\ Slots(st)[k + 1] \notin st.contract =>
                 /\ Contracted(st, k + 1) = Contracted(st, k)
                 /\ Number(st, k + 1) = Number(st, k)
  <1>1. CASE Slots(st)[k + 1] \in st.contract
    <2>1. Contracted(st, k + 1) = Contracted(st, k) \cup {k + 1}
      BY <1>1 DEF Contracted
    <2>2. k + 1 \notin Contracted(st, k)
      BY DEF Contracted
    <2> QED
      BY <1>1, <2>1, <2>2, NumberIsNat, FS_AddElement DEF Number
  <1>2. CASE Slots(st)[k + 1] \notin st.contract
    <2>1. Contracted(st, k + 1) = Contracted(st, k)
      BY <1>2 DEF Contracted
    <2> QED
      BY <1>2, <2>1 DEF Number
  <1> QED
    BY <1>1, <1>2

LEMMA NumberGrows ==
    ASSUME NEW st, NEW k \in Nat, NEW j \in Contracted(st, k)
    PROVE  /\ j \in 1 .. k
           /\ Number(st, j) \in 1 .. Number(st, k)
           /\ \A i \in 1 .. j - 1 : Number(st, i) < Number(st, j)
  <1>1. j \in 1 .. k
    BY DEF Contracted
  <1>2. \A a \in Nat, b \in Nat : a <= b => Number(st, a) <= Number(st, b)
    <2> SUFFICES ASSUME NEW a \in Nat, NEW b \in Nat, a <= b
                 PROVE  Number(st, a) <= Number(st, b)
      OBVIOUS
    <2>1. Contracted(st, a) \subseteq Contracted(st, b)
      BY DEF Contracted
    <2> QED
      BY <2>1, NumberIsNat, FS_Subset DEF Number
  <1>3. Number(st, j) = Number(st, j - 1) + 1
    <2>1. j - 1 \in Nat /\ (j - 1) + 1 = j
      BY <1>1
    <2>2. Slots(st)[j] \in st.contract
      BY DEF Contracted
    <2> QED
      BY <2>1, <2>2, NumberOfNext
  <1>4. /\ \A i \in 0 .. k : Number(st, i) \in Nat
        /\ Number(st, j) <= Number(st, k)
        /\ \A i \in 1 .. j - 1 : Number(st, i) <= Number(st, j - 1)
    BY <1>1, <1>2, NumberIsNat
  <1> QED
    BY <1>1, <1>3, <1>4

LEMMA NumberIsStrict ==
    ASSUME NEW st, NEW k \in Nat, NEW i \in Contracted(st, k), NEW j \in Contracted(st, k),
           Number(st, i) = Number(st, j)
    PROVE  i = j
  <1>1. /\ i \in 1 .. k /\ Number(st, i) \in Nat
        /\ \A l \in 1 .. i - 1 : Number(st, l) < Number(st, i)
    BY NumberGrows, NumberIsNat
  <1>2. /\ j \in 1 .. k /\ Number(st, j) \in Nat
        /\ \A l \in 1 .. j - 1 : Number(st, l) < Number(st, j)
    BY NumberGrows, NumberIsNat
  <1>3. CASE i < j
    BY <1>1, <1>2, <1>3
  <1>4. CASE j < i
    BY <1>1, <1>2, <1>4
  <1> QED
    BY <1>1, <1>2, <1>3, <1>4

-----------------------------------------------------------------------------
(* Emission of the next slot. *)

LEMMA SeqOfMore ==
    ASSUME NEW S, NEW T, S \subseteq T, NEW s \in Seq(S)
    PROVE  s \in Seq(T)
  OBVIOUS

LEMMA ChainEndOfOne ==
    ASSUME NEW run, NEW S, NEW events \in Seq(S),
           \A i \in DOMAIN events : events[i].run = run
    PROVE  ChainEnd(events, run) =
             IF events = <<>> THEN [sequence |-> 0, hash |-> Genesis]
             ELSE [sequence |-> events[Len(events)].sequence, hash |-> events[Len(events)].hash]
  <1>1. OfRun(events, run) = 1 .. Len(events) /\ Len(events) \in Nat
    BY DEF OfRun
  <1>2. CASE events = <<>>
    BY <1>1, <1>2 DEF ChainEnd
  <1>3. CASE events # <<>>
    <2>1. Len(events) >= 1
      BY <1>3
    <2>2. Max(1 .. Len(events)) = Len(events)
      <3>1. \E x \in 1 .. Len(events) : \A y \in 1 .. Len(events) : x >= y
        BY <2>1, <1>1
      <3>2. LET m == Max(1 .. Len(events))
            IN  m \in 1 .. Len(events) /\ \A y \in 1 .. Len(events) : m >= y
        BY <3>1 DEF Max
      <3> QED
        BY <3>2, <2>1, <1>1
    <2>3. OfRun(events, run) # {}
      BY <1>1, <2>1
    <2> QED
      BY <1>1, <1>3, <2>2, <2>3 DEF ChainEnd
  <1> QED
    BY <1>2, <1>3

(* The state and its sink have the fields that EXCEPT replaces. *)
HasSink(st) == "sink" \in DOMAIN st /\ DOMAIN st.sink = {"id", "enabled", "events"}

LEMMA EmitChangesSink ==
    ASSUME NEW st, HasSink(st), NEW name, NEW names, NEW more
    PROVE  LET t == EmitSome(st, name, names, more)
           IN  /\ DOMAIN t = DOMAIN st
               /\ \A f \in DOMAIN st \ {"sink"} : t[f] = st[f]
               /\ HasSink(t)
               /\ t.sink.id = st.sink.id
               /\ t.sink.enabled = st.sink.enabled
               /\ t.sink = emit_mechanism_event(st.sink, Spec(st), name, st.world, st.run,
                              _action_identity(Spec(st), st.world), names, more)
  <1> DEFINE t == EmitSome(st, name, names, more)
             out == emit_mechanism_event(st.sink, Spec(st), name, st.world, st.run,
                              _action_identity(Spec(st), st.world), names, more)
  <1>1. /\ DOMAIN t = DOMAIN st
        /\ \A f \in DOMAIN st \ {"sink"} : t[f] = st[f]
        /\ t.sink = out
    BY DEF EmitSome, HasSink
  <1>2. /\ DOMAIN out = {"id", "enabled", "events"}
        /\ out.id = st.sink.id
        /\ out.enabled = st.sink.enabled
    BY DEF HasSink, emit_mechanism_event, emit
  <1> QED
    BY <1>1, <1>2 DEF HasSink

(* What a slot's event is a function of. *)
SameRun(s, t) ==
    /\ s.workflow = t.workflow
    /\ s.world = t.world
    /\ s.run = t.run
    /\ s.contract = t.contract
    /\ s.sink.id = t.sink.id

LEMMA SameRunSameSlots ==
    ASSUME NEW s, NEW t, SameRun(s, t), NEW proof
    PROVE  /\ \A k : Contracted(s, k) = Contracted(t, k)
           /\ \A k : Number(s, k) = Number(t, k)
           /\ \A k : SlotNames(s, k) = SlotNames(t, k)
           /\ \A k : SlotMore(s, k, proof) = SlotMore(t, k, proof)
           /\ \A k : SlotEvent(s, k, proof) = SlotEvent(t, k, proof)
           /\ Spec(s) = Spec(t)
           /\ Slots(s) = Slots(t)
  <1>1. Spec(s) = Spec(t) /\ Slots(s) = Slots(t)
    BY DEF SameRun, Spec, Slots
  <1>2. \A k : Contracted(s, k) = Contracted(t, k)
    BY <1>1 DEF SameRun, Contracted
  <1>3. \A k : Number(s, k) = Number(t, k)
    BY <1>2 DEF Number
  <1>4. \A k : SlotNames(s, k) = SlotNames(t, k)
    BY <1>1 DEF SameRun, SlotNames, AllNames
  <1>5. /\ ActionDigest(s) = ActionDigest(t)
        /\ ApprovedDigest(s) = ApprovedDigest(t)
        /\ StoredApplication(s) = StoredApplication(t)
    BY <1>1 DEF SameRun, ActionDigest, ApprovedDigest, StoredApplication
  <1>6. \A k : SlotMore(s, k, proof) = SlotMore(t, k, proof)
    BY <1>5 DEF SameRun, SlotMore
  <1>7. \A k : SlotAttributes(s, k, proof) = SlotAttributes(t, k, proof)
    BY <1>1, <1>4, <1>6 DEF SameRun, SlotAttributes
  <1>8. \A n : Hash(s, n) = Hash(t, n)
    BY DEF SameRun, Hash
  <1>9. \A k : SlotEvent(s, k, proof) = SlotEvent(t, k, proof)
    BY <1>1, <1>3, <1>7, <1>8 DEF SameRun, SlotEvent
  <1> QED
    BY <1>1, <1>2, <1>3, <1>4, <1>6, <1>9

LEMMA EmitUncontracted ==
    ASSUME NEW st, HasSink(st), NEW k \in Nat, NEW proof, HoldsSlots(st, k, proof),
           Slots(st)[k + 1] \notin st.contract, NEW names, NEW more
    PROVE  LET t == EmitSome(st, Slots(st)[k + 1], names, more)
           IN  SameRun(t, st) => HoldsSlots(t, k + 1, proof)
  <1> DEFINE t == EmitSome(st, Slots(st)[k + 1], names, more)
  <1> SUFFICES ASSUME SameRun(t, st)
               PROVE  HoldsSlots(t, k + 1, proof)
    OBVIOUS
  <1>1. t.sink = st.sink
    <2>1. st.sink.enabled = st.contract
      BY DEF HoldsSlots
    <2> DEFINE event == [run |-> st.run, mechanism |-> Slots(st)[k + 1],
                         action |-> _action_identity(Spec(st), st.world),
                         attributes |-> event_attributes(Spec(st), Slots(st)[k + 1], st.world,
                                            _action_identity(Spec(st), st.world), names, more)]
    <2>2. t.sink = emit(st.sink, event)
      BY EmitChangesSink DEF emit_mechanism_event
    <2>3. event.mechanism \notin st.sink.enabled
      BY <2>1
    <2> HIDE DEF event, t
    <2> QED
      BY <2>2, <2>3 DEF emit
  <1>2. /\ Contracted(st, k + 1) = Contracted(st, k)
        /\ Number(st, k + 1) = Number(st, k)
    BY NumberOfNext
  <1>3. t.contract = st.contract
    BY DEF SameRun
  <1>4. /\ \A j : Contracted(t, j) = Contracted(st, j)
        /\ \A j : Number(t, j) = Number(st, j)
        /\ \A j : SlotEvent(t, j, proof) = SlotEvent(st, j, proof)
    BY SameRunSameSlots
  <1> HIDE DEF t
  <1> QED
    BY <1>1, <1>2, <1>3, <1>4 DEF HoldsSlots

LEMMA EventBelongs ==
    ASSUME NEW st, NEW k, NEW proof, HoldsSlots(st, k, proof)
    PROVE  /\ \A i \in DOMAIN st.sink.events :
                 /\ st.sink.events[i].run = st.run
                 /\ st.sink.events[i].sequence = i
                 /\ st.sink.events[i].hash = Hash(st, i)
                 /\ st.sink.events[i].previous = Hash(st, i - 1)
                 /\ st.sink.events[i].action = _action_identity(Spec(st), st.world)
           /\ DOMAIN st.sink.events = 1 .. Number(st, k)
  <1>1. DOMAIN st.sink.events = 1 .. Number(st, k)
    <2> DEFINE S == {SlotEvent(st, j, proof) : j \in Contracted(st, k)}
    <2>1. st.sink.events \in Seq(S) /\ Len(st.sink.events) = Number(st, k)
      BY DEF HoldsSlots
    <2> HIDE DEF S
    <2> QED
      BY <2>1
  <1>2. ASSUME NEW i \in DOMAIN st.sink.events
        PROVE  \E j : Number(st, j) = i /\ st.sink.events[i] = SlotEvent(st, j, proof)
    BY DEF HoldsSlots
  <1>3. \A j : /\ SlotEvent(st, j, proof).run = st.run
               /\ SlotEvent(st, j, proof).sequence = Number(st, j)
               /\ SlotEvent(st, j, proof).hash = Hash(st, Number(st, j))
               /\ SlotEvent(st, j, proof).previous = Hash(st, Number(st, j) - 1)
               /\ SlotEvent(st, j, proof).action = _action_identity(Spec(st), st.world)
    BY DEF SlotEvent
  <1> QED
    BY <1>1, <1>2, <1>3

LEMMA EmitAppends ==
    ASSUME NEW sink, DOMAIN sink = {"id", "enabled", "events"}, NEW event,
           event.mechanism \in sink.enabled
    PROVE  LET end == ChainEnd(sink.events, event.run)
           IN  /\ DOMAIN emit(sink, event) = {"id", "enabled", "events"}
               /\ emit(sink, event).id = sink.id
               /\ emit(sink, event).enabled = sink.enabled
               /\ emit(sink, event).events = Append(sink.events,
                    [run |-> event.run, sequence |-> end.sequence + 1,
                     mechanism |-> event.mechanism, action |-> event.action,
                     attributes |-> event.attributes, previous |-> end.hash,
                     hash |-> <<sink.id, event.run, end.sequence + 1>>])
  BY DEF emit

LEMMA EmitContracted ==
    ASSUME NEW st, HasSink(st), NEW k \in Nat, NEW proof, HoldsSlots(st, k, proof),
           Slots(st)[k + 1] \in st.contract
    PROVE  LET t == EmitSome(st, Slots(st)[k + 1], SlotNames(st, k + 1),
                             SlotMore(st, k + 1, proof))
           IN  SameRun(t, st) => HoldsSlots(t, k + 1, proof)
  <1> DEFINE e == SlotEvent(st, k + 1, proof)
             t == EmitSome(st, Slots(st)[k + 1], SlotNames(st, k + 1), SlotMore(st, k + 1, proof))
             n == Number(st, k)
             S == {SlotEvent(st, j, proof) : j \in Contracted(st, k)}
             T == {SlotEvent(st, j, proof) : j \in Contracted(st, k + 1)}
             old == st.sink.events
  <1> SUFFICES ASSUME SameRun(t, st)
               PROVE  HoldsSlots(t, k + 1, proof)
    OBVIOUS
  <1>1. /\ Contracted(st, k + 1) = Contracted(st, k) \cup {k + 1}
        /\ Number(st, k + 1) = n + 1
        /\ n \in Nat
    BY NumberOfNext, NumberIsNat
  <1>2. /\ old \in Seq(S)
        /\ Len(old) = n
        /\ \A i \in DOMAIN old : old[i].run = st.run
    <2>1. old \in Seq(S) /\ Len(old) = n
      BY DEF HoldsSlots
    <2>2. \A i \in DOMAIN old : old[i].run = st.run
      BY EventBelongs
    <2> QED
      BY <2>1, <2>2
  <1>3. ChainEnd(old, st.run) = [sequence |-> n, hash |-> Hash(st, n)]
    <2>1. CASE n = 0
      <3>1. old = <<>>
        BY <1>2, <2>1
      <3> QED
        BY <1>2, <2>1, <3>1, ChainEndOfOne DEF Hash
    <2>2. CASE n # 0
      <3>1. old # <<>> /\ n \in DOMAIN old
        BY <1>1, <1>2, <2>2
      <3>2. old[n].sequence = n /\ old[n].hash = Hash(st, n)
        BY <3>1, EventBelongs
      <3> QED
        BY <1>2, <3>1, <3>2, ChainEndOfOne
    <2> QED
      BY <2>1, <2>2
  <1>4. /\ t.sink.events = Append(old, e)
        /\ t.sink.enabled = st.sink.enabled
        /\ DOMAIN t.sink = {"id", "enabled", "events"}
    <2> DEFINE event == [run |-> st.run, mechanism |-> Slots(st)[k + 1],
                         action |-> _action_identity(Spec(st), st.world),
                         attributes |-> SlotAttributes(st, k + 1, proof)]
    <2>1. t.sink = emit(st.sink, event)
      BY EmitChangesSink DEF emit_mechanism_event, SlotAttributes
    <2>2. Slots(st)[k + 1] \in st.sink.enabled
      BY DEF HoldsSlots
    <2>3. e = [run |-> st.run, sequence |-> n + 1, mechanism |-> Slots(st)[k + 1],
               action |-> _action_identity(Spec(st), st.world),
               attributes |-> SlotAttributes(st, k + 1, proof),
               previous |-> Hash(st, n), hash |-> <<st.sink.id, st.run, n + 1>>]
      BY <1>1 DEF SlotEvent, Hash
    <2>4. DOMAIN st.sink = {"id", "enabled", "events"}
      BY DEF HasSink
    <2>5. /\ event.mechanism = Slots(st)[k + 1]
          /\ event.run = st.run
          /\ event.action = _action_identity(Spec(st), st.world)
          /\ event.attributes = SlotAttributes(st, k + 1, proof)
      OBVIOUS
    <2> HIDE DEF event
    <2>6. LET sink == emit(st.sink, event)
          IN  /\ DOMAIN sink = {"id", "enabled", "events"}
              /\ sink.enabled = st.sink.enabled
              /\ sink.events = Append(old,
                   [run |-> event.run, sequence |-> n + 1, mechanism |-> event.mechanism,
                    action |-> event.action, attributes |-> event.attributes,
                    previous |-> Hash(st, n), hash |-> <<st.sink.id, event.run, n + 1>>])
      <3> DEFINE end == ChainEnd(st.sink.events, event.run)
                 out == emit(st.sink, event)
      <3>1. end.sequence = n /\ end.hash = Hash(st, n)
        BY <1>3, <2>5
      <3>2. event.mechanism \in st.sink.enabled
        BY <2>2, <2>5
      <3>3. /\ DOMAIN out = {"id", "enabled", "events"}
            /\ out.enabled = st.sink.enabled
            /\ out.events = Append(st.sink.events,
                 [run |-> event.run, sequence |-> end.sequence + 1, mechanism |-> event.mechanism,
                  action |-> event.action, attributes |-> event.attributes, previous |-> end.hash,
                  hash |-> <<st.sink.id, event.run, end.sequence + 1>>])
        BY <2>4, <3>2, EmitAppends
      <3> HIDE DEF end, out, n
      <3>4. out.events = Append(old,
                 [run |-> event.run, sequence |-> n + 1, mechanism |-> event.mechanism,
                  action |-> event.action, attributes |-> event.attributes,
                  previous |-> Hash(st, n), hash |-> <<st.sink.id, event.run, n + 1>>])
        BY <3>1, <3>3
      <3> QED
        BY <3>3, <3>4 DEF out
    <2> HIDE DEF e, t
    <2> QED
      BY <2>1, <2>3, <2>5, <2>6
  <1>5. /\ t.sink.events = Append(old, e)
        /\ t.sink.enabled = st.contract
        /\ DOMAIN t.sink = {"id", "enabled", "events"}
    BY <1>4 DEF HoldsSlots
  <1>6. /\ \A j : Contracted(t, j) = Contracted(st, j)
        /\ \A j : Number(t, j) = Number(st, j)
        /\ \A j : SlotEvent(t, j, proof) = SlotEvent(st, j, proof)
    BY SameRunSameSlots
  <1>7. S \subseteq T /\ e \in T
    BY <1>1
  <1>8. Append(old, e) \in Seq(T) /\ Len(Append(old, e)) = n + 1
    <2> HIDE DEF S, T, e
    <2>1. old \in Seq(T)
      BY <1>2, <1>7, SeqOfMore
    <2> QED
      BY <1>2, <1>7, <2>1
  <1>9. \A i \in 1 .. n : Append(old, e)[i] = old[i]
    <2> HIDE DEF e
    <2> QED
      BY <1>2
  <1>10. Append(old, e)[n + 1] = e
    <2> HIDE DEF e
    <2> QED
      BY <1>2
  <1>11. ASSUME NEW j \in Contracted(st, k + 1)
         PROVE  Append(old, e)[Number(st, j)] = SlotEvent(st, j, proof)
    <2>1. CASE j = k + 1
      BY <1>1, <1>10, <2>1
    <2>2. CASE j # k + 1
      <3>1. j \in Contracted(st, k)
        BY <1>1, <2>2
      <3>2. Number(st, j) \in 1 .. n
        BY <3>1, NumberGrows
      <3>3. old[Number(st, j)] = SlotEvent(st, j, proof)
        BY <3>1 DEF HoldsSlots
      <3> QED
        BY <1>9, <3>2, <3>3
    <2> QED
      BY <2>1, <2>2
  <1>12. ASSUME NEW i \in DOMAIN Append(old, e)
         PROVE  \E j \in Contracted(st, k + 1) :
                    Number(st, j) = i /\ Append(old, e)[i] = SlotEvent(st, j, proof)
    <2>1. i \in 1 .. n + 1
      BY <1>8
    <2>2. CASE i = n + 1
      BY <1>1, <1>10, <2>2
    <2>3. CASE i # n + 1
      <3>1. i \in 1 .. n /\ i \in DOMAIN old
        BY <1>1, <1>2, <2>1, <2>3
      <3>2. PICK j \in Contracted(st, k) : Number(st, j) = i /\ old[i] = SlotEvent(st, j, proof)
        BY <3>1 DEF HoldsSlots
      <3> QED
        BY <1>1, <1>9, <3>1, <3>2
    <2> QED
      BY <2>2, <2>3
  <1>13. t.contract = st.contract
    BY DEF SameRun
  <1>14. T = {SlotEvent(t, j, proof) : j \in Contracted(t, k + 1)}
    <2> HIDE DEF t
    <2> QED
      BY <1>6
  <1> HIDE DEF t, e, T
  <1>15. /\ t.sink.events \in Seq({SlotEvent(t, j, proof) : j \in Contracted(t, k + 1)})
         /\ Len(t.sink.events) = Number(t, k + 1)
    BY <1>1, <1>5, <1>6, <1>8, <1>14
  <1>16. \A j \in Contracted(t, k + 1) : t.sink.events[Number(t, j)] = SlotEvent(t, j, proof)
    BY <1>5, <1>6, <1>11
  <1>17. \A i \in DOMAIN t.sink.events :
            \E j \in Contracted(t, k + 1) :
                Number(t, j) = i /\ t.sink.events[i] = SlotEvent(t, j, proof)
    BY <1>5, <1>6, <1>12
  <1> QED
    BY <1>5, <1>13, <1>15, <1>16, <1>17 DEF HoldsSlots

Fields == {"workflow", "world", "contract", "harness", "run", "phase", "sink", "ablation_mode"}

Own(st) == IF st.workflow = "payment" THEN "commit_policy" ELSE "ablation"

WellFormed(st) ==
    /\ Fields \subseteq DOMAIN st
    /\ Own(st) \in DOMAIN st
    /\ st.workflow \in {"payment", "credit"}
    /\ HasSink(st)

(* t is s after some nodes: only its sink and its phase differ. *)
Moved(t, s) ==
    /\ DOMAIN t = DOMAIN s
    /\ \A f \in DOMAIN s \ {"sink", "phase"} : t[f] = s[f]
    /\ HasSink(t)
    /\ t.sink.id = s.sink.id

LEMMA MovedIsSame ==
    ASSUME NEW s, NEW t, WellFormed(s), Moved(t, s)
    PROVE  /\ SameRun(t, s)
           /\ WellFormed(t)
           /\ t.harness = s.harness
           /\ t.ablation_mode = s.ablation_mode
           /\ t[Own(s)] = s[Own(s)]
           /\ Own(t) = Own(s)
  <1>1. /\ t.workflow = s.workflow
        /\ t.world = s.world
        /\ t.run = s.run
        /\ t.contract = s.contract
        /\ t.harness = s.harness
        /\ t.ablation_mode = s.ablation_mode
    BY DEF WellFormed, Moved, Fields
  <1>2. Own(t) = Own(s)
    BY <1>1 DEF Own
  <1>3. t[Own(s)] = s[Own(s)]
    BY DEF WellFormed, Moved, Own
  <1> QED
    BY <1>1, <1>2, <1>3 DEF WellFormed, Moved, SameRun

LEMMA MovedIsTransitive ==
    ASSUME NEW s, NEW t, NEW u, Moved(t, s), Moved(u, t)
    PROVE  Moved(u, s)
  BY DEF Moved

LEMMA SameSinkHolds ==
    ASSUME NEW s, NEW t, SameRun(t, s), t.sink = s.sink, NEW k, NEW proof,
           HoldsSlots(s, k, proof)
    PROVE  HoldsSlots(t, k, proof)
  <1>1. /\ \A j : Contracted(t, j) = Contracted(s, j)
        /\ \A j : Number(t, j) = Number(s, j)
        /\ \A j : SlotEvent(t, j, proof) = SlotEvent(s, j, proof)
    BY SameRunSameSlots
  <1>2. t.contract = s.contract
    BY DEF SameRun
  <1> QED
    BY <1>1, <1>2 DEF HoldsSlots

LEMMA EnterMoves ==
    ASSUME NEW s, WellFormed(s), NEW phase
    PROVE  /\ Moved(Enter(s, phase), s)
           /\ Enter(s, phase).phase = phase
           /\ Enter(s, phase).sink = s.sink
           /\ \A k, proof : HoldsSlots(s, k, proof) => HoldsSlots(Enter(s, phase), k, proof)
  <1>1. /\ Moved(Enter(s, phase), s)
        /\ Enter(s, phase).phase = phase
        /\ Enter(s, phase).sink = s.sink
    BY DEF Enter, Moved, WellFormed, Fields, HasSink
  <1> QED
    BY <1>1, MovedIsSame, SameSinkHolds

LEMMA EmitSlot ==
    ASSUME NEW s, WellFormed(s), NEW k \in Nat, NEW proof, HoldsSlots(s, k, proof),
           NEW name, NEW names, NEW more,
           name = Slots(s)[k + 1],
           names = SlotNames(s, k + 1),
           more = SlotMore(s, k + 1, proof)
    PROVE  /\ Moved(EmitSome(s, name, names, more), s)
           /\ WellFormed(EmitSome(s, name, names, more))
           /\ EmitSome(s, name, names, more).workflow = s.workflow
           /\ EmitSome(s, name, names, more).world = s.world
           /\ HoldsSlots(EmitSome(s, name, names, more), k + 1, proof)
  <1> DEFINE t == EmitSome(s, name, names, more)
  <1>1. HasSink(s)
    BY DEF WellFormed
  <1>2. Moved(t, s)
    BY <1>1, EmitChangesSink DEF Moved
  <1>3. SameRun(t, s) /\ WellFormed(t)
    BY <1>2, MovedIsSame
  <1>4. HoldsSlots(t, k + 1, proof)
    BY <1>1, <1>3, EmitUncontracted, EmitContracted
  <1> QED
    BY <1>2, <1>3, <1>4 DEF SameRun

LEMMA PaymentTable ==
    ASSUME NEW s, s.workflow = "payment", NEW proof
    PROVE  /\ Slots(s)[1] = "canonical_action"
           /\ Slots(s)[2] = "coarse_amount_channel"
           /\ Slots(s)[3] = "amount_token"
           /\ Slots(s)[4] = "generic_agent_trace"
           /\ Slots(s)[5] = "model_advice"
           /\ Slots(s)[6] = "human_decision_record"
           /\ Slots(s)[7] = "approval_bound_receipt"
           /\ Slots(s)[8] = "delegation_context"
           /\ Slots(s)[9] = "policy_snapshot"
           /\ Slots(s)[10] = "coarse_policy_channel"
           /\ Slots(s)[11] = "policy_state_token"
           /\ Slots(s)[12] = "gateway_coverage"
           /\ Slots(s)[13] = "durable_effect_receipt"
           /\ Slots(s)[14] = "generic_agent_trace"
           /\ Slots(s)[15] = "final_output"
           /\ Slots(s)[16] = "virtualized_tool_omission_replay"
           /\ \A k \in Nat : k # 4 /\ k # 14 => SlotNames(s, k) = AllNames(s, Slots(s)[k])
           /\ SlotNames(s, 4) = {"model_recommendation", "human_decision"}
           /\ SlotNames(s, 14) = {"tool_response"}
           /\ \A k \in {2, 3, 5, 6, 8, 9, 10, 11, 12, 15} : SlotMore(s, k, proof) = NoMore
           /\ SlotMore(s, 1, proof) = [digest |-> ActionDigest(s)]
           /\ SlotMore(s, 4, proof) = [node |-> "review"]
           /\ SlotMore(s, 7, proof) = [digest |-> ApprovedDigest(s)]
           /\ SlotMore(s, 13, proof) = [digest |-> ActionDigest(s)]
           /\ SlotMore(s, 14, proof) = [node |-> "report"]
           /\ SlotMore(s, 16, proof) = [replay_proof |-> proof]
  <1>1. Slots(s) = PaymentSlots
    BY DEF Slots
  <1>2. /\ Slots(s)[1] = "canonical_action"
        /\ Slots(s)[2] = "coarse_amount_channel"
        /\ Slots(s)[3] = "amount_token"
        /\ Slots(s)[4] = "generic_agent_trace"
        /\ Slots(s)[5] = "model_advice"
        /\ Slots(s)[6] = "human_decision_record"
        /\ Slots(s)[7] = "approval_bound_receipt"
        /\ Slots(s)[8] = "delegation_context"
        /\ Slots(s)[9] = "policy_snapshot"
        /\ Slots(s)[10] = "coarse_policy_channel"
        /\ Slots(s)[11] = "policy_state_token"
        /\ Slots(s)[12] = "gateway_coverage"
        /\ Slots(s)[13] = "durable_effect_receipt"
        /\ Slots(s)[14] = "generic_agent_trace"
        /\ Slots(s)[15] = "final_output"
        /\ Slots(s)[16] = "virtualized_tool_omission_replay"
    BY <1>1 DEF PaymentSlots
  <1>3. /\ \A k \in Nat : k # 4 /\ k # 14 => SlotNames(s, k) = AllNames(s, Slots(s)[k])
        /\ SlotNames(s, 4) = {"model_recommendation", "human_decision"}
        /\ SlotNames(s, 14) = {"tool_response"}
    BY DEF SlotNames
  <1>4. /\ \A k \in {2, 3, 5, 6, 8, 9, 10, 11, 12, 15} : SlotMore(s, k, proof) = NoMore
        /\ SlotMore(s, 1, proof) = [digest |-> ActionDigest(s)]
        /\ SlotMore(s, 4, proof) = [node |-> "review"]
        /\ SlotMore(s, 7, proof) = [digest |-> ApprovedDigest(s)]
        /\ SlotMore(s, 13, proof) = [digest |-> ActionDigest(s)]
        /\ SlotMore(s, 14, proof) = [node |-> "report"]
        /\ SlotMore(s, 16, proof) = [replay_proof |-> proof]
    BY DEF SlotMore
  <1> QED
    BY <1>2, <1>3, <1>4

LEMMA CreditTable ==
    ASSUME NEW s, s.workflow = "credit", NEW proof
    PROVE  /\ Slots(s)[1] = "canonical_application"
           /\ Slots(s)[2] = "coarse_score_channel"
           /\ Slots(s)[3] = "score_token"
           /\ Slots(s)[4] = "feature_provenance"
           /\ Slots(s)[5] = "feature_coverage"
           /\ Slots(s)[6] = "policy_snapshot"
           /\ Slots(s)[7] = "coarse_credit_policy_channel"
           /\ Slots(s)[8] = "credit_policy_state_token"
           /\ Slots(s)[9] = "generic_decision_trace"
           /\ Slots(s)[10] = "model_reason_record"
           /\ Slots(s)[11] = "decision_receipt"
           /\ Slots(s)[12] = "notice_receipt"
           /\ Slots(s)[13] = "final_decision"
           /\ Slots(s)[14] = "virtualized_income_ablation"
           /\ \A k \in Nat : SlotNames(s, k) = AllNames(s, Slots(s)[k])
           /\ \A k \in {2, 3, 4, 5, 6, 7, 8, 9, 10, 12, 13} : SlotMore(s, k, proof) = NoMore
           /\ SlotMore(s, 1, proof) = [digest |-> ActionDigest(s)]
           /\ SlotMore(s, 11, proof) = [stored_application |-> StoredApplication(s)]
           /\ SlotMore(s, 14, proof) = [replay_proof |-> proof]
  <1>1. Slots(s) = CreditSlots
    BY DEF Slots
  <1>2. /\ Slots(s)[1] = "canonical_application"
        /\ Slots(s)[2] = "coarse_score_channel"
        /\ Slots(s)[3] = "score_token"
        /\ Slots(s)[4] = "feature_provenance"
        /\ Slots(s)[5] = "feature_coverage"
        /\ Slots(s)[6] = "policy_snapshot"
        /\ Slots(s)[7] = "coarse_credit_policy_channel"
        /\ Slots(s)[8] = "credit_policy_state_token"
        /\ Slots(s)[9] = "generic_decision_trace"
        /\ Slots(s)[10] = "model_reason_record"
        /\ Slots(s)[11] = "decision_receipt"
        /\ Slots(s)[12] = "notice_receipt"
        /\ Slots(s)[13] = "final_decision"
        /\ Slots(s)[14] = "virtualized_income_ablation"
    BY <1>1 DEF CreditSlots
  <1>3. \A k \in Nat : SlotNames(s, k) = AllNames(s, Slots(s)[k])
    BY DEF SlotNames
  <1>4. \A k : SlotMore(s, k, proof) =
                  CASE k = 1 -> [digest |-> ActionDigest(s)]
                    [] k = 11 -> [stored_application |-> StoredApplication(s)]
                    [] k = 14 -> [replay_proof |-> proof]
                    [] OTHER -> NoMore
    BY DEF SlotMore
  <1>5. \A k \in {2, 3, 4, 5, 6, 7, 8, 9, 10, 12, 13} : SlotMore(s, k, proof) = NoMore
    BY <1>4
  <1>6. /\ SlotMore(s, 1, proof) = [digest |-> ActionDigest(s)]
        /\ SlotMore(s, 11, proof) = [stored_application |-> StoredApplication(s)]
        /\ SlotMore(s, 14, proof) = [replay_proof |-> proof]
    BY <1>4
  <1> QED
    BY <1>2, <1>3, <1>5, <1>6

-----------------------------------------------------------------------------
(* What an event carries depends on few of the world's facts. *)

(* The two worlds differ in nothing but the facts of X. *)
AgreeBut(v, w, X) ==
    /\ DOMAIN v \ X = DOMAIN w \ X
    /\ \A fact \in DOMAIN w \ X : v[fact] = w[fact]

Ignores(spec, name, X) ==
    /\ spec.mechanisms[name].observes \cap X = {}
    /\ spec.mechanisms[name].entity # "unbound" =>
          spec.entities[spec.mechanisms[name].entity] \cap X = {}

(* What is asked of the mechanism is none of X. *)
IgnoresAsked(spec, name, names, X) ==
    /\ (spec.mechanisms[name].observes \cap names) \cap X = {}
    /\ spec.mechanisms[name].entity # "unbound" =>
          spec.entities[spec.mechanisms[name].entity] \cap X = {}

(* The facts that every event or token may read. *)
Rooted(spec, X) ==
    /\ spec.identity_fact \notin X
    /\ {"amount", "score", "policy_limit", "policy_effective", "approval_action_bound",
        "decision_record_bound"} \cap X = {}

(* The world has what the mechanism observes of it. *)
Known(spec, name, world) ==
    /\ spec.identity_fact \in DOMAIN world
    /\ \A o \in spec.mechanisms[name].observes :
          \/ o \in DOMAIN world \ DOMAIN TokenSources
          \/ o \in {"amount_redacted", "score_redacted", "policy_limit_redacted",
                    "policy_effective_present"}
          \/ o \in DOMAIN TokenSources /\ TokenSources[o] \subseteq DOMAIN world

LEMMA SameAttributes ==
    ASSUME NEW v, NEW w, NEW X, AgreeBut(v, w, X), NEW spec, Rooted(spec, X),
           NEW name, NEW names, IgnoresAsked(spec, name, names, X), Known(spec, name, w), NEW action,
           NEW more, DOMAIN more \cap {"binding_proof", "policy_version_id"} = {}
    PROVE  event_attributes(spec, name, v, action, names, more)
             = event_attributes(spec, name, w, action, names, more)
  <1> DEFINE mechanism == spec.mechanisms[name]
             fields == {"observation_values", "root_digest"}
                           \cup (IF mechanism.entity # "unbound" THEN {"binding_proof"} ELSE {})
                           \cup (IF mechanism.entity = "policy_version" THEN {"policy_version_id"}
                                 ELSE {})
                           \cup (IF name = spec.coverage THEN {"declared_mediator"} ELSE {})
             Field(world, field) ==
                 CASE field = "observation_values" -> observation_values(mechanism, world, names)
                   [] field = "root_digest" -> root_digest(spec, world)
                   [] field = "binding_proof" -> binding_proof(spec, world, mechanism, action)
                   [] field = "policy_version_id" ->
                          entity_identifier(spec, world, "policy_version")
                   [] field = "declared_mediator" -> spec.mediator
                   [] OTHER -> more[field]
  <1>1. ASSUME NEW o \in mechanism.observes \cap names
        PROVE  Observed(o, v) = Observed(o, w)
    <2>1. o \notin X
      BY <1>1 DEF IgnoresAsked
    <2>2. CASE o \in {"amount_redacted", "score_redacted", "policy_limit_redacted",
                      "policy_effective_present"}
      BY <2>2 DEF Observed, TokenSources
    <2>3. CASE o \in DOMAIN TokenSources /\ TokenSources[o] \subseteq DOMAIN w
      <3>1. \A fact \in TokenSources[o] : v[fact] = w[fact]
        BY <2>3 DEF TokenSources, Rooted, AgreeBut
      <3>2. [fact \in TokenSources[o] |-> v[fact]] = [fact \in TokenSources[o] |-> w[fact]]
        BY <3>1
      <3> QED
        BY <2>3, <3>2 DEF Observed, TokenSources
    <2>4. CASE o \in DOMAIN w /\ o \notin DOMAIN TokenSources
      BY <2>1, <2>4 DEF AgreeBut, Observed
    <2> QED
      BY <1>1, <2>2, <2>3, <2>4 DEF Known
  <1>2. observation_values(mechanism, v, names) = observation_values(mechanism, w, names)
    BY <1>1 DEF observation_values
  <1>3. root_digest(spec, v) = root_digest(spec, w)
    BY DEF AgreeBut, Rooted, Known, root_digest
  <1>4. ASSUME mechanism.entity # "unbound"
        PROVE  entity_identifier(spec, v, mechanism.entity)
                 = entity_identifier(spec, w, mechanism.entity)
    <2>1. spec.entities[mechanism.entity] \cap X = {}
      BY <1>4 DEF IgnoresAsked
    <2>2. spec.entities[mechanism.entity] \cap DOMAIN v
            = spec.entities[mechanism.entity] \cap DOMAIN w
      BY <2>1 DEF AgreeBut
    <2>3. \A fact \in spec.entities[mechanism.entity] \cap DOMAIN w : v[fact] = w[fact]
      BY <2>1 DEF AgreeBut
    <2> QED
      BY <2>2, <2>3 DEF entity_identifier
  <1>5. ASSUME NEW field \in fields \cup DOMAIN more
        PROVE  Field(v, field) = Field(w, field)
    <2>1. CASE field = "binding_proof"
      <3>1. mechanism.entity # "unbound"
        BY <1>5, <2>1
      <3> QED
        BY <1>4, <2>1, <3>1 DEF binding_proof
    <2>2. CASE field = "policy_version_id"
      <3>1. mechanism.entity = "policy_version"
        BY <1>5, <2>2
      <3> QED
        BY <1>4, <2>2, <3>1
    <2>3. CASE field \notin {"binding_proof", "policy_version_id"}
      BY <1>2, <1>3, <2>3
    <2> QED
      BY <2>1, <2>2, <2>3
  <1>6. \A world : event_attributes(spec, name, world, action, names, more)
                     = [field \in fields \cup DOMAIN more |-> Field(world, field)]
    BY DEF event_attributes
  <1> HIDE DEF Field, fields
  <1> QED
    BY <1>5, <1>6

(* The catalogues, mechanism by mechanism. *)

LEMMA PaymentCatalogue ==
  /\ PaymentSpec.mechanisms = PaymentMechanisms
  /\ DOMAIN PaymentMechanisms =
         {"amount_token", "approval_bound_receipt", "canonical_action",
         "coarse_amount_channel", "coarse_policy_channel", "delegation_context",
         "durable_effect_receipt", "final_output", "gateway_coverage",
         "generic_agent_trace", "human_decision_record", "irreversible_wire_replay",
         "model_advice", "policy_snapshot", "policy_state_token",
         "virtualized_tool_omission_replay"}
  /\ PaymentMechanisms.final_output.observes = {"tool_response"}
  /\ PaymentMechanisms.final_output.entity = "unbound"
  /\ PaymentMechanisms.generic_agent_trace.observes =
        {"tool_response", "model_recommendation", "human_decision"}
  /\ PaymentMechanisms.generic_agent_trace.entity = "review"
  /\ PaymentMechanisms.canonical_action.observes = {"amount"}
  /\ PaymentMechanisms.canonical_action.entity = "unbound"
  /\ PaymentMechanisms.approval_bound_receipt.observes =
        {"approval_signature_valid", "approval_action_bound"}
  /\ PaymentMechanisms.approval_bound_receipt.entity = "approval"
  /\ PaymentMechanisms.delegation_context.observes = {"delegation_executor_bound"}
  /\ PaymentMechanisms.delegation_context.entity = "delegation"
  /\ PaymentMechanisms.policy_snapshot.observes = {"policy_limit", "policy_effective"}
  /\ PaymentMechanisms.policy_snapshot.entity = "policy_version"
  /\ PaymentMechanisms.model_advice.observes = {"model_recommendation"}
  /\ PaymentMechanisms.model_advice.entity = "review"
  /\ PaymentMechanisms.human_decision_record.observes = {"human_decision"}
  /\ PaymentMechanisms.human_decision_record.entity = "review"
  /\ PaymentMechanisms.durable_effect_receipt.observes = {"ledger_commit_count"}
  /\ PaymentMechanisms.durable_effect_receipt.entity = "ledger_transaction"
  /\ PaymentMechanisms.gateway_coverage.observes = {"gateway_coverage_complete"}
  /\ PaymentMechanisms.gateway_coverage.entity = "unbound"
  /\ PaymentMechanisms.coarse_amount_channel.observes = {"amount_redacted"}
  /\ PaymentMechanisms.coarse_amount_channel.entity = "unbound"
  /\ PaymentMechanisms.amount_token.observes = {"amount_domain_token"}
  /\ PaymentMechanisms.amount_token.entity = "unbound"
  /\ PaymentMechanisms.coarse_policy_channel.observes =
        {"policy_limit_redacted", "policy_effective_present"}
  /\ PaymentMechanisms.coarse_policy_channel.entity = "policy_version"
  /\ PaymentMechanisms.policy_state_token.observes = {"policy_state_domain_token"}
  /\ PaymentMechanisms.policy_state_token.entity = "policy_version"
  /\ PaymentMechanisms.virtualized_tool_omission_replay.observes =
        {"duplicate_without_tool_response"}
  /\ PaymentMechanisms.virtualized_tool_omission_replay.entity = "replay_run"
  /\ PaymentMechanisms.irreversible_wire_replay.observes = {"duplicate_without_tool_response"}
  /\ PaymentMechanisms.irreversible_wire_replay.entity = "replay_run"
  BY DEF PaymentSpec, PaymentMechanisms, Channel

LEMMA CreditCatalogue ==
  /\ CreditSpec.mechanisms = CreditMechanisms
  /\ DOMAIN CreditMechanisms =
         {"canonical_application", "coarse_credit_policy_channel",
         "coarse_score_channel", "credit_policy_state_token", "decision_receipt",
         "feature_coverage", "feature_provenance", "final_decision",
         "generic_decision_trace", "model_reason_record", "notice_receipt",
         "policy_snapshot", "score_token", "virtualized_income_ablation"}
  /\ CreditMechanisms.final_decision.observes = {"human_decision"}
  /\ CreditMechanisms.final_decision.entity = "unbound"
  /\ CreditMechanisms.generic_decision_trace.observes =
        {"model_decision", "human_decision", "model_reason_code"}
  /\ CreditMechanisms.generic_decision_trace.entity = "decision"
  /\ CreditMechanisms.canonical_application.observes = {"score"}
  /\ CreditMechanisms.canonical_application.entity = "unbound"
  /\ CreditMechanisms.policy_snapshot.observes = {"policy_limit", "policy_effective"}
  /\ CreditMechanisms.policy_snapshot.entity = "policy_version"
  /\ CreditMechanisms.feature_provenance.observes = {"feature_source_bound"}
  /\ CreditMechanisms.feature_provenance.entity = "feature"
  /\ CreditMechanisms.feature_coverage.observes = {"feature_channel_complete"}
  /\ CreditMechanisms.feature_coverage.entity = "feature"
  /\ CreditMechanisms.model_reason_record.observes = {"model_decision", "model_reason_code"}
  /\ CreditMechanisms.model_reason_record.entity = "decision"
  /\ CreditMechanisms.decision_receipt.observes = {"human_decision", "decision_record_bound"}
  /\ CreditMechanisms.decision_receipt.entity = "decision"
  /\ CreditMechanisms.notice_receipt.observes = {"notice_reason_code"}
  /\ CreditMechanisms.notice_receipt.entity = "adverse_notice"
  /\ CreditMechanisms.coarse_score_channel.observes = {"score_redacted"}
  /\ CreditMechanisms.coarse_score_channel.entity = "unbound"
  /\ CreditMechanisms.score_token.observes = {"score_domain_token"}
  /\ CreditMechanisms.score_token.entity = "unbound"
  /\ CreditMechanisms.coarse_credit_policy_channel.observes =
        {"policy_limit_redacted", "policy_effective_present"}
  /\ CreditMechanisms.coarse_credit_policy_channel.entity = "policy_version"
  /\ CreditMechanisms.credit_policy_state_token.observes = {"policy_state_domain_token"}
  /\ CreditMechanisms.credit_policy_state_token.entity = "policy_version"
  /\ CreditMechanisms.virtualized_income_ablation.observes = {"denial_without_income_feature"}
  /\ CreditMechanisms.virtualized_income_ablation.entity = "replay_run"
  BY DEF CreditSpec, CreditMechanisms, Channel

LEMMA SpecFields ==
  /\ PaymentSpec.identity_fact = "amount"
  /\ CreditSpec.identity_fact = "score"
  /\ PaymentSpec.replay = "virtualized_tool_omission_replay"
  /\ CreditSpec.replay = "virtualized_income_ablation"
  /\ PaymentSpec.coverage = "gateway_coverage"
  /\ CreditSpec.coverage = "feature_coverage"
  /\ PaymentSpec.min_trials = 1
  /\ CreditSpec.min_trials = 3
  BY DEF PaymentSpec, CreditSpec

LEMMA EntityFields ==
  /\ PaymentSpec.entities.approval = {"approval_signature_valid", "approval_action_bound"}
  /\ PaymentSpec.entities.delegation = {"delegation_executor_bound"}
  /\ PaymentSpec.entities.policy_version = {"policy_limit", "policy_effective"}
  /\ PaymentSpec.entities.review = {"model_recommendation", "human_decision"}
  /\ PaymentSpec.entities.ledger_transaction = {"ledger_commit_count"}
  /\ PaymentSpec.entities.replay_run = {"duplicate_without_tool_response"}
  /\ CreditSpec.entities.decision =
        {"model_decision", "human_decision", "model_reason_code", "decision_record_bound"}
  /\ CreditSpec.entities.feature = {"feature_source_bound", "feature_channel_complete"}
  /\ CreditSpec.entities.policy_version = {"policy_limit", "policy_effective"}
  /\ CreditSpec.entities.adverse_notice = {"notice_reason_code"}
  /\ CreditSpec.entities.replay_run = {"denial_without_income_feature"}
  BY DEF PaymentSpec, CreditSpec

(* The replays of both catalogues; the last of them has no harness. *)
Replays == {"virtualized_tool_omission_replay", "virtualized_income_ablation",
            "irreversible_wire_replay"}

LEMMA ReplaysAre ==
    ASSUME NEW s, s.workflow \in {"payment", "credit"}, NEW name \in DOMAIN Spec(s).mechanisms
    PROVE  IsReplay(Spec(s), name) <=> name \in Replays
  <1>1. CASE s.workflow = "payment"
    BY <1>1, PaymentCatalogue DEF Spec, IsReplay, Replays
  <1>2. CASE s.workflow = "credit"
    BY <1>2, CreditCatalogue DEF Spec, IsReplay, Replays
  <1> QED
    BY <1>1, <1>2

LEMMA SettlementIsIgnored ==
    ASSUME NEW name \in DOMAIN PaymentMechanisms \ {"durable_effect_receipt"}
    PROVE  Ignores(PaymentSpec, name, {"ledger_commit_count"})
  BY PaymentCatalogue, EntityFields DEF Ignores

LEMMA OmissionIsIgnored ==
    ASSUME NEW name \in DOMAIN PaymentMechanisms \ Replays
    PROVE  Ignores(PaymentSpec, name, {"duplicate_without_tool_response"})
  BY PaymentCatalogue, EntityFields DEF Ignores, Replays

DecisionFacts == {"model_decision", "human_decision", "model_reason_code"}

LEMMA DecisionIsIgnored ==
    ASSUME NEW name \in {"canonical_application", "coarse_score_channel", "score_token",
                         "feature_provenance", "feature_coverage", "policy_snapshot",
                         "coarse_credit_policy_channel", "credit_policy_state_token"}
    PROVE  Ignores(CreditSpec, name, DecisionFacts)
  BY CreditCatalogue, EntityFields DEF Ignores, DecisionFacts

LEMMA AblationIsIgnored ==
    ASSUME NEW name \in DOMAIN CreditMechanisms \ Replays
    PROVE  Ignores(CreditSpec, name, {"denial_without_income_feature"})
  BY CreditCatalogue, EntityFields DEF Ignores, Replays

LEMMA MoreIsApart ==
    ASSUME NEW s, NEW k, NEW proof
    PROVE  DOMAIN SlotMore(s, k, proof) \subseteq
               {"digest", "node", "stored_application", "replay_proof"}
  <1>1. DOMAIN NoMore = {}
    BY DEF NoMore
  <1> QED
    BY <1>1 DEF SlotMore

(* The world of a run has the facts of its workflow. *)
Informed(s) ==
    \/ s.workflow = "payment" /\ PaymentFacts \subseteq DOMAIN s.world
    \/ s.workflow = "credit" /\ CreditFacts \subseteq DOMAIN s.world

LEMMA InformedIsKnown ==
    ASSUME NEW s, Informed(s), NEW name \in DOMAIN Spec(s).mechanisms \ Replays
    PROVE  Known(Spec(s), name, s.world)
  <1>1. CASE s.workflow = "payment" /\ PaymentFacts \subseteq DOMAIN s.world
    <2>1. Spec(s) = PaymentSpec
      BY <1>1 DEF Spec
    <2>2. name \in DOMAIN PaymentMechanisms \ Replays
      BY <2>1, PaymentCatalogue
    <2>3. /\ DOMAIN TokenSources =
               {"amount_domain_token", "score_domain_token", "policy_state_domain_token"}
          /\ TokenSources.amount_domain_token = {"amount"}
          /\ TokenSources.policy_state_domain_token = {"policy_limit", "policy_effective"}
      BY DEF TokenSources
    <2>4. "amount" \in DOMAIN s.world
      BY <1>1 DEF PaymentFacts
    <2>5. \A o \in PaymentMechanisms[name].observes :
             \/ o \in PaymentFacts
             \/ o \in {"amount_redacted", "policy_limit_redacted", "policy_effective_present",
                       "amount_domain_token", "policy_state_domain_token"}
      BY <2>2, PaymentCatalogue DEF PaymentFacts, Replays
    <2>6. /\ {"amount", "policy_limit", "policy_effective"} \subseteq DOMAIN s.world
          /\ PaymentFacts \cap DOMAIN TokenSources = {}
      BY <1>1, <2>3 DEF PaymentFacts
    <2> QED
      BY <1>1, <2>1, <2>3, <2>4, <2>5, <2>6, PaymentCatalogue, SpecFields DEF Known
  <1>2. CASE s.workflow = "credit" /\ CreditFacts \subseteq DOMAIN s.world
    <2>1. Spec(s) = CreditSpec
      BY <1>2 DEF Spec
    <2>2. name \in DOMAIN CreditMechanisms \ Replays
      BY <2>1, CreditCatalogue
    <2>3. /\ DOMAIN TokenSources =
               {"amount_domain_token", "score_domain_token", "policy_state_domain_token"}
          /\ TokenSources.score_domain_token = {"score"}
          /\ TokenSources.policy_state_domain_token = {"policy_limit", "policy_effective"}
      BY DEF TokenSources
    <2>4. "score" \in DOMAIN s.world
      BY <1>2 DEF CreditFacts
    <2>5. \A o \in CreditMechanisms[name].observes :
             \/ o \in CreditFacts
             \/ o \in {"score_redacted", "policy_limit_redacted", "policy_effective_present",
                       "score_domain_token", "policy_state_domain_token"}
      BY <2>2, CreditCatalogue DEF CreditFacts, Replays
    <2>6. /\ {"score", "policy_limit", "policy_effective"} \subseteq DOMAIN s.world
          /\ CreditFacts \cap DOMAIN TokenSources = {}
      BY <1>2, <2>3 DEF CreditFacts
    <2> QED
      BY <1>2, <2>1, <2>3, <2>4, <2>5, <2>6, CreditCatalogue, SpecFields DEF Known
  <1> QED
    BY <1>1, <1>2 DEF Informed

LEMMA NewWorldHolds ==
    ASSUME NEW s, NEW t, NEW X, NEW k \in Nat, NEW proof,
           HoldsSlots(s, k, proof),
           t.sink = s.sink, t.workflow = s.workflow, t.run = s.run, t.contract = s.contract,
           AgreeBut(t.world, s.world, X), Rooted(Spec(s), X), Informed(s),
           s.contract \subseteq DOMAIN Spec(s).mechanisms,
           \A j \in Contracted(s, k) :
               Ignores(Spec(s), Slots(s)[j], X) /\ Slots(s)[j] \notin Replays
    PROVE  HoldsSlots(t, k, proof)
  <1>1. Spec(t) = Spec(s) /\ Slots(t) = Slots(s)
    BY DEF Spec, Slots
  <1>2. /\ \A j : Contracted(t, j) = Contracted(s, j)
        /\ \A j : Number(t, j) = Number(s, j)
    BY <1>1 DEF Contracted, Number
  <1>3. /\ ActionDigest(t) = ActionDigest(s)
        /\ _action_identity(Spec(t), t.world) = _action_identity(Spec(s), s.world)
    <2>1. Spec(s).identity_fact \in DOMAIN s.world
      BY SpecFields DEF Informed, Spec, PaymentFacts, CreditFacts
    <2>2. t.world[Spec(s).identity_fact] = s.world[Spec(s).identity_fact]
      BY <2>1 DEF AgreeBut, Rooted
    <2> QED
      BY <1>1, <2>2 DEF ActionDigest, _action_identity
  <1>4. /\ s.workflow = "payment" => ApprovedDigest(t) = ApprovedDigest(s)
        /\ s.workflow # "payment" => StoredApplication(t) = StoredApplication(s)
    <2>1. CASE s.workflow = "payment"
      <3>1. t.world.approval_action_bound = s.world.approval_action_bound
        BY <2>1 DEF AgreeBut, Rooted, Informed, PaymentFacts
      <3> QED
        BY <1>3, <2>1, <3>1 DEF ApprovedDigest
    <2>2. CASE s.workflow # "payment"
      <3>1. t.world.decision_record_bound = s.world.decision_record_bound
        BY <2>2 DEF AgreeBut, Rooted, Informed, CreditFacts
      <3> QED
        BY <1>3, <2>2, <3>1 DEF StoredApplication
    <2> QED
      BY <2>1, <2>2
  <1>5. \A j : SlotMore(t, j, proof) = SlotMore(s, j, proof)
    BY <1>3, <1>4 DEF SlotMore
  <1>6. \A j : SlotNames(t, j) = SlotNames(s, j)
    BY <1>1 DEF SlotNames, AllNames
  <1>7. ASSUME NEW j \in Contracted(s, k)
        PROVE  SlotAttributes(t, j, proof) = SlotAttributes(s, j, proof)
    <2> DEFINE action == _action_identity(Spec(s), s.world)
    <2>1. /\ IgnoresAsked(Spec(s), Slots(s)[j], SlotNames(s, j), X)
          /\ Known(Spec(s), Slots(s)[j], s.world)
      <3>1. Slots(s)[j] \in DOMAIN Spec(s).mechanisms
        BY DEF Contracted
      <3>2. Ignores(Spec(s), Slots(s)[j], X)
        OBVIOUS
      <3>3. IgnoresAsked(Spec(s), Slots(s)[j], SlotNames(s, j), X)
        BY <3>2 DEF Ignores, IgnoresAsked
      <3> QED
        BY <3>1, <3>3, InformedIsKnown
    <2>2. DOMAIN SlotMore(s, j, proof) \cap {"binding_proof", "policy_version_id"} = {}
      BY MoreIsApart
    <2>3. event_attributes(Spec(s), Slots(s)[j], t.world, action, SlotNames(s, j),
                           SlotMore(s, j, proof))
            = event_attributes(Spec(s), Slots(s)[j], s.world, action, SlotNames(s, j),
                               SlotMore(s, j, proof))
      BY <2>1, <2>2, SameAttributes
    <2> QED
      BY <1>1, <1>3, <1>5, <1>6, <2>3 DEF SlotAttributes
  <1>8. \A n : Hash(t, n) = Hash(s, n)
    BY DEF Hash
  <1>9. \A j \in Contracted(s, k) : SlotEvent(t, j, proof) = SlotEvent(s, j, proof)
    BY <1>1, <1>2, <1>3, <1>7, <1>8 DEF SlotEvent
  <1>10. {SlotEvent(t, j, proof) : j \in Contracted(t, k)}
            = {SlotEvent(s, j, proof) : j \in Contracted(s, k)}
    BY <1>2, <1>9
  <1> QED
    BY <1>2, <1>9, <1>10 DEF HoldsSlots

-----------------------------------------------------------------------------
(* The nodes of the graphs, from slot to slot. *)

(* t is s after nodes that end in this phase with the slots up to k emitted. *)
Reaches(t, s, phase, k, proof) ==
    /\ Moved(t, s)
    /\ t.phase = phase
    /\ HoldsSlots(t, k, proof)

LEMMA BothEmit ==
    ASSUME NEW s, WellFormed(s), NEW k \in Nat, NEW proof, HoldsSlots(s, k, proof),
           NEW first, NEW second,
           first = Slots(s)[k + 1], SlotNames(s, k + 1) = AllNames(s, first),
           SlotMore(s, k + 1, proof) = NoMore,
           second = Slots(s)[k + 2], SlotNames(s, k + 2) = AllNames(s, second),
           SlotMore(s, k + 2, proof) = NoMore
    PROVE  /\ Moved(EmitBoth(s, first, second), s)
           /\ WellFormed(EmitBoth(s, first, second))
           /\ HoldsSlots(EmitBoth(s, first, second), k + 2, proof)
  <1> DEFINE t == Emit(s, first, NoMore)
             u == Emit(t, second, NoMore)
  <1>1. Moved(t, s) /\ WellFormed(t) /\ HoldsSlots(t, k + 1, proof)
    BY EmitSlot DEF Emit
  <1>2. /\ Slots(t) = Slots(s)
        /\ Spec(t) = Spec(s)
        /\ SlotNames(t, k + 2) = SlotNames(s, k + 2)
        /\ SlotMore(t, k + 2, proof) = SlotMore(s, k + 2, proof)
    BY <1>1, MovedIsSame, SameRunSameSlots
  <1>3. AllNames(t, second) = AllNames(s, second)
    BY <1>2 DEF AllNames
  <1> HIDE DEF t
  <1>4. k + 1 \in Nat /\ (k + 1) + 1 = k + 2
    OBVIOUS
  <1>5. Moved(u, t) /\ WellFormed(u) /\ HoldsSlots(u, k + 2, proof)
    BY <1>1, <1>2, <1>3, <1>4, EmitSlot DEF Emit
  <1>6. Moved(u, s)
    BY <1>1, <1>5, MovedIsTransitive
  <1> QED
    BY <1>5, <1>6 DEF EmitBoth, t

LEMMA EntersAfter ==
    ASSUME NEW s, WellFormed(s), NEW t, Moved(t, s), NEW k, NEW proof, HoldsSlots(t, k, proof),
           NEW phase
    PROVE  Reaches(Enter(t, phase), s, phase, k, proof)
  BY MovedIsSame, EnterMoves, MovedIsTransitive DEF Reaches

LEMMA CanonicalizePayment ==
    ASSUME NEW s, WellFormed(s), s.workflow = "payment", NEW proof, HoldsSlots(s, 0, proof)
    PROVE  Reaches(canonicalize(s), s, "canonicalized", 3, proof)
  <1> DEFINE t == Emit(s, "canonical_action", [digest |-> ActionDigest(s)])
             u == EmitBoth(t, "coarse_amount_channel", "amount_token")
  <1>1. Moved(t, s) /\ WellFormed(t) /\ t.workflow = "payment" /\ HoldsSlots(t, 1, proof)
    BY PaymentTable, EmitSlot DEF Emit
  <1>2. canonicalize(s) = Enter(u, "canonicalized")
    BY DEF canonicalize
  <1> HIDE DEF t
  <1>3. Moved(u, t) /\ HoldsSlots(u, 3, proof)
    BY <1>1, PaymentTable, BothEmit
  <1> HIDE DEF u
  <1>4. Moved(u, s)
    BY <1>1, <1>3, MovedIsTransitive
  <1> QED
    BY <1>2, <1>3, <1>4, EntersAfter

LEMMA ReviewPayment ==
    ASSUME NEW s, WellFormed(s), s.workflow = "payment", NEW proof, HoldsSlots(s, 3, proof)
    PROVE  Reaches(review(s), s, "reviewed", 6, proof)
  <1> DEFINE t == EmitSome(s, "generic_agent_trace", {"model_recommendation", "human_decision"},
                           [node |-> "review"])
             u == EmitBoth(t, "model_advice", "human_decision_record")
  <1>a. /\ Slots(s)[3 + 1] = "generic_agent_trace"
        /\ SlotNames(s, 3 + 1) = {"model_recommendation", "human_decision"}
        /\ SlotMore(s, 3 + 1, proof) = [node |-> "review"]
    BY PaymentTable
  <1>1. Moved(t, s) /\ WellFormed(t) /\ t.workflow = "payment" /\ HoldsSlots(t, 4, proof)
    <2> DEFINE names == {"model_recommendation", "human_decision"}
               more == [node |-> "review"]
               x == EmitSome(s, "generic_agent_trace", names, more)
    <2>1. names = SlotNames(s, 3 + 1) /\ more = SlotMore(s, 3 + 1, proof)
      BY <1>a
    <2> HIDE DEF names, more
    <2>2. Moved(x, s) /\ WellFormed(x) /\ x.workflow = s.workflow /\ HoldsSlots(x, 3 + 1, proof)
      BY <1>a, <2>1, EmitSlot
    <2> QED
      BY <2>2 DEF names, more
  <1>2. review(s) = Enter(u, "reviewed")
    BY DEF review
  <1> HIDE DEF t
  <1>3. Moved(u, t) /\ HoldsSlots(u, 6, proof)
    BY <1>1, PaymentTable, BothEmit
  <1> HIDE DEF u
  <1>4. Moved(u, s)
    BY <1>1, <1>3, MovedIsTransitive
  <1> QED
    BY <1>2, <1>3, <1>4, EntersAfter

LEMMA ApprovalPayment ==
    ASSUME NEW s, WellFormed(s), s.workflow = "payment", NEW proof, HoldsSlots(s, 6, proof)
    PROVE  Reaches(approval(s), s, "approval_captured", 7, proof)
  <1> DEFINE t == Emit(s, "approval_bound_receipt", [digest |-> ApprovedDigest(s)])
  <1>1. Moved(t, s) /\ HoldsSlots(t, 7, proof)
    BY PaymentTable, EmitSlot DEF Emit
  <1>2. approval(s) = Enter(t, "approval_captured")
    BY DEF approval
  <1> HIDE DEF t
  <1> QED
    BY <1>1, <1>2, EntersAfter

LEMMA AuthorityPayment ==
    ASSUME NEW s, WellFormed(s), s.workflow = "payment", NEW proof, HoldsSlots(s, 7, proof)
    PROVE  Reaches(authority(s), s, "authority_captured", 8, proof)
  <1> DEFINE t == Emit(s, "delegation_context", NoMore)
  <1>1. Moved(t, s) /\ HoldsSlots(t, 8, proof)
    BY PaymentTable, EmitSlot DEF Emit
  <1>2. authority(s) = Enter(t, "authority_captured")
    BY DEF authority
  <1> HIDE DEF t
  <1> QED
    BY <1>1, <1>2, EntersAfter

LEMMA PolicyPayment ==
    ASSUME NEW s, WellFormed(s), s.workflow = "payment", NEW proof, HoldsSlots(s, 8, proof)
    PROVE  Reaches(policy(s), s, "policy_captured", 11, proof)
  <1> DEFINE t == Emit(s, "policy_snapshot", NoMore)
             u == EmitBoth(t, "coarse_policy_channel", "policy_state_token")
  <1>1. Moved(t, s) /\ WellFormed(t) /\ t.workflow = "payment" /\ HoldsSlots(t, 9, proof)
    BY PaymentTable, EmitSlot DEF Emit
  <1>2. policy(s) = Enter(u, "policy_captured")
    BY DEF policy
  <1> HIDE DEF t
  <1>3. Moved(u, t) /\ HoldsSlots(u, 11, proof)
    BY <1>1, PaymentTable, BothEmit
  <1> HIDE DEF u
  <1>4. Moved(u, s)
    BY <1>1, <1>3, MovedIsTransitive
  <1> QED
    BY <1>2, <1>3, <1>4, EntersAfter

LEMMA ReportPayment ==
    ASSUME NEW s, WellFormed(s), s.workflow = "payment", NEW proof, HoldsSlots(s, 13, proof)
    PROVE  Reaches(report(s), s, "reported", 15, proof)
  <1> DEFINE t == EmitSome(s, "generic_agent_trace", {"tool_response"}, [node |-> "report"])
             u == Emit(t, "final_output", NoMore)
  <1>a. /\ Slots(s)[13 + 1] = "generic_agent_trace"
        /\ SlotNames(s, 13 + 1) = {"tool_response"}
        /\ SlotMore(s, 13 + 1, proof) = [node |-> "report"]
    BY PaymentTable
  <1>1. Moved(t, s) /\ WellFormed(t) /\ t.workflow = "payment" /\ HoldsSlots(t, 14, proof)
    <2>1. /\ Moved(t, s) /\ WellFormed(t) /\ t.workflow = s.workflow
          /\ HoldsSlots(t, 13 + 1, proof)
      BY <1>a, EmitSlot
    <2> QED
      BY <2>1
  <1>2. report(s) = Enter(u, "reported")
    BY DEF report
  <1> HIDE DEF t
  <1>3. Moved(u, t) /\ HoldsSlots(u, 15, proof)
    BY <1>1, PaymentTable, EmitSlot DEF Emit
  <1> HIDE DEF u
  <1>4. Moved(u, s)
    BY <1>1, <1>3, MovedIsTransitive
  <1> QED
    BY <1>2, <1>3, <1>4, EntersAfter

(* A state whose world has changed. *)
InWorld(s, world) == [s EXCEPT !.world = world]

LEMMA InWorldKeeps ==
    ASSUME NEW s, WellFormed(s), NEW world
    PROVE  /\ WellFormed(InWorld(s, world))
           /\ InWorld(s, world).world = world
           /\ DOMAIN InWorld(s, world) = DOMAIN s
           /\ \A f \in DOMAIN s \ {"world"} : InWorld(s, world)[f] = s[f]
           /\ InWorld(s, world).workflow = s.workflow
           /\ InWorld(s, world).contract = s.contract
           /\ InWorld(s, world).run = s.run
           /\ InWorld(s, world).sink = s.sink
           /\ Spec(InWorld(s, world)) = Spec(s)
  <1>1. /\ InWorld(s, world).world = world
        /\ DOMAIN InWorld(s, world) = DOMAIN s
        /\ \A f \in DOMAIN s \ {"world"} : InWorld(s, world)[f] = s[f]
    BY DEF InWorld, WellFormed, Fields
  <1>2. /\ InWorld(s, world).workflow = s.workflow
        /\ InWorld(s, world).contract = s.contract
        /\ InWorld(s, world).run = s.run
        /\ InWorld(s, world).sink = s.sink
    BY <1>1 DEF WellFormed, Fields
  <1> QED
    BY <1>1, <1>2 DEF WellFormed, Own, HasSink, Spec

LEMMA ContractedSlots ==
    ASSUME NEW s, s.contract \subseteq DOMAIN Spec(s).mechanisms, NEW k, NEW j \in Contracted(s, k)
    PROVE  Slots(s)[j] \in DOMAIN Spec(s).mechanisms /\ j \in 1 .. k
  BY DEF Contracted

(* The world of a payment after its rows are counted. *)
CountedWorld(s, rows) ==
    [s.world EXCEPT !.ledger_commit_count = Cardinality(RowsOf(s, rows))]

LEMMA SettlePayment ==
    ASSUME NEW s, WellFormed(s), s.workflow = "payment", NEW proof, HoldsSlots(s, 11, proof),
           s.contract \subseteq DOMAIN PaymentMechanisms, Informed(s), NEW rows
    PROVE  Reaches(settle(s, rows), InWorld(s, CountedWorld(s, rows)), "effect_committed", 13,
                   proof)
  <1> DEFINE c == InWorld(s, CountedWorld(s, rows))
             t == Emit(c, "gateway_coverage", NoMore)
             u == Emit(t, "durable_effect_receipt", [digest |-> ActionDigest(s)])
  <1>1. /\ WellFormed(c)
        /\ c.world = CountedWorld(s, rows)
        /\ c.workflow = "payment"
        /\ c.sink = s.sink /\ c.run = s.run /\ c.contract = s.contract
    BY InWorldKeeps
  <1>2. AgreeBut(c.world, s.world, {"ledger_commit_count"})
    <2> HIDE DEF c
    <2> QED
      BY <1>1 DEF AgreeBut, CountedWorld
  <1>3. Rooted(Spec(s), {"ledger_commit_count"}) /\ Spec(s) = PaymentSpec
    BY SpecFields DEF Rooted, Spec
  <1>4. \A j \in Contracted(s, 11) :
           /\ Ignores(Spec(s), Slots(s)[j], {"ledger_commit_count"})
           /\ Slots(s)[j] \notin Replays
    <2> SUFFICES ASSUME NEW j \in Contracted(s, 11)
                 PROVE  /\ Ignores(Spec(s), Slots(s)[j], {"ledger_commit_count"})
                        /\ Slots(s)[j] \notin Replays
      OBVIOUS
    <2>1. Slots(s)[j] \in DOMAIN PaymentMechanisms /\ j \in 1 .. 11
      BY <1>3, ContractedSlots, PaymentCatalogue
    <2>2. /\ Slots(s)[j] # "durable_effect_receipt"
          /\ Slots(s)[j] \notin Replays
      BY <2>1, PaymentTable DEF Replays
    <2> QED
      BY <1>3, <2>1, <2>2, SettlementIsIgnored
  <1>5. HoldsSlots(c, 11, proof)
    BY <1>1, <1>2, <1>3, <1>4, PaymentCatalogue, NewWorldHolds
  <1>6. ActionDigest(s) = ActionDigest(c)
    <2>1. s.world.amount = c.world.amount
      BY <1>2 DEF AgreeBut, Informed, PaymentFacts
    <2> QED
      BY <1>1, <1>3, <2>1, SpecFields DEF ActionDigest, Spec
  <1>7. settle(s, rows) = Enter(u, "effect_committed")
    BY DEF settle, InWorld, CountedWorld
  <1> HIDE DEF c
  <1>8. Moved(t, c) /\ WellFormed(t) /\ t.workflow = "payment" /\ HoldsSlots(t, 12, proof)
        /\ t.world = c.world
    BY <1>1, <1>5, PaymentTable, EmitSlot DEF Emit
  <1>9. ActionDigest(s) = ActionDigest(t)
    BY <1>1, <1>6, <1>8 DEF ActionDigest, Spec
  <1> HIDE DEF t
  <1>10. Moved(u, t) /\ HoldsSlots(u, 13, proof)
    <2>1. /\ Slots(t)[12 + 1] = "durable_effect_receipt"
          /\ SlotNames(t, 12 + 1) = AllNames(t, "durable_effect_receipt")
          /\ SlotMore(t, 12 + 1, proof) = [digest |-> ActionDigest(s)]
      BY <1>8, <1>9, PaymentTable
    <2>2. Moved(u, t) /\ HoldsSlots(u, 12 + 1, proof)
      BY <1>8, <2>1, EmitSlot DEF Emit
    <2> QED
      BY <2>2
  <1> HIDE DEF u
  <1>11. Moved(u, c)
    BY <1>8, <1>10, MovedIsTransitive
  <1>12. Reaches(Enter(u, "effect_committed"), c, "effect_committed", 13, proof)
    BY <1>1, <1>10, <1>11, EntersAfter
  <1> QED
    BY <1>7, <1>12 DEF c

LEMMA CanonicalizeCredit ==
    ASSUME NEW s, WellFormed(s), s.workflow = "credit", NEW proof, HoldsSlots(s, 0, proof)
    PROVE  Reaches(canonicalize(s), s, "canonicalized", 3, proof)
  <1> DEFINE t == Emit(s, "canonical_application", [digest |-> ActionDigest(s)])
             u == EmitBoth(t, "coarse_score_channel", "score_token")
  <1>1. Moved(t, s) /\ WellFormed(t) /\ t.workflow = "credit" /\ HoldsSlots(t, 1, proof)
    BY CreditTable, EmitSlot DEF Emit
  <1>2. canonicalize(s) = Enter(u, "canonicalized")
    BY DEF canonicalize
  <1> HIDE DEF t
  <1>3. Moved(u, t) /\ HoldsSlots(u, 3, proof)
    BY <1>1, CreditTable, BothEmit
  <1> HIDE DEF u
  <1>4. Moved(u, s)
    BY <1>1, <1>3, MovedIsTransitive
  <1> QED
    BY <1>2, <1>3, <1>4, EntersAfter

LEMMA FeaturesCredit ==
    ASSUME NEW s, WellFormed(s), s.workflow = "credit", NEW proof, HoldsSlots(s, 3, proof)
    PROVE  Reaches(features(s), s, "features_captured", 5, proof)
  <1> DEFINE u == EmitBoth(s, "feature_provenance", "feature_coverage")
  <1>1. features(s) = Enter(u, "features_captured")
    BY DEF features
  <1>2. Moved(u, s) /\ HoldsSlots(u, 5, proof)
    BY CreditTable, BothEmit
  <1> HIDE DEF u
  <1> QED
    BY <1>1, <1>2, EntersAfter

LEMMA PolicyCredit ==
    ASSUME NEW s, WellFormed(s), s.workflow = "credit", NEW proof, HoldsSlots(s, 5, proof)
    PROVE  Reaches(policy(s), s, "policy_captured", 8, proof)
  <1> DEFINE t == Emit(s, "policy_snapshot", NoMore)
             u == EmitBoth(t, "coarse_credit_policy_channel", "credit_policy_state_token")
  <1>1. Moved(t, s) /\ WellFormed(t) /\ t.workflow = "credit" /\ HoldsSlots(t, 6, proof)
    BY CreditTable, EmitSlot DEF Emit
  <1>2. policy(s) = Enter(u, "policy_captured")
    BY DEF policy
  <1> HIDE DEF t
  <1>3. Moved(u, t) /\ HoldsSlots(u, 8, proof)
    BY <1>1, CreditTable, BothEmit
  <1> HIDE DEF u
  <1>4. Moved(u, s)
    BY <1>1, <1>3, MovedIsTransitive
  <1> QED
    BY <1>2, <1>3, <1>4, EntersAfter

LEMMA NoticeCredit ==
    ASSUME NEW s, WellFormed(s), s.workflow = "credit", NEW proof, HoldsSlots(s, 11, proof)
    PROVE  Reaches(notice(s), s, "reported", 13, proof)
  <1> DEFINE u == EmitBoth(s, "notice_receipt", "final_decision")
  <1>1. notice(s) = Enter(u, "reported")
    BY DEF notice
  <1>2. Moved(u, s) /\ HoldsSlots(u, 13, proof)
    BY CreditTable, BothEmit
  <1> HIDE DEF u
  <1> QED
    BY <1>1, <1>2, EntersAfter

LEMMA DecideCredit ==
    ASSUME NEW s, WellFormed(s), s.workflow = "credit", NEW proof, HoldsSlots(s, 8, proof),
           s.contract \subseteq DOMAIN CreditMechanisms, Informed(s)
    PROVE  Reaches(decide(s), InWorld(s, DecisionWorld(s)), "decided", 11, proof)
  <1> DEFINE c == InWorld(s, DecisionWorld(s))
             t == EmitBoth(c, "generic_decision_trace", "model_reason_record")
             u == Emit(t, "decision_receipt", [stored_application |-> StoredApplication(s)])
  <1>1. /\ WellFormed(c)
        /\ c.world = DecisionWorld(s)
        /\ c.workflow = "credit"
        /\ c.sink = s.sink /\ c.run = s.run /\ c.contract = s.contract
    BY InWorldKeeps
  <1>2. AgreeBut(c.world, s.world, DecisionFacts)
    <2> HIDE DEF c
    <2> QED
      BY <1>1 DEF AgreeBut, DecisionWorld, DecisionFacts
  <1>3. Rooted(Spec(s), DecisionFacts) /\ Spec(s) = CreditSpec
    BY SpecFields DEF Rooted, Spec, DecisionFacts
  <1>4. \A j \in Contracted(s, 8) :
           Ignores(Spec(s), Slots(s)[j], DecisionFacts) /\ Slots(s)[j] \notin Replays
    <2> SUFFICES ASSUME NEW j \in Contracted(s, 8)
                 PROVE  /\ Ignores(Spec(s), Slots(s)[j], DecisionFacts)
                        /\ Slots(s)[j] \notin Replays
      OBVIOUS
    <2>1. j \in 1 .. 8
      BY <1>3, ContractedSlots, CreditCatalogue
    <2>2. Slots(s)[j] \in {"canonical_application", "coarse_score_channel", "score_token",
                         "feature_provenance", "feature_coverage", "policy_snapshot",
                         "coarse_credit_policy_channel", "credit_policy_state_token"}
      BY <2>1, CreditTable
    <2> QED
      BY <1>3, <2>2, DecisionIsIgnored DEF Replays
  <1>5. HoldsSlots(c, 8, proof)
    BY <1>1, <1>2, <1>3, <1>4, CreditCatalogue, NewWorldHolds
  <1>6. decide(s) = Enter(u, "decided")
    BY DEF decide, InWorld, StoredApplication
  <1>7. c.world.decision_record_bound = s.world.decision_record_bound
        /\ c.world.score = s.world.score
    BY <1>2 DEF AgreeBut, DecisionFacts, Informed, CreditFacts
  <1>8. StoredApplication(c) = StoredApplication(s)
    BY <1>1, <1>3, <1>7, SpecFields DEF StoredApplication, _action_identity, Spec
  <1> HIDE DEF c
  <1>9. Moved(t, c) /\ WellFormed(t) /\ HoldsSlots(t, 10, proof)
    BY <1>1, <1>5, CreditTable, BothEmit
  <1>10. SameRun(t, c) /\ t.workflow = "credit"
    BY <1>1, <1>9, MovedIsSame DEF SameRun
  <1>11. StoredApplication(s) = StoredApplication(t)
    BY <1>8, <1>10, SameRunSameSlots DEF StoredApplication, SameRun
  <1> HIDE DEF t
  <1>12. Moved(u, t) /\ HoldsSlots(u, 11, proof)
    <2>1. /\ Slots(t)[10 + 1] = "decision_receipt"
          /\ SlotNames(t, 10 + 1) = AllNames(t, "decision_receipt")
          /\ SlotMore(t, 10 + 1, proof) = [stored_application |-> StoredApplication(s)]
      BY <1>10, <1>11, CreditTable
    <2>2. Moved(u, t) /\ HoldsSlots(u, 10 + 1, proof)
      BY <1>9, <2>1, EmitSlot DEF Emit
    <2> QED
      BY <2>2
  <1> HIDE DEF u
  <1>13. Moved(u, c)
    BY <1>9, <1>12, MovedIsTransitive
  <1>14. Reaches(Enter(u, "decided"), c, "decided", 11, proof)
    BY <1>1, <1>12, <1>13, EntersAfter
  <1> QED
    BY <1>6, <1>14 DEF c

LEMMA FreshHolds ==
    ASSUME NEW s, s.sink = EventSink(s.run, s.contract), NEW proof
    PROVE  HoldsSlots(s, 0, proof)
  <1>1. Contracted(s, 0) = {} /\ Number(s, 0) = 0
    BY NumberOfNone
  <1>2. /\ s.sink.events = <<>>
        /\ s.sink.enabled = s.contract
        /\ DOMAIN s.sink = {"id", "enabled", "events"}
    BY DEF EventSink
  <1>3. <<>> \in Seq({SlotEvent(s, j, proof) : j \in Contracted(s, 0)}) /\ Len(<<>>) = 0
    OBVIOUS
  <1> QED
    BY <1>1, <1>2, <1>3 DEF HoldsSlots

(* Only the last slot carries the proof of a replay. *)
LEMMA ProofIsLast ==
    ASSUME NEW s, NEW k \in Nat, IF s.workflow = "payment" THEN k <= 15 ELSE k <= 13,
           NEW p, NEW q, HoldsSlots(s, k, p)
    PROVE  HoldsSlots(s, k, q)
  <1>1. \A j \in 1 .. k : SlotMore(s, j, p) = SlotMore(s, j, q)
    BY DEF SlotMore
  <1>2. \A j \in Contracted(s, k) : SlotEvent(s, j, p) = SlotEvent(s, j, q)
    BY <1>1 DEF SlotEvent, SlotAttributes, Contracted
  <1>3. {SlotEvent(s, j, p) : j \in Contracted(s, k)} = {SlotEvent(s, j, q) : j \in Contracted(s, k)}
    BY <1>2
  <1> QED
    BY <1>2, <1>3 DEF HoldsSlots

(* A whole payment run from its start. *)
LEMMA PaymentRunHolds ==
    ASSUME NEW s, WellFormed(s), s.workflow = "payment", Informed(s),
           s.contract \subseteq DOMAIN PaymentMechanisms,
           s.sink = EventSink(s.run, s.contract), NEW rows, NEW proof
    PROVE  Reaches(PaymentRun(s, rows), InWorld(s, CountedWorld(s, rows \o RowsWritten(s))),
                   "reported", 15, proof)
  <1> DEFINE a == canonicalize(s)
             b == review(a)
             c == approval(b)
             d == authority(c)
             e == policy(d)
             all == rows \o RowsWritten(s)
             f == settle(e, all)
             w == CountedWorld(s, all)
  <1>1. HoldsSlots(s, 0, proof)
    BY FreshHolds
  <1>2. Moved(a, s) /\ WellFormed(a) /\ a.workflow = "payment" /\ HoldsSlots(a, 3, proof)
    BY <1>1, CanonicalizePayment, MovedIsSame DEF Reaches, SameRun
  <1> HIDE DEF a
  <1>3. Moved(b, a) /\ WellFormed(b) /\ b.workflow = "payment" /\ HoldsSlots(b, 6, proof)
    BY <1>2, ReviewPayment, MovedIsSame DEF Reaches, SameRun
  <1> HIDE DEF b
  <1>4. Moved(c, b) /\ WellFormed(c) /\ c.workflow = "payment" /\ HoldsSlots(c, 7, proof)
    BY <1>3, ApprovalPayment, MovedIsSame DEF Reaches, SameRun
  <1> HIDE DEF c
  <1>5. Moved(d, c) /\ WellFormed(d) /\ d.workflow = "payment" /\ HoldsSlots(d, 8, proof)
    BY <1>4, AuthorityPayment, MovedIsSame DEF Reaches, SameRun
  <1> HIDE DEF d
  <1>6. Moved(e, d) /\ WellFormed(e) /\ e.workflow = "payment" /\ HoldsSlots(e, 11, proof)
    BY <1>5, PolicyPayment, MovedIsSame DEF Reaches, SameRun
  <1> HIDE DEF e
  <1>7. Moved(e, s)
    BY <1>2, <1>3, <1>4, <1>5, <1>6, MovedIsTransitive
  <1>8. SameRun(e, s)
    BY <1>7, MovedIsSame
  <1>9. CountedWorld(e, all) = w
    <2>1. RowsOf(e, all) = RowsOf(s, all)
      BY <1>8, SameRunSameSlots DEF RowsOf, SameRun
    <2> QED
      BY <1>8, <2>1 DEF CountedWorld, SameRun
  <1>10. Informed(e) /\ e.contract \subseteq DOMAIN PaymentMechanisms
    BY <1>8 DEF Informed, SameRun
  <1>11. /\ Moved(f, InWorld(e, w))
         /\ HoldsSlots(f, 13, proof)
    BY <1>6, <1>9, <1>10, SettlePayment DEF Reaches
  <1> HIDE DEF f, w
  <1>12. /\ WellFormed(InWorld(e, w))
         /\ InWorld(e, w).workflow = "payment"
    BY <1>6, InWorldKeeps
  <1>13. WellFormed(f) /\ f.workflow = "payment"
    BY <1>11, <1>12, MovedIsSame DEF SameRun
  <1>14. Reaches(report(f), f, "reported", 15, proof)
    BY <1>11, <1>13, ReportPayment
  <1>15. Moved(InWorld(e, w), InWorld(s, w))
    BY <1>6, <1>7, InWorldKeeps DEF Moved, WellFormed, Fields
  <1>16. Moved(report(f), InWorld(s, w))
    BY <1>11, <1>14, <1>15, MovedIsTransitive DEF Reaches
  <1>17. PaymentRun(s, rows) = report(f)
    BY DEF PaymentRun, a, b, c, d, e, f
  <1> QED
    BY <1>14, <1>16, <1>17 DEF Reaches, w

LEMMA CreditRunHolds ==
    ASSUME NEW s, WellFormed(s), s.workflow = "credit", Informed(s),
           s.contract \subseteq DOMAIN CreditMechanisms,
           s.sink = EventSink(s.run, s.contract), NEW proof
    PROVE  Reaches(CreditRun(s), InWorld(s, DecisionWorld(s)), "reported", 13, proof)
  <1> DEFINE a == canonicalize(s)
             b == features(a)
             c == policy(b)
             d == decide(c)
             w == DecisionWorld(s)
  <1>1. HoldsSlots(s, 0, proof)
    BY FreshHolds
  <1>2. Moved(a, s) /\ WellFormed(a) /\ a.workflow = "credit" /\ HoldsSlots(a, 3, proof)
    BY <1>1, CanonicalizeCredit, MovedIsSame DEF Reaches, SameRun
  <1> HIDE DEF a
  <1>3. Moved(b, a) /\ WellFormed(b) /\ b.workflow = "credit" /\ HoldsSlots(b, 5, proof)
    BY <1>2, FeaturesCredit, MovedIsSame DEF Reaches, SameRun
  <1> HIDE DEF b
  <1>4. Moved(c, b) /\ WellFormed(c) /\ c.workflow = "credit" /\ HoldsSlots(c, 8, proof)
    BY <1>3, PolicyCredit, MovedIsSame DEF Reaches, SameRun
  <1> HIDE DEF c
  <1>5. Moved(c, s)
    BY <1>2, <1>3, <1>4, MovedIsTransitive
  <1>6. /\ SameRun(c, s)
        /\ c.ablation_mode = s.ablation_mode
        /\ c.ablation = s.ablation
    BY <1>5, MovedIsSame DEF Own
  <1>7. DecisionWorld(c) = w
    BY <1>6 DEF DecisionWorld, SameRun
  <1>8. Informed(c) /\ c.contract \subseteq DOMAIN CreditMechanisms
    BY <1>6 DEF Informed, SameRun
  <1>9. /\ Moved(d, InWorld(c, w))
        /\ HoldsSlots(d, 11, proof)
    BY <1>4, <1>7, <1>8, DecideCredit DEF Reaches
  <1> HIDE DEF d, w
  <1>10. /\ WellFormed(InWorld(c, w))
         /\ InWorld(c, w).workflow = "credit"
    BY <1>4, InWorldKeeps
  <1>11. WellFormed(d) /\ d.workflow = "credit"
    BY <1>9, <1>10, MovedIsSame DEF SameRun
  <1>12. Reaches(notice(d), d, "reported", 13, proof)
    BY <1>9, <1>11, NoticeCredit
  <1>13. Moved(InWorld(c, w), InWorld(s, w))
    BY <1>4, <1>5, InWorldKeeps DEF Moved, WellFormed, Fields
  <1>14. Moved(notice(d), InWorld(s, w))
    BY <1>9, <1>12, <1>13, MovedIsTransitive DEF Reaches
  <1>15. CreditRun(s) = notice(d)
    BY DEF CreditRun, a, b, c, d
  <1> QED
    BY <1>12, <1>14, <1>15 DEF Reaches, w

(* The last slot of a workflow is its replay's. *)
LastSlot(st) == IF st.workflow = "payment" THEN 16 ELSE 14

ReplayFacts(st) ==
    IF st.workflow = "payment" THEN {"duplicate_without_tool_response"}
    ELSE {"denial_without_income_feature"}

LEMMA ConcludedHolds ==
    ASSUME NEW s, WellFormed(s), Informed(s), s.contract \subseteq DOMAIN Spec(s).mechanisms,
           NEW proof, HoldsSlots(s, LastSlot(s) - 1, proof),
           NEW fact, DOMAIN fact = ReplayFacts(s)
    PROVE  Reaches(Concluded(s, fact, proof), InWorld(s, Extend(fact, s.world)), "replayed",
                   LastSlot(s), proof)
  <1> DEFINE w == Extend(fact, s.world)
             c == InWorld(s, w)
             k == LastSlot(s) - 1
             t == Emit(c, Spec(c).replay, [replay_proof |-> proof])
             X == ReplayFacts(s)
  <1>1. /\ WellFormed(c)
        /\ c.world = w
        /\ c.workflow = s.workflow
        /\ c.sink = s.sink /\ c.run = s.run /\ c.contract = s.contract
        /\ Spec(c) = Spec(s)
    BY InWorldKeeps
  <1>2. AgreeBut(w, s.world, X)
    BY DEF AgreeBut, Extend
  <1>3. Rooted(Spec(s), X)
    BY SpecFields DEF Rooted, Spec, ReplayFacts
  <1>4. k \in Nat /\ k + 1 = LastSlot(s)
    BY DEF LastSlot
  <1>5. ASSUME NEW j \in Contracted(s, k)
        PROVE  Ignores(Spec(s), Slots(s)[j], X) /\ Slots(s)[j] \notin Replays
    <2>1. Slots(s)[j] \in DOMAIN Spec(s).mechanisms /\ j \in 1 .. k
      BY ContractedSlots
    <2>2. CASE s.workflow = "payment"
      <3>1. Spec(s) = PaymentSpec /\ j \in 1 .. 15
        BY <2>1, <2>2 DEF Spec, LastSlot
      <3>2. Slots(s)[j] \notin Replays
        BY <2>2, <3>1, PaymentTable DEF Replays
      <3> QED
        BY <2>1, <2>2, <3>1, <3>2, OmissionIsIgnored, PaymentCatalogue DEF ReplayFacts
    <2>3. CASE s.workflow # "payment"
      <3>1. Spec(s) = CreditSpec /\ j \in 1 .. 13 /\ s.workflow = "credit"
        BY <2>1, <2>3 DEF Spec, LastSlot, WellFormed
      <3>2. Slots(s)[j] \notin Replays
        BY <3>1, CreditTable DEF Replays
      <3> QED
        BY <2>1, <2>3, <3>1, <3>2, AblationIsIgnored, CreditCatalogue DEF ReplayFacts
    <2> QED
      BY <2>2, <2>3
  <1>6. HoldsSlots(c, k, proof)
    <2> HIDE DEF c, w, k, X
    <2> QED
      BY <1>1, <1>2, <1>3, <1>4, <1>5, NewWorldHolds DEF k
  <1>7. /\ Slots(c)[k + 1] = Spec(c).replay
        /\ SlotNames(c, k + 1) = AllNames(c, Spec(c).replay)
        /\ SlotMore(c, k + 1, proof) = [replay_proof |-> proof]
    <2>1. CASE s.workflow = "payment"
      <3>1. c.workflow = "payment" /\ k + 1 = 16 /\ Spec(c) = PaymentSpec
        BY <1>1, <2>1 DEF LastSlot, Spec
      <3> HIDE DEF c, k
      <3> QED
        BY <3>1, PaymentTable, SpecFields
    <2>2. CASE s.workflow # "payment"
      <3>1. c.workflow = "credit" /\ k + 1 = 14 /\ Spec(c) = CreditSpec
        BY <1>1, <2>2 DEF LastSlot, Spec, WellFormed
      <3> HIDE DEF c, k
      <3> QED
        BY <3>1, CreditTable, SpecFields
    <2> QED
      BY <2>1, <2>2
  <1> HIDE DEF c, k
  <1>8. Moved(t, c) /\ HoldsSlots(t, LastSlot(s), proof)
    BY <1>1, <1>4, <1>6, <1>7, EmitSlot DEF Emit
  <1>9. Concluded(s, fact, proof) = Enter(t, "replayed")
    BY <1>1 DEF Concluded, InWorld, c
  <1> HIDE DEF t
  <1> QED
    BY <1>1, <1>8, <1>9, EntersAfter DEF c

-----------------------------------------------------------------------------
(* The prefix of a run, which its replays share. *)

LEMMA SameNormalized ==
    ASSUME NEW s, NEW t, NEW X, NEW j, NEW p, NEW q,
           t.workflow = s.workflow, t.contract = s.contract,
           AgreeBut(t.world, s.world, X), Rooted(Spec(s), X), Informed(s),
           Slots(s)[j] \in DOMAIN Spec(s).mechanisms \ Replays,
           IgnoresAsked(Spec(s), Slots(s)[j], SlotNames(s, j), X)
    PROVE  Normalized(SlotEvent(t, j, q)) = Normalized(SlotEvent(s, j, p))
  <1>1. Spec(t) = Spec(s) /\ Slots(t) = Slots(s)
    BY DEF Spec, Slots
  <1>2. Number(t, j) = Number(s, j)
    BY <1>1 DEF Contracted, Number
  <1>3. /\ ActionDigest(t) = ActionDigest(s)
        /\ _action_identity(Spec(t), t.world) = _action_identity(Spec(s), s.world)
    <2>1. Spec(s).identity_fact \in DOMAIN s.world
      BY SpecFields DEF Informed, Spec, PaymentFacts, CreditFacts
    <2>2. t.world[Spec(s).identity_fact] = s.world[Spec(s).identity_fact]
      BY <2>1 DEF AgreeBut, Rooted
    <2> QED
      BY <1>1, <2>2 DEF ActionDigest, _action_identity
  <1>4. SlotNames(t, j) = SlotNames(s, j)
    BY <1>1 DEF SlotNames, AllNames
  <1>5. SlotMore(t, j, q) = SlotMore(s, j, p)
    <2>1. CASE s.workflow = "payment"
      <3>1. t.world.approval_action_bound = s.world.approval_action_bound
        BY <2>1 DEF AgreeBut, Rooted, Informed, PaymentFacts
      <3>2. ApprovedDigest(t) = ApprovedDigest(s)
        BY <1>3, <2>1, <3>1 DEF ApprovedDigest
      <3>3. j # 16
        BY <2>1, PaymentTable DEF Replays
      <3> QED
        BY <1>3, <2>1, <3>2, <3>3 DEF SlotMore
    <2>2. CASE s.workflow # "payment"
      <3>1. t.world.decision_record_bound = s.world.decision_record_bound
        BY <2>2 DEF AgreeBut, Rooted, Informed, CreditFacts
      <3>2. StoredApplication(t) = StoredApplication(s)
        BY <1>3, <2>2, <3>1 DEF StoredApplication
      <3>3. j # 14
        BY <2>2, CreditTable DEF Replays, Informed
      <3> QED
        BY <1>3, <2>2, <3>2, <3>3 DEF SlotMore
    <2> QED
      BY <2>1, <2>2
  <1>6. SlotAttributes(t, j, q) = SlotAttributes(s, j, p)
    <2> DEFINE action == _action_identity(Spec(s), s.world)
    <2>1. Known(Spec(s), Slots(s)[j], s.world)
      BY InformedIsKnown
    <2>2. DOMAIN SlotMore(s, j, p) \cap {"binding_proof", "policy_version_id"} = {}
      BY MoreIsApart
    <2>3. event_attributes(Spec(s), Slots(s)[j], t.world, action, SlotNames(s, j), SlotMore(s, j, p))
            = event_attributes(Spec(s), Slots(s)[j], s.world, action, SlotNames(s, j),
                               SlotMore(s, j, p))
      BY <2>1, <2>2, SameAttributes
    <2> QED
      BY <1>1, <1>3, <1>4, <1>5, <2>3 DEF SlotAttributes
  <1> QED
    BY <1>1, <1>2, <1>3, <1>6 DEF SlotEvent, Normalized

SlotEvents(s, k, proof) == {SlotEvent(s, j, proof) : j \in Contracted(s, k)}

LEMMA EventsAreSlots ==
    ASSUME NEW s, NEW k \in Nat, NEW proof, HoldsSlots(s, k, proof)
    PROVE  ToSet(s.sink.events) = SlotEvents(s, k, proof)
  <1> DEFINE S == {SlotEvent(s, j, proof) : j \in Contracted(s, k)}
  <1>1. ASSUME NEW e \in ToSet(s.sink.events) PROVE e \in S
    BY <1>1 DEF ToSet, HoldsSlots
  <1>2. ASSUME NEW j \in Contracted(s, k) PROVE SlotEvent(s, j, proof) \in ToSet(s.sink.events)
    <2>1. s.sink.events[Number(s, j)] = SlotEvent(s, j, proof)
      BY <1>2 DEF HoldsSlots
    <2>2. Number(s, j) \in DOMAIN s.sink.events
      <3>1. DOMAIN s.sink.events = 1 .. Number(s, k)
        BY EventBelongs
      <3> QED
        BY <1>2, <3>1, NumberGrows
    <2> QED
      BY <2>1, <2>2 DEF ToSet
  <1> QED
    BY <1>1, <1>2 DEF SlotEvents

NormalizedSlots(s, k, proof) == {Normalized(SlotEvent(s, j, proof)) : j \in Contracted(s, k)}

LEMMA PaymentPrefixIs ==
    ASSUME NEW s, s.workflow = "payment", NEW proof, HoldsSlots(s, 15, proof)
    PROVE  PaymentPrefix(s.sink) = NormalizedSlots(s, 11, proof)
  <1>1. ASSUME NEW j \in Contracted(s, 15)
        PROVE  AfterEffect(SlotEvent(s, j, proof)) <=> j \notin Contracted(s, 11)
    <2>1. j \in 1 .. 15 /\ (j \in Contracted(s, 11) <=> j \in 1 .. 11)
      BY <1>1 DEF Contracted
    <2>2. SlotEvent(s, j, proof).mechanism = Slots(s)[j]
      BY DEF SlotEvent
    <2>3. CASE j = 4 \/ j = 14
      <3>1. /\ SlotMore(s, 4, proof) = [node |-> "review"]
            /\ SlotMore(s, 14, proof) = [node |-> "report"]
        BY PaymentTable
      <3>2. "node" \in DOMAIN SlotMore(s, j, proof)
        BY <2>3, <3>1
      <3>3. SlotAttributes(s, j, proof).node = SlotMore(s, j, proof).node
        BY <3>2 DEF SlotAttributes, event_attributes
      <3>4. SlotEvent(s, j, proof).attributes.node = IF j = 4 THEN "review" ELSE "report"
        BY <2>3, <3>1, <3>3 DEF SlotEvent
      <3>5. Slots(s)[j] = "generic_agent_trace"
        BY <2>3, PaymentTable
      <3> QED
        BY <2>1, <2>2, <2>3, <3>4, <3>5 DEF AfterEffect
    <2>4. CASE j \notin {4, 14}
      <3>1. Slots(s)[j] # "generic_agent_trace"
        BY <2>1, <2>4, PaymentTable
      <3>2. Slots(s)[j] \in {"gateway_coverage", "durable_effect_receipt", "final_output"}
               <=> j \in {12, 13, 15}
        BY <2>1, <2>4, PaymentTable
      <3> QED
        BY <2>1, <2>2, <2>4, <3>1, <3>2 DEF AfterEffect
    <2> QED
      BY <2>3, <2>4
  <1>2. ToSet(s.sink.events) = {SlotEvent(s, j, proof) : j \in Contracted(s, 15)}
    <2>1. ToSet(s.sink.events) = SlotEvents(s, 15, proof)
      BY EventsAreSlots
    <2> QED
      BY <2>1 DEF SlotEvents
  <1>3. Contracted(s, 11) \subseteq Contracted(s, 15)
    BY DEF Contracted
  <1>4. {x \in ToSet(s.sink.events) : ~ AfterEffect(x)}
           = {SlotEvent(s, j, proof) : j \in Contracted(s, 11)}
    BY <1>1, <1>2, <1>3
  <1> QED
    BY <1>4 DEF PaymentPrefix, NormalizedSlots

CreditRooted ==
    {"canonical_application", "coarse_score_channel", "score_token", "feature_provenance",
     "feature_coverage", "policy_snapshot", "coarse_credit_policy_channel",
     "credit_policy_state_token"}

LEMMA CreditRootedSlots ==
    ASSUME NEW s, s.workflow = "credit", NEW j \in 1 .. 13
    PROVE  Slots(s)[j] \in CreditRooted <=> j <= 8
  BY CreditTable DEF CreditRooted

LEMMA CreditPrefixIs ==
    ASSUME NEW s, s.workflow = "credit", NEW proof, HoldsSlots(s, 13, proof)
    PROVE  CreditPrefix(s.sink) = NormalizedSlots(s, 8, proof)
  <1>1. ASSUME NEW j \in Contracted(s, 13)
        PROVE  SlotEvent(s, j, proof).mechanism \in CreditRooted <=> j \in Contracted(s, 8)
    <2>1. j \in 1 .. 13 /\ (j \in Contracted(s, 8) <=> j \in 1 .. 8)
      BY <1>1 DEF Contracted
    <2>2. SlotEvent(s, j, proof).mechanism = Slots(s)[j]
      BY DEF SlotEvent
    <2> QED
      BY <2>1, <2>2, CreditRootedSlots
  <1>2. ToSet(s.sink.events) = {SlotEvent(s, j, proof) : j \in Contracted(s, 13)}
    <2>1. ToSet(s.sink.events) = SlotEvents(s, 13, proof)
      BY EventsAreSlots
    <2> QED
      BY <2>1 DEF SlotEvents
  <1>3. Contracted(s, 8) \subseteq Contracted(s, 13)
    BY DEF Contracted
  <1>4. {x \in ToSet(s.sink.events) : x.mechanism \in CreditRooted}
           = {SlotEvent(s, j, proof) : j \in Contracted(s, 8)}
    BY <1>1, <1>2, <1>3
  <1> QED
    BY <1>4 DEF CreditPrefix, CreditRooted, NormalizedSlots

(* What the omission of the tool response, and what the settlement changes. *)
OmissionFacts == {"tool_response", "ledger_commit_count"}

LEMMA OmissionIsNotAsked ==
    ASSUME NEW s, s.workflow = "payment", NEW j \in 1 .. 11,
           Slots(s)[j] \in DOMAIN PaymentMechanisms
    PROVE  /\ IgnoresAsked(PaymentSpec, Slots(s)[j], SlotNames(s, j), OmissionFacts)
           /\ Slots(s)[j] \notin Replays
  <1>1. /\ Slots(s)[j] \notin {"durable_effect_receipt", "final_output"} \cup Replays
        /\ j # 4 => Slots(s)[j] # "generic_agent_trace"
    BY PaymentTable DEF Replays
  <1>2. CASE j = 4
    <2>1. /\ Slots(s)[j] = "generic_agent_trace"
          /\ SlotNames(s, j) = {"model_recommendation", "human_decision"}
      BY <1>2, PaymentTable
    <2> QED
      BY <1>1, <2>1, PaymentCatalogue, EntityFields DEF IgnoresAsked, OmissionFacts
  <1>3. CASE j # 4
    <2>1. Ignores(PaymentSpec, Slots(s)[j], OmissionFacts)
      BY <1>1, <1>3, PaymentCatalogue, EntityFields DEF Ignores, OmissionFacts
    <2> QED
      BY <1>1, <2>1 DEF Ignores, IgnoresAsked
  <1> QED
    BY <1>2, <1>3

LEMMA SamePaymentPrefix ==
    ASSUME NEW s, NEW t, s.workflow = "payment", t.workflow = "payment", t.contract = s.contract,
           Informed(s), s.contract \subseteq DOMAIN PaymentMechanisms,
           AgreeBut(t.world, s.world, OmissionFacts),
           NEW p, NEW q, HoldsSlots(s, 15, p), HoldsSlots(t, 15, q)
    PROVE  PaymentPrefix(s.sink) = PaymentPrefix(t.sink)
  <1>1. Spec(s) = PaymentSpec /\ Slots(t) = Slots(s)
    BY DEF Spec, Slots
  <1>2. Contracted(t, 11) = Contracted(s, 11)
    BY <1>1 DEF Contracted
  <1>3. ASSUME NEW j \in Contracted(s, 11)
        PROVE  Normalized(SlotEvent(t, j, q)) = Normalized(SlotEvent(s, j, p))
    <2>1. Slots(s)[j] \in DOMAIN PaymentMechanisms /\ j \in 1 .. 11
      BY <1>3 DEF Contracted
    <2>2. /\ IgnoresAsked(PaymentSpec, Slots(s)[j], SlotNames(s, j), OmissionFacts)
          /\ Slots(s)[j] \notin Replays
      BY <2>1, OmissionIsNotAsked
    <2>3. Rooted(PaymentSpec, OmissionFacts)
      BY SpecFields DEF Rooted, OmissionFacts
    <2> QED
      BY <1>1, <2>1, <2>2, <2>3, SameNormalized, PaymentCatalogue
  <1>4. PaymentPrefix(s.sink) = NormalizedSlots(s, 11, p)
        /\ PaymentPrefix(t.sink) = NormalizedSlots(t, 11, q)
    BY PaymentPrefixIs
  <1> QED
    BY <1>2, <1>3, <1>4 DEF NormalizedSlots

LEMMA SameCreditPrefix ==
    ASSUME NEW s, NEW t, s.workflow = "credit", t.workflow = "credit", t.contract = s.contract,
           Informed(s), s.contract \subseteq DOMAIN CreditMechanisms,
           AgreeBut(t.world, s.world, DecisionFacts),
           NEW p, NEW q, HoldsSlots(s, 13, p), HoldsSlots(t, 13, q)
    PROVE  CreditPrefix(s.sink) = CreditPrefix(t.sink)
  <1>1. Spec(s) = CreditSpec /\ Slots(t) = Slots(s)
    BY DEF Spec, Slots
  <1>2. Contracted(t, 8) = Contracted(s, 8)
    BY <1>1 DEF Contracted
  <1>3. ASSUME NEW j \in Contracted(s, 8)
        PROVE  Normalized(SlotEvent(t, j, q)) = Normalized(SlotEvent(s, j, p))
    <2>1. Slots(s)[j] \in DOMAIN CreditMechanisms /\ j \in 1 .. 8
      BY <1>3 DEF Contracted
    <2>2. Slots(s)[j] \in CreditRooted
      BY <2>1, CreditRootedSlots
    <2>3. Ignores(CreditSpec, Slots(s)[j], DecisionFacts)
      BY <2>2, DecisionIsIgnored DEF CreditRooted
    <2>4. /\ IgnoresAsked(CreditSpec, Slots(s)[j], SlotNames(s, j), DecisionFacts)
          /\ Slots(s)[j] \notin Replays
      BY <2>2, <2>3 DEF Ignores, IgnoresAsked, CreditRooted, Replays
    <2>5. Rooted(CreditSpec, DecisionFacts)
      BY SpecFields DEF Rooted, DecisionFacts
    <2> QED
      BY <1>1, <2>1, <2>4, <2>5, SameNormalized, CreditCatalogue
  <1>4. CreditPrefix(s.sink) = NormalizedSlots(s, 8, p)
        /\ CreditPrefix(t.sink) = NormalizedSlots(t, 8, q)
    BY CreditPrefixIs
  <1> QED
    BY <1>2, <1>3, <1>4 DEF NormalizedSlots

-----------------------------------------------------------------------------
(* What the replays find out. *)

LEMMA AgainKeeps ==
    ASSUME NEW s, WellFormed(s), NEW run
    PROVE  LET t == Again(s, run)
           IN  /\ WellFormed(t)
               /\ t.workflow = s.workflow
               /\ t.world = s.world
               /\ t.contract = s.contract
               /\ t.run = run
               /\ t.sink = EventSink(run, s.sink.enabled)
               /\ t[Own(s)] = s[Own(s)]
               /\ DOMAIN t = DOMAIN s
  <1> DEFINE t == Again(s, run)
  <1>1. /\ DOMAIN t = DOMAIN s
        /\ t.run = run
        /\ t.sink = EventSink(run, s.sink.enabled)
        /\ \A f \in DOMAIN s \ {"run", "phase", "sink"} : t[f] = s[f]
    BY DEF Again, WellFormed, Fields
  <1>2. /\ t.workflow = s.workflow
        /\ t.world = s.world
        /\ t.contract = s.contract
        /\ t[Own(s)] = s[Own(s)]
    BY <1>1 DEF WellFormed, Fields, Own
  <1>3. HasSink(t)
    BY <1>1 DEF HasSink, EventSink, WellFormed, Fields
  <1> HIDE DEF t
  <1>4. WellFormed(t)
    BY <1>1, <1>2, <1>3 DEF WellFormed, Own
  <1> QED
    BY <1>1, <1>2, <1>4 DEF t

LEMMA CommitCount ==
    ASSUME NEW commit_policy \in CommitPolicies, NEW tool_response
    PROVE  _commit_count(commit_policy, tool_response) \in 0 .. 2
  BY DEF CommitPolicies, _commit_count

LEMMA RowsWrittenAre ==
    ASSUME NEW s, s.commit_policy \in CommitPolicies
    PROVE  LET rows == RowsWritten(s)
               n == _commit_count(s.commit_policy, s.world.tool_response)
           IN  /\ n \in 0 .. 2
               /\ Len(rows) = n
               /\ DOMAIN rows = 1 .. n
               /\ \A i \in 1 .. n :
                     rows[i] = [run |-> s.run, action |-> _action_identity(Spec(s), s.world)]
               /\ \A X : [run |-> s.run, action |-> _action_identity(Spec(s), s.world)] \in X
                            => rows \in Seq(X)
  <1> DEFINE n == _commit_count(s.commit_policy, s.world.tool_response)
             row == [run |-> s.run, action |-> _action_identity(Spec(s), s.world)]
  <1>1. n \in 0 .. 2
    BY CommitCount
  <1>2. RowsWritten(s) = [i \in 1 .. n |-> row]
    BY DEF RowsWritten
  <1> HIDE DEF n, row
  <1>3. /\ Len(RowsWritten(s)) = n
        /\ DOMAIN RowsWritten(s) = 1 .. n
        /\ \A i \in 1 .. n : RowsWritten(s)[i] = row
        /\ \A X : row \in X => RowsWritten(s) \in Seq(X)
    BY <1>1, <1>2
  <1> QED
    BY <1>1, <1>3 DEF n, row

LEMMA OwnRowsCounted ==
    ASSUME NEW s, s.commit_policy \in CommitPolicies
    PROVE  Cardinality(RowsOf(s, <<>> \o RowsWritten(s)))
             = _commit_count(s.commit_policy, s.world.tool_response)
  <1> DEFINE n == _commit_count(s.commit_policy, s.world.tool_response)
             rows == RowsWritten(s)
             row == [run |-> s.run, action |-> _action_identity(Spec(s), s.world)]
  <1>1. /\ n \in 0 .. 2
        /\ DOMAIN rows = 1 .. n
        /\ \A i \in 1 .. n : rows[i] = row
        /\ rows \in Seq({row})
    BY RowsWrittenAre
  <1>2. <<>> \o rows = rows
    <2> HIDE DEF rows, row
    <2> QED
      BY <1>1
  <1>3. row.action = _action_identity(Spec(s), s.world)
    OBVIOUS
  <1> HIDE DEF rows, row, n
  <1>4. RowsOf(s, rows) = 1 .. n
    BY <1>1, <1>3 DEF RowsOf
  <1>5. Cardinality(1 .. n) = n
    <2>1. n \in Int /\ (1 > n => n = 0)
      BY <1>1
    <2>2. Cardinality(1 .. n) = IF 1 > n THEN 0 ELSE n - 1 + 1
      BY <2>1, FS_Interval
    <2> QED
      BY <2>1, <2>2
  <1> QED
    BY <1>2, <1>4, <1>5 DEF rows, n

LEMMA OmissionHolds ==
    ASSUME NEW s, WellFormed(s), s.workflow = "payment", Informed(s),
           s.contract \subseteq DOMAIN PaymentMechanisms, s.commit_policy \in CommitPolicies,
           NEW proof, HoldsSlots(s, 15, proof), NEW run
    PROVE  LET t == PaymentRun([Again(s, run) EXCEPT !.world.tool_response = "timeout"], <<>>)
           IN  /\ t.world.tool_response = "timeout"
               /\ t.world.ledger_commit_count = _commit_count(s.commit_policy, "timeout")
               /\ PaymentPrefix(s.sink) = PaymentPrefix(t.sink)
  <1> DEFINE a == Again(s, run)
             w == [s.world EXCEPT !.tool_response = "timeout"]
             o == InWorld(a, w)
             t == PaymentRun(o, <<>>)
             v == CountedWorld(o, <<>> \o RowsWritten(o))
  <1>1. /\ WellFormed(a) /\ a.workflow = "payment" /\ a.world = s.world
        /\ a.contract = s.contract /\ a.run = run
        /\ a.sink = EventSink(run, s.contract)
        /\ a.commit_policy = s.commit_policy
        /\ "commit_policy" \in DOMAIN a
    BY AgainKeeps DEF HoldsSlots, Own, WellFormed
  <1>2. [Again(s, run) EXCEPT !.world.tool_response = "timeout"] = o
    BY <1>1 DEF InWorld
  <1> HIDE DEF a
  <1>3. /\ WellFormed(o) /\ o.workflow = "payment" /\ o.world = w
        /\ o.contract = s.contract /\ o.run = run
        /\ o.sink = EventSink(o.run, o.contract)
        /\ o.commit_policy = s.commit_policy
    BY <1>1, InWorldKeeps
  <1>4. /\ AgreeBut(w, s.world, OmissionFacts)
        /\ "tool_response" \in DOMAIN s.world /\ w.tool_response = "timeout"
        /\ "ledger_commit_count" \in DOMAIN w
        /\ DOMAIN w = DOMAIN s.world
    BY DEF AgreeBut, OmissionFacts, Informed, PaymentFacts
  <1>5. Informed(o)
    BY <1>3, <1>4 DEF Informed
  <1> HIDE DEF o, w
  <1>6. Reaches(t, InWorld(o, v), "reported", 15, proof)
    BY <1>3, <1>5, PaymentRunHolds
  <1>7. /\ WellFormed(InWorld(o, v)) /\ InWorld(o, v).world = v
        /\ InWorld(o, v).workflow = "payment" /\ InWorld(o, v).contract = s.contract
    BY <1>3, InWorldKeeps
  <1> HIDE DEF t
  <1>8. /\ t.world = v /\ t.workflow = "payment" /\ t.contract = s.contract
        /\ HoldsSlots(t, 15, proof)
    BY <1>6, <1>7, MovedIsSame DEF Reaches, SameRun
  <1>9. Cardinality(RowsOf(o, <<>> \o RowsWritten(o))) = _commit_count(s.commit_policy, "timeout")
    BY <1>3, <1>4, OwnRowsCounted
  <1>10. /\ v.ledger_commit_count = _commit_count(s.commit_policy, "timeout")
         /\ v.tool_response = "timeout"
         /\ AgreeBut(v, s.world, OmissionFacts)
    BY <1>3, <1>4, <1>9 DEF CountedWorld, AgreeBut, OmissionFacts
  <1>11. PaymentPrefix(s.sink) = PaymentPrefix(t.sink)
    BY <1>8, <1>10, SamePaymentPrefix
  <1> QED
    BY <1>2, <1>8, <1>10, <1>11 DEF t

LEMMA AblationHolds ==
    ASSUME NEW s, WellFormed(s), s.workflow = "credit", Informed(s),
           s.contract \subseteq DOMAIN CreditMechanisms,
           NEW proof, HoldsSlots(s, 13, proof), NEW run
    PROVE  LET t == CreditRun([Again(s, run) EXCEPT !.ablation_mode = TRUE])
           IN  /\ t.world.human_decision = s.ablation
               /\ CreditPrefix(t.sink) = CreditPrefix(s.sink)
  <1> DEFINE a == Again(s, run)
             o == [a EXCEPT !.ablation_mode = TRUE]
             t == CreditRun(o)
             v == DecisionWorld(o)
  <1>1. /\ WellFormed(a) /\ a.workflow = "credit" /\ a.world = s.world
        /\ a.contract = s.contract /\ a.run = run
        /\ a.sink = EventSink(run, s.contract)
        /\ a.ablation = s.ablation
        /\ "ablation" \in DOMAIN a
    BY AgainKeeps DEF HoldsSlots, Own, WellFormed
  <1> HIDE DEF a
  <1>2. /\ DOMAIN o = DOMAIN a
        /\ o.ablation_mode = TRUE
        /\ \A f \in DOMAIN a \ {"ablation_mode"} : o[f] = a[f]
    BY <1>1 DEF WellFormed, Fields
  <1> HIDE DEF o
  <1>3. /\ o.workflow = "credit" /\ o.world = s.world
        /\ o.contract = s.contract /\ o.run = run
        /\ o.sink = EventSink(o.run, o.contract)
        /\ o.ablation = s.ablation
    BY <1>1, <1>2 DEF WellFormed, Fields
  <1>4. WellFormed(o) /\ Informed(o)
    BY <1>1, <1>2, <1>3 DEF WellFormed, Own, HasSink, Informed, EventSink
  <1>5. Reaches(t, InWorld(o, v), "reported", 13, proof)
    BY <1>3, <1>4, CreditRunHolds
  <1>6. /\ WellFormed(InWorld(o, v)) /\ InWorld(o, v).world = v
        /\ InWorld(o, v).workflow = "credit" /\ InWorld(o, v).contract = s.contract
    BY <1>3, <1>4, InWorldKeeps
  <1> HIDE DEF t
  <1>7. /\ t.world = v /\ t.workflow = "credit" /\ t.contract = s.contract
        /\ HoldsSlots(t, 13, proof)
    BY <1>5, <1>6, MovedIsSame DEF Reaches, SameRun
  <1>8. /\ v.human_decision = s.ablation
        /\ AgreeBut(v, s.world, DecisionFacts)
    BY <1>2, <1>3 DEF DecisionWorld, AgreeBut, DecisionFacts, Informed, CreditFacts
  <1>9. CreditPrefix(s.sink) = CreditPrefix(t.sink)
    BY <1>7, <1>8, SameCreditPrefix
  <1> QED
    BY <1>7, <1>8, <1>9 DEF t, o, a

-----------------------------------------------------------------------------
(* What is known of a run that has started. *)

PaymentPhases ==
    [start |-> 0, canonicalized |-> 3, reviewed |-> 6, approval_captured |-> 7,
     authority_captured |-> 8, policy_captured |-> 11, committed |-> 11, effect_committed |-> 13,
     reported |-> 15, replayed |-> 16]

CreditPhases ==
    [start |-> 0, canonicalized |-> 3, features_captured |-> 5, policy_captured |-> 8,
     decided |-> 11, reported |-> 13, replayed |-> 14]

Phases(st) == IF st.workflow = "payment" THEN PaymentPhases ELSE CreditPhases

Facts(st) == IF st.workflow = "payment" THEN PaymentFacts ELSE CreditFacts

(* The proof and the fact that a replay of the run ends in. *)
KnownProof(st) ==
    IF st.workflow = "payment"
    THEN replay_proof("tool_response", st.world.tool_response, <<"timeout">>, TRUE,
                      st.world.ledger_commit_count = 2)
    ELSE replay_proof("model_decision", st.world.model_decision, [t \in 1 .. 3 |-> st.ablation],
                      TRUE, TRUE)

FactIsKnown(st) ==
    IF st.workflow = "payment"
    THEN st.world.duplicate_without_tool_response <=> _commit_count(st.commit_policy, "timeout") = 2
    ELSE st.world.denial_without_income_feature <=> st.ablation = "deny"

(* What no node of a graph changes. *)
RunFixed(r, st) ==
    /\ WellFormed(st)
    /\ Informed(st)
    /\ st.run = r
    /\ st.sink.id = r
    /\ st.ablation_mode = FALSE
    /\ st.harness \in BOOLEAN
    /\ st.contract \subseteq DOMAIN Spec(st).mechanisms
    /\ st.workflow = "payment" => st.commit_policy \in CommitPolicies
    /\ st.world.policy_effective \in BOOLEAN
    /\ st.workflow = "payment" => st.world.approval_action_bound \in BOOLEAN
    /\ st.workflow = "credit" => st.world.decision_record_bound \in BOOLEAN

RunKnown(r, st) ==
    /\ RunFixed(r, st)
    /\ st.phase \in DOMAIN Phases(st)
    /\ DOMAIN st.world = Facts(st) \cup (IF st.phase = "replayed" THEN ReplayFacts(st) ELSE {})
    /\ HoldsSlots(st, Phases(st)[st.phase], KnownProof(st))
    /\ st.phase = "replayed" => FactIsKnown(st) /\ st.harness

Failed == [phase |-> "failed"]

RunsKnown ==
    /\ DOMAIN runs = Runs
    /\ \A r \in Runs : runs[r] = Idle \/ runs[r] = Failed \/ RunKnown(r, runs[r])

LEMMA ReachesKnown ==
    ASSUME NEW r, NEW u, RunFixed(r, u), DOMAIN u.world = Facts(u),
           NEW phase \in DOMAIN Phases(u) \ {"replayed"}, NEW p, NEW t,
           Reaches(t, u, phase, Phases(u)[phase], p)
    PROVE  RunKnown(r, t)
  <1>1. /\ WellFormed(t) /\ SameRun(t, u) /\ t.harness = u.harness
        /\ t.ablation_mode = u.ablation_mode /\ t[Own(u)] = u[Own(u)]
    BY MovedIsSame DEF Reaches, RunFixed
  <1>2. t.sink.id = u.sink.id /\ t.phase = phase
    BY DEF Reaches, Moved
  <1>3. Spec(t) = Spec(u) /\ Phases(t) = Phases(u) /\ Facts(t) = Facts(u)
    BY <1>1 DEF SameRun, Spec, Phases, Facts
  <1>4. RunFixed(r, t)
    BY <1>1, <1>2, <1>3 DEF RunFixed, SameRun, Informed, Own
  <1>5. /\ Phases(u)[phase] \in Nat
        /\ IF u.workflow = "payment" THEN Phases(u)[phase] <= 15 ELSE Phases(u)[phase] <= 13
    BY DEF Phases, PaymentPhases, CreditPhases
  <1>6. HoldsSlots(t, Phases(u)[phase], KnownProof(t))
    BY <1>1, <1>5, ProofIsLast DEF Reaches, SameRun
  <1> QED
    BY <1>1, <1>2, <1>3, <1>4, <1>6 DEF RunKnown, SameRun

LEMMA InWorldFixed ==
    ASSUME NEW r, NEW s, RunFixed(r, s), NEW X, Rooted(Spec(s), X),
           NEW w, AgreeBut(w, s.world, X), DOMAIN s.world \subseteq DOMAIN w
    PROVE  /\ RunFixed(r, InWorld(s, w))
           /\ InWorld(s, w).world = w
           /\ Facts(InWorld(s, w)) = Facts(s)
           /\ Phases(InWorld(s, w)) = Phases(s)
  <1> DEFINE c == InWorld(s, w)
  <1>1. /\ WellFormed(c) /\ c.world = w /\ DOMAIN c = DOMAIN s
        /\ \A f \in DOMAIN s \ {"world"} : c[f] = s[f]
        /\ Spec(c) = Spec(s)
    BY InWorldKeeps DEF RunFixed
  <1> HIDE DEF c
  <1>2. /\ c.workflow = s.workflow /\ c.run = s.run /\ c.sink = s.sink
        /\ c.ablation_mode = s.ablation_mode /\ c.harness = s.harness /\ c.contract = s.contract
        /\ s.workflow = "payment" => c.commit_policy = s.commit_policy
    BY <1>1 DEF RunFixed, WellFormed, Fields, Own
  <1>3. /\ w.policy_effective = s.world.policy_effective
        /\ s.workflow = "payment" => w.approval_action_bound = s.world.approval_action_bound
        /\ s.workflow = "credit" => w.decision_record_bound = s.world.decision_record_bound
    BY DEF RunFixed, Informed, PaymentFacts, CreditFacts, AgreeBut, Rooted
  <1>4. Informed(c)
    BY <1>1, <1>2 DEF RunFixed, Informed
  <1>5. RunFixed(r, c)
    BY <1>1, <1>2, <1>3, <1>4 DEF RunFixed
  <1> QED
    BY <1>1, <1>2, <1>5 DEF Facts, Phases, c

LEMMA StartedKnown ==
    ASSUME NEW r \in Runs, NEW scenario \in Scenarios
    PROVE  RunKnown(r, Started(r, scenario))
  <1> DEFINE s == Started(r, scenario)
             rest == [run |-> r, phase |-> "start", sink |-> EventSink(r, scenario.contract),
                      ablation_mode |-> FALSE]
  <1>1. /\ IsPayment(scenario) \/ IsCredit(scenario)
        /\ scenario.world.policy_effective \in BOOLEAN
        /\ scenario.harness \in BOOLEAN
    BY ScenariosAssumption
  <1>2. DOMAIN rest = {"run", "phase", "sink", "ablation_mode"}
    OBVIOUS
  <1>3. DOMAIN scenario \cap {"run", "phase", "sink", "ablation_mode"} = {}
    BY <1>1 DEF IsPayment, IsCredit, Common
  <1>4. /\ DOMAIN s = DOMAIN scenario \cup {"run", "phase", "sink", "ablation_mode"}
        /\ \A f \in DOMAIN scenario : s[f] = scenario[f]
        /\ \A f \in DOMAIN rest : s[f] = rest[f]
    <2> HIDE DEF rest
    <2>1. s = Extend(scenario, rest)
      BY DEF Started, rest
    <2> QED
      BY <1>2, <1>3, <2>1 DEF Extend
  <1>5. /\ s.run = r /\ s.phase = "start" /\ s.sink = EventSink(r, scenario.contract)
        /\ s.ablation_mode = FALSE
    BY <1>4
  <1>6. /\ s.workflow = scenario.workflow /\ s.world = scenario.world
        /\ s.contract = scenario.contract /\ s.harness = scenario.harness
        /\ scenario.workflow = "payment" => s.commit_policy = scenario.commit_policy
        /\ scenario.workflow \in {"payment", "credit"}
    BY <1>1, <1>4 DEF IsPayment, IsCredit, Common
  <1>7. /\ DOMAIN s.sink = {"id", "enabled", "events"}
        /\ s.sink.id = r
    BY <1>5 DEF EventSink
  <1>8. WellFormed(s)
    BY <1>1, <1>4, <1>6, <1>7 DEF WellFormed, Fields, Own, HasSink, IsPayment, IsCredit, Common
  <1> HIDE DEF s
  <1>9. DOMAIN s.world = Facts(s) /\ Informed(s)
    BY <1>1, <1>6 DEF IsPayment, IsCredit, Facts, Informed
  <1>10. RunFixed(r, s)
    BY <1>1, <1>5, <1>6, <1>7, <1>8, <1>9, PaymentCatalogue, CreditCatalogue
       DEF RunFixed, IsPayment, IsCredit, Spec
  <1>11. HoldsSlots(s, 0, KnownProof(s))
    BY <1>5, <1>6, FreshHolds
  <1>12. "start" \in DOMAIN Phases(s) /\ Phases(s)["start"] = 0
    BY DEF Phases, PaymentPhases, CreditPhases
  <1> QED
    BY <1>5, <1>9, <1>10, <1>11, <1>12 DEF RunKnown, s

LEMMA KnownMoves ==
    ASSUME NEW r, NEW s, RunKnown(r, s), s.phase # "replayed",
           NEW phase \in DOMAIN Phases(s) \ {"replayed"}, NEW t,
           Reaches(t, s, phase, Phases(s)[phase], KnownProof(s))
    PROVE  /\ RunKnown(r, t)
           /\ SameRun(t, s)
           /\ t.harness = s.harness
           /\ t.phase = phase
           /\ s.workflow = "payment" => t.commit_policy = s.commit_policy
  <1>1. RunFixed(r, s) /\ DOMAIN s.world = Facts(s) /\ WellFormed(s)
    BY DEF RunKnown, RunFixed
  <1>2. RunKnown(r, t)
    BY <1>1, ReachesKnown
  <1> QED
    BY <1>1, <1>2, MovedIsSame DEF Reaches, Own

LEMMA PaymentNodes ==
    ASSUME NEW r, NEW s, RunKnown(r, s), s.workflow = "payment"
    PROVE  LET p == KnownProof(s)
           IN  /\ s.phase = "start" => Reaches(canonicalize(s), s, "canonicalized", 3, p)
               /\ s.phase = "canonicalized" => Reaches(review(s), s, "reviewed", 6, p)
               /\ s.phase = "reviewed" => Reaches(approval(s), s, "approval_captured", 7, p)
               /\ s.phase = "approval_captured" =>
                      Reaches(authority(s), s, "authority_captured", 8, p)
               /\ s.phase = "authority_captured" => Reaches(policy(s), s, "policy_captured", 11, p)
               /\ s.phase = "policy_captured" =>
                      Reaches(Enter(s, "committed"), s, "committed", 11, p)
               /\ s.phase = "effect_committed" => Reaches(report(s), s, "reported", 15, p)
  <1> DEFINE p == KnownProof(s)
  <1>1. WellFormed(s) /\ HoldsSlots(s, PaymentPhases[s.phase], p) /\ p = KnownProof(s)
    BY DEF RunKnown, RunFixed, Phases
  <1> HIDE DEF p
  <1>2. s.phase = "start" => Reaches(canonicalize(s), s, "canonicalized", 3, p)
    BY <1>1, CanonicalizePayment DEF PaymentPhases
  <1>3. s.phase = "canonicalized" => Reaches(review(s), s, "reviewed", 6, p)
    BY <1>1, ReviewPayment DEF PaymentPhases
  <1>4. s.phase = "reviewed" => Reaches(approval(s), s, "approval_captured", 7, p)
    BY <1>1, ApprovalPayment DEF PaymentPhases
  <1>5. s.phase = "approval_captured" => Reaches(authority(s), s, "authority_captured", 8, p)
    BY <1>1, AuthorityPayment DEF PaymentPhases
  <1>6. s.phase = "authority_captured" => Reaches(policy(s), s, "policy_captured", 11, p)
    BY <1>1, PolicyPayment DEF PaymentPhases
  <1>7. s.phase = "policy_captured" => Reaches(Enter(s, "committed"), s, "committed", 11, p)
    BY <1>1, EnterMoves DEF PaymentPhases, Reaches
  <1>8. s.phase = "effect_committed" => Reaches(report(s), s, "reported", 15, p)
    BY <1>1, ReportPayment DEF PaymentPhases
  <1> QED
    BY <1>1, <1>2, <1>3, <1>4, <1>5, <1>6, <1>7, <1>8

LEMMA CreditNodes ==
    ASSUME NEW r, NEW s, RunKnown(r, s), s.workflow = "credit"
    PROVE  LET p == KnownProof(s)
           IN  /\ s.phase = "start" => Reaches(canonicalize(s), s, "canonicalized", 3, p)
               /\ s.phase = "canonicalized" => Reaches(features(s), s, "features_captured", 5, p)
               /\ s.phase = "features_captured" => Reaches(policy(s), s, "policy_captured", 8, p)
               /\ s.phase = "policy_captured" => Reaches(decide(s), s, "decided", 11, p)
               /\ s.phase = "decided" => Reaches(notice(s), s, "reported", 13, p)
  <1> DEFINE p == KnownProof(s)
  <1>1. WellFormed(s) /\ HoldsSlots(s, CreditPhases[s.phase], p) /\ p = KnownProof(s)
    BY DEF RunKnown, RunFixed, Phases
  <1> HIDE DEF p
  <1>2. s.phase = "start" => Reaches(canonicalize(s), s, "canonicalized", 3, p)
    BY <1>1, CanonicalizeCredit DEF CreditPhases
  <1>3. s.phase = "canonicalized" => Reaches(features(s), s, "features_captured", 5, p)
    BY <1>1, FeaturesCredit DEF CreditPhases
  <1>4. s.phase = "features_captured" => Reaches(policy(s), s, "policy_captured", 8, p)
    BY <1>1, PolicyCredit DEF CreditPhases
  <1>5. s.phase = "policy_captured" => Reaches(decide(s), s, "decided", 11, p)
    <2> SUFFICES ASSUME s.phase = "policy_captured"
                 PROVE  Reaches(decide(s), s, "decided", 11, p)
      OBVIOUS
    <2>1. Informed(s) /\ s.contract \subseteq DOMAIN CreditMechanisms /\ s.ablation_mode = FALSE
      BY CreditCatalogue DEF RunKnown, RunFixed, Spec
    <2>2. Reaches(decide(s), InWorld(s, DecisionWorld(s)), "decided", 11, p)
      BY <1>1, <2>1, DecideCredit DEF CreditPhases
    <2>3. DecisionWorld(s) = s.world
      BY <2>1 DEF DecisionWorld
    <2>4. Moved(InWorld(s, s.world), s)
      BY <1>1, InWorldKeeps DEF Moved, WellFormed, Fields
    <2> QED
      BY <2>2, <2>3, <2>4, MovedIsTransitive DEF Reaches
  <1>6. s.phase = "decided" => Reaches(notice(s), s, "reported", 13, p)
    BY <1>1, NoticeCredit DEF CreditPhases
  <1> QED
    BY <1>1, <1>2, <1>3, <1>4, <1>5, <1>6

LEMMA SettleKnown ==
    ASSUME NEW r, NEW s, RunKnown(r, s), s.workflow = "payment", s.phase = "committed", NEW rows
    PROVE  LET t == settle(s, rows)
           IN  /\ RunKnown(r, t)
               /\ t.phase = "effect_committed"
               /\ t.workflow = "payment"
               /\ t.harness = s.harness
               /\ t.run = s.run
               /\ t.commit_policy = s.commit_policy
               /\ t.world = CountedWorld(s, rows)
  <1> DEFINE w == CountedWorld(s, rows)
             c == InWorld(s, w)
             t == settle(s, rows)
  <1>1. /\ WellFormed(s) /\ Informed(s) /\ RunFixed(r, s) /\ HoldsSlots(s, 11, KnownProof(s))
        /\ s.contract \subseteq DOMAIN PaymentMechanisms
        /\ DOMAIN s.world = Facts(s)
    BY PaymentCatalogue DEF RunKnown, RunFixed, Spec, Phases, PaymentPhases
  <1>2. Reaches(t, c, "effect_committed", 13, KnownProof(s))
    BY <1>1, SettlePayment
  <1>3. Rooted(Spec(s), {"ledger_commit_count"})
    BY SpecFields DEF Rooted, Spec
  <1>4. AgreeBut(w, s.world, {"ledger_commit_count"}) /\ DOMAIN w = DOMAIN s.world
    BY DEF AgreeBut, CountedWorld
  <1>5. RunFixed(r, c) /\ c.world = w /\ Facts(c) = Facts(s) /\ Phases(c) = Phases(s)
    BY <1>1, <1>3, <1>4, InWorldFixed
  <1>6. /\ WellFormed(c) /\ c.workflow = "payment" /\ c.harness = s.harness /\ c.run = s.run
        /\ c.commit_policy = s.commit_policy
    BY <1>1, InWorldKeeps DEF WellFormed, Fields, Own
  <1> HIDE DEF c, t, w
  <1>7. /\ "effect_committed" \in DOMAIN Phases(c) \ {"replayed"}
        /\ Phases(c)["effect_committed"] = 13
    BY <1>6 DEF Phases, PaymentPhases
  <1>8. RunKnown(r, t)
    BY <1>1, <1>2, <1>4, <1>5, <1>7, ReachesKnown
  <1>9. /\ t.phase = "effect_committed" /\ t.workflow = "payment" /\ t.world = w
        /\ t.harness = s.harness /\ t.run = s.run /\ t.commit_policy = s.commit_policy
    BY <1>2, <1>5, <1>6, MovedIsSame DEF Reaches, SameRun, Own
  <1> QED
    BY <1>8, <1>9 DEF t, w

LEMMA ConcludedKnown ==
    ASSUME NEW r, NEW s, RunKnown(r, s), s.phase = "reported",
           NEW fact, DOMAIN fact = ReplayFacts(s),
           s.workflow = "payment" =>
               (fact.duplicate_without_tool_response
                    <=> _commit_count(s.commit_policy, "timeout") = 2),
           s.workflow = "credit" =>
               (fact.denial_without_income_feature <=> s.ablation = "deny")
    PROVE  LET t == Concluded(s, fact, KnownProof(s))
           IN  /\ s.harness => RunKnown(r, t)
               /\ t.phase = "replayed"
               /\ t.workflow = s.workflow
               /\ t.harness = s.harness
               /\ t.run = s.run
               /\ s.workflow = "payment" => t.commit_policy = s.commit_policy
               /\ \A f \in Facts(s) : t.world[f] = s.world[f]
  <1> DEFINE w == Extend(fact, s.world)
             c == InWorld(s, w)
             t == Concluded(s, fact, KnownProof(s))
             p == KnownProof(s)
  <1>1. /\ WellFormed(s) /\ Informed(s) /\ RunFixed(r, s)
        /\ s.contract \subseteq DOMAIN Spec(s).mechanisms
        /\ DOMAIN s.world = Facts(s)
        /\ s.workflow \in {"payment", "credit"}
        /\ HoldsSlots(s, Phases(s)["reported"], p)
    BY DEF RunKnown, RunFixed, WellFormed
  <1>2. Phases(s)["reported"] = LastSlot(s) - 1 /\ Phases(s)["replayed"] = LastSlot(s)
        /\ "replayed" \in DOMAIN Phases(s)
    BY DEF Phases, PaymentPhases, CreditPhases, LastSlot
  <1>3. Reaches(t, c, "replayed", LastSlot(s), p)
    BY <1>1, <1>2, ConcludedHolds
  <1>4. /\ AgreeBut(w, s.world, ReplayFacts(s))
        /\ DOMAIN w = DOMAIN s.world \cup ReplayFacts(s)
        /\ \A f \in ReplayFacts(s) : w[f] = fact[f]
    BY DEF AgreeBut, Extend
  <1>5. Rooted(Spec(s), ReplayFacts(s))
    BY SpecFields DEF Rooted, Spec, ReplayFacts
  <1>6. RunFixed(r, c) /\ c.world = w /\ Facts(c) = Facts(s) /\ Phases(c) = Phases(s)
    BY <1>1, <1>4, <1>5, InWorldFixed
  <1>7. /\ WellFormed(c) /\ c.workflow = s.workflow /\ c.harness = s.harness /\ c.run = s.run
        /\ c[Own(s)] = s[Own(s)] /\ Own(c) = Own(s)
    BY <1>1, InWorldKeeps DEF WellFormed, Fields, Own
  <1> HIDE DEF c, w, t, p
  <1>8. /\ WellFormed(t) /\ SameRun(t, c) /\ t.harness = c.harness
        /\ t.ablation_mode = c.ablation_mode /\ t[Own(c)] = c[Own(c)] /\ Own(t) = Own(c)
        /\ t.sink.id = c.sink.id /\ t.phase = "replayed"
        /\ HoldsSlots(t, LastSlot(s), p)
    BY <1>3, <1>7, MovedIsSame DEF Reaches, Moved
  <1>9. Spec(t) = Spec(c) /\ Phases(t) = Phases(s) /\ Facts(t) = Facts(s)
        /\ ReplayFacts(t) = ReplayFacts(s)
    BY <1>7, <1>8 DEF SameRun, Spec, Phases, Facts, ReplayFacts
  <1>10. RunFixed(r, t)
    BY <1>6, <1>8, <1>9 DEF RunFixed, SameRun, Informed, Own
  <1>11. t.world = w /\ t.workflow = s.workflow /\ t[Own(s)] = s[Own(s)]
    BY <1>6, <1>7, <1>8 DEF SameRun
  <1>12. \A f \in Facts(s) : t.world[f] = s.world[f]
    <2>1. Facts(s) \cap ReplayFacts(s) = {}
      BY DEF Facts, ReplayFacts, PaymentFacts, CreditFacts
    <2> QED
      BY <1>1, <1>4, <1>11, <2>1 DEF AgreeBut
  <1>13. KnownProof(t) = p
    <2>1. CASE s.workflow = "payment"
      <3>1. /\ t.world.tool_response = s.world.tool_response
            /\ t.world.ledger_commit_count = s.world.ledger_commit_count
        BY <1>12, <2>1 DEF Facts, PaymentFacts
      <3> QED
        BY <1>11, <2>1, <3>1 DEF KnownProof, p
    <2>2. CASE s.workflow = "credit"
      <3>1. /\ t.world.model_decision = s.world.model_decision
            /\ t.ablation = s.ablation
        BY <1>11, <1>12, <2>2 DEF Facts, CreditFacts, Own
      <3> QED
        BY <1>11, <2>2, <3>1 DEF KnownProof, p
    <2> QED
      BY <1>1, <2>1, <2>2
  <1>14. FactIsKnown(t)
    BY <1>1, <1>4, <1>11 DEF FactIsKnown, ReplayFacts, Own
  <1>15. s.harness => RunKnown(r, t)
    BY <1>1, <1>2, <1>4, <1>7, <1>8, <1>9, <1>10, <1>11, <1>13, <1>14 DEF RunKnown
  <1>16. s.workflow = "payment" => t.commit_policy = s.commit_policy
    BY <1>11 DEF Own
  <1>17. /\ t.phase = "replayed" /\ t.workflow = s.workflow /\ t.harness = s.harness
         /\ t.run = s.run
    BY <1>7, <1>8 DEF SameRun
  <1> QED
    BY <1>12, <1>15, <1>16, <1>17 DEF t, p

LEMMA OmissionKnown ==
    ASSUME NEW r, NEW s, RunKnown(r, s), s.workflow = "payment", s.phase = "reported"
    PROVE  LET replayed == PaymentRun([Again(s, <<r, "replay">>) EXCEPT
                                          !.world.tool_response = "timeout"], <<>>)
               prefix_equal == PaymentPrefix(s.sink) = PaymentPrefix(replayed.sink)
           IN  /\ replayed.world.ledger_commit_count = _commit_count(s.commit_policy, "timeout")
               /\ replay_proof("tool_response", s.world.tool_response,
                               <<replayed.world.tool_response>>, prefix_equal,
                               prefix_equal /\ s.world.ledger_commit_count = 2) = KnownProof(s)
  <1> DEFINE replayed == PaymentRun([Again(s, <<r, "replay">>) EXCEPT
                                          !.world.tool_response = "timeout"], <<>>)
             equal == PaymentPrefix(s.sink) = PaymentPrefix(replayed.sink)
             count == s.world.ledger_commit_count
  <1>1. /\ WellFormed(s) /\ Informed(s) /\ s.commit_policy \in CommitPolicies
        /\ s.contract \subseteq DOMAIN PaymentMechanisms
        /\ HoldsSlots(s, 15, KnownProof(s))
    BY PaymentCatalogue DEF RunKnown, RunFixed, Spec, Phases, PaymentPhases
  <1>2. /\ replayed.world.tool_response = "timeout"
        /\ replayed.world.ledger_commit_count = _commit_count(s.commit_policy, "timeout")
        /\ equal = TRUE
    BY <1>1, OmissionHolds
  <1> HIDE DEF replayed, equal
  <1>3. (equal /\ count = 2) = (count = 2)
    BY <1>2
  <1> HIDE DEF count
  <1>4. replay_proof("tool_response", s.world.tool_response, <<replayed.world.tool_response>>,
                     equal, equal /\ count = 2)
          = replay_proof("tool_response", s.world.tool_response, <<"timeout">>, TRUE, count = 2)
    BY <1>2, <1>3, Zenon
  <1> QED
    BY <1>2, <1>4 DEF KnownProof, replayed, equal, count

LEMMA AblationKnown ==
    ASSUME NEW r, NEW s, RunKnown(r, s), s.workflow = "credit", s.phase = "reported", NEW trial
    PROVE  LET t == CreditRun([Again(s, <<r, trial>>) EXCEPT !.ablation_mode = TRUE])
           IN  /\ t.world.human_decision = s.ablation
               /\ CreditPrefix(t.sink) = CreditPrefix(s.sink)
  <1>1. /\ WellFormed(s) /\ Informed(s)
        /\ s.contract \subseteq DOMAIN CreditMechanisms
        /\ HoldsSlots(s, 13, KnownProof(s))
    BY CreditCatalogue DEF RunKnown, RunFixed, Spec, Phases, CreditPhases
  <1> QED
    BY <1>1, AblationHolds

-----------------------------------------------------------------------------
(* Whatever the runs do, what they have emitted is known. *)

LEMMA StepKnown ==
    ASSUME RunsKnown, NEW r \in Runs, NEW after, after = Failed \/ RunKnown(r, after),
           runs' = [runs EXCEPT ![r] = after]
    PROVE  RunsKnown'
  BY DEF RunsKnown

LEMMA IdleIsNotKnown ==
    ASSUME NEW r, NEW s, RunKnown(r, s)
    PROVE  s # Idle /\ s # Failed /\ s.workflow \in {"payment", "credit"}
           /\ s.phase \notin {"idle", "failed"}
  <1>1. s.phase \in DOMAIN Phases(s) /\ s.workflow \in {"payment", "credit"}
    BY DEF RunKnown, RunFixed, WellFormed
  <1>2. s.phase \notin {"idle", "failed"}
    BY <1>1 DEF Phases, PaymentPhases, CreditPhases
  <1> QED
    BY <1>1, <1>2 DEF Idle, Failed

LEMMA PhaseNumbers ==
    ASSUME NEW s
    PROVE  /\ s.workflow = "payment" =>
                 /\ Phases(s) = PaymentPhases
                 /\ DOMAIN Phases(s) = {"start", "canonicalized", "reviewed", "approval_captured",
                                        "authority_captured", "policy_captured", "committed",
                                        "effect_committed", "reported", "replayed"}
                 /\ Phases(s)["canonicalized"] = 3
                 /\ Phases(s)["reviewed"] = 6
                 /\ Phases(s)["approval_captured"] = 7
                 /\ Phases(s)["authority_captured"] = 8
                 /\ Phases(s)["policy_captured"] = 11
                 /\ Phases(s)["committed"] = 11
                 /\ Phases(s)["effect_committed"] = 13
                 /\ Phases(s)["reported"] = 15
           /\ s.workflow = "credit" =>
                 /\ Phases(s) = CreditPhases
                 /\ DOMAIN Phases(s) = {"start", "canonicalized", "features_captured",
                                        "policy_captured", "decided", "reported", "replayed"}
                 /\ Phases(s)["canonicalized"] = 3
                 /\ Phases(s)["features_captured"] = 5
                 /\ Phases(s)["policy_captured"] = 8
                 /\ Phases(s)["decided"] = 11
                 /\ Phases(s)["reported"] = 13
  BY DEF Phases, PaymentPhases, CreditPhases

(* A node keeps what the ledger is asked about the run. *)
SameLedger(t, s) ==
    /\ t.workflow = s.workflow
    /\ t.harness = s.harness
    /\ t.run = s.run
    /\ t.commit_policy = s.commit_policy
    /\ t.world.tool_response = s.world.tool_response
    /\ t.world.ledger_commit_count = s.world.ledger_commit_count
    /\ _action_identity(Spec(t), t.world) = _action_identity(Spec(s), s.world)

LEMMA PaymentNodeKnown ==
    ASSUME NEW r, NEW s, RunKnown(r, s), s.workflow = "payment", s.phase # "replayed",
           NEW phase \in DOMAIN Phases(s) \ {"replayed"}, NEW t,
           Reaches(t, s, phase, Phases(s)[phase], KnownProof(s))
    PROVE  RunKnown(r, t) /\ SameLedger(t, s) /\ t.phase = phase
  BY KnownMoves DEF SameLedger, SameRun, Spec

LEMMA PaymentStepKnown ==
    ASSUME NEW r, NEW s, RunKnown(r, s), s.workflow = "payment"
    PROVE  LET Node(t, phase) == RunKnown(r, t) /\ SameLedger(t, s) /\ t.phase = phase
           IN  /\ s.phase = "start" => Node(canonicalize(s), "canonicalized")
               /\ s.phase = "canonicalized" => Node(review(s), "reviewed")
               /\ s.phase = "reviewed" => Node(approval(s), "approval_captured")
               /\ s.phase = "approval_captured" => Node(authority(s), "authority_captured")
               /\ s.phase = "authority_captured" => Node(policy(s), "policy_captured")
               /\ s.phase = "policy_captured" => Node(Enter(s, "committed"), "committed")
               /\ s.phase = "effect_committed" => Node(report(s), "reported")
  <1>1. s.phase = "start" => /\ RunKnown(r, canonicalize(s)) /\ SameLedger(canonicalize(s), s)
                             /\ canonicalize(s).phase = "canonicalized"
    BY PaymentNodes, PaymentNodeKnown, PhaseNumbers
  <1>2. s.phase = "canonicalized" => /\ RunKnown(r, review(s)) /\ SameLedger(review(s), s)
                                     /\ review(s).phase = "reviewed"
    BY PaymentNodes, PaymentNodeKnown, PhaseNumbers
  <1>3. s.phase = "reviewed" => /\ RunKnown(r, approval(s)) /\ SameLedger(approval(s), s)
                                /\ approval(s).phase = "approval_captured"
    BY PaymentNodes, PaymentNodeKnown, PhaseNumbers
  <1>4. s.phase = "approval_captured" => /\ RunKnown(r, authority(s)) /\ SameLedger(authority(s), s)
                                         /\ authority(s).phase = "authority_captured"
    BY PaymentNodes, PaymentNodeKnown, PhaseNumbers
  <1>5. s.phase = "authority_captured" => /\ RunKnown(r, policy(s)) /\ SameLedger(policy(s), s)
                                          /\ policy(s).phase = "policy_captured"
    BY PaymentNodes, PaymentNodeKnown, PhaseNumbers
  <1>6. s.phase = "policy_captured" =>
            /\ RunKnown(r, Enter(s, "committed")) /\ SameLedger(Enter(s, "committed"), s)
            /\ Enter(s, "committed").phase = "committed"
    BY PaymentNodes, PaymentNodeKnown, PhaseNumbers
  <1>7. s.phase = "effect_committed" => /\ RunKnown(r, report(s)) /\ SameLedger(report(s), s)
                                        /\ report(s).phase = "reported"
    BY PaymentNodes, PaymentNodeKnown, PhaseNumbers
  <1> QED
    BY <1>1, <1>2, <1>3, <1>4, <1>5, <1>6, <1>7

LEMMA CreditStepKnown ==
    ASSUME NEW r, NEW s, RunKnown(r, s), s.workflow = "credit"
    PROVE  LET Node(t) == RunKnown(r, t) /\ t.workflow = "credit" /\ t.harness = s.harness
           IN  /\ s.phase = "start" => Node(canonicalize(s))
               /\ s.phase = "canonicalized" => Node(features(s))
               /\ s.phase = "features_captured" => Node(policy(s))
               /\ s.phase = "policy_captured" => Node(decide(s))
               /\ s.phase = "decided" => Node(notice(s))
  <1>1. s.phase = "start" => /\ RunKnown(r, canonicalize(s)) /\ canonicalize(s).workflow = "credit"
                             /\ canonicalize(s).harness = s.harness
    BY CreditNodes, KnownMoves, PhaseNumbers DEF SameRun
  <1>2. s.phase = "canonicalized" => /\ RunKnown(r, features(s)) /\ features(s).workflow = "credit"
                             /\ features(s).harness = s.harness
    BY CreditNodes, KnownMoves, PhaseNumbers DEF SameRun
  <1>3. s.phase = "features_captured" => /\ RunKnown(r, policy(s)) /\ policy(s).workflow = "credit"
                             /\ policy(s).harness = s.harness
    BY CreditNodes, KnownMoves, PhaseNumbers DEF SameRun
  <1>4. s.phase = "policy_captured" => /\ RunKnown(r, decide(s)) /\ decide(s).workflow = "credit"
                             /\ decide(s).harness = s.harness
    BY CreditNodes, KnownMoves, PhaseNumbers DEF SameRun
  <1>5. s.phase = "decided" => /\ RunKnown(r, notice(s)) /\ notice(s).workflow = "credit"
                             /\ notice(s).harness = s.harness
    BY CreditNodes, KnownMoves, PhaseNumbers DEF SameRun
  <1> QED
    BY <1>1, <1>2, <1>3, <1>4, <1>5

LEMMA ConcludedPayment ==
    ASSUME NEW r, NEW s, RunKnown(r, s), s.phase = "reported", s.workflow = "payment", s.harness,
           NEW fact, DOMAIN fact = ReplayFacts(s),
           fact.duplicate_without_tool_response <=> _commit_count(s.commit_policy, "timeout") = 2
    PROVE  LET t == Concluded(s, fact, KnownProof(s))
           IN  RunKnown(r, t) /\ t.phase = "replayed" /\ SameLedger(t, s)
  <1> DEFINE t == Concluded(s, fact, KnownProof(s))
  <1>1. /\ RunKnown(r, t) /\ t.phase = "replayed" /\ t.workflow = s.workflow
        /\ t.harness = s.harness /\ t.run = s.run /\ t.commit_policy = s.commit_policy
        /\ \A f \in Facts(s) : t.world[f] = s.world[f]
    <2>1. ~ (s.workflow = "credit")
      OBVIOUS
    <2>2. /\ s.harness => RunKnown(r, t)
          /\ t.phase = "replayed" /\ t.workflow = s.workflow
          /\ t.harness = s.harness /\ t.run = s.run
          /\ s.workflow = "payment" => t.commit_policy = s.commit_policy
          /\ \A f \in Facts(s) : t.world[f] = s.world[f]
      <3>1. s.harness => RunKnown(r, t)
        BY <2>1, ConcludedKnown
      <3>2. t.phase = "replayed" /\ t.workflow = s.workflow
        BY <2>1, ConcludedKnown
      <3>3. t.harness = s.harness
        BY <2>1, ConcludedKnown
      <3>4. t.run = s.run
        BY <2>1, ConcludedKnown
      <3>5. s.workflow = "payment" => t.commit_policy = s.commit_policy
        BY <2>1, ConcludedKnown
      <3>6. \A f \in Facts(s) : t.world[f] = s.world[f]
        BY <2>1, ConcludedKnown
      <3> QED
        BY <3>1, <3>2, <3>3, <3>4, <3>5, <3>6
    <2> QED
      BY <2>2
  <1> HIDE DEF t
  <1>2. SameLedger(t, s)
    BY <1>1, SpecFields DEF SameLedger, Facts, PaymentFacts, Spec, _action_identity
  <1> QED
    BY <1>1, <1>2 DEF t

LEMMA OmitStepKnown ==
    ASSUME NEW r \in Runs, OmitToolResponse(r), RunKnown(r, runs[r]), DOMAIN runs = Runs
    PROVE  \E t : /\ RunKnown(r, t) /\ SameLedger(t, runs[r]) /\ t.phase = "replayed"
                  /\ runs' = [runs EXCEPT ![r] = t]
  <1> DEFINE s == runs[r]
             replayed == PaymentRun([Again(s, <<r, "replay">>) EXCEPT
                                          !.world.tool_response = "timeout"], <<>>)
             prefix_equal == PaymentPrefix(s.sink) = PaymentPrefix(replayed.sink)
             proof == replay_proof("tool_response", s.world.tool_response,
                                   <<replayed.world.tool_response>>, prefix_equal,
                                   prefix_equal /\ s.world.ledger_commit_count = 2)
             fact == [duplicate_without_tool_response |-> replayed.world.ledger_commit_count = 2]
             t == Concluded(s, fact, proof)
  <1>1. /\ s.workflow = "payment" /\ s.phase = "reported" /\ s.harness
        /\ runs' = [runs EXCEPT ![r] = t]
    BY DEF OmitToolResponse, OmittedRun, ReplayRows
  <1>2. /\ replayed.world.ledger_commit_count = _commit_count(s.commit_policy, "timeout")
        /\ proof = KnownProof(s)
    BY <1>1, OmissionKnown
  <1> HIDE DEF replayed, proof
  <1>3. /\ DOMAIN fact = ReplayFacts(s)
        /\ fact.duplicate_without_tool_response <=> _commit_count(s.commit_policy, "timeout") = 2
    BY <1>1, <1>2 DEF ReplayFacts
  <1> HIDE DEF fact
  <1> HIDE DEF s
  <1>4. /\ RunKnown(r, t) /\ t.phase = "replayed" /\ SameLedger(t, s)
    <2>1. RunKnown(r, s)
      BY DEF s
    <2> QED
      BY <1>1, <1>2, <1>3, <2>1, ConcludedPayment
  <1> QED
    BY <1>1, <1>4 DEF s

LEMMA AblateStepKnown ==
    ASSUME NEW r \in Runs, AblateIncome(r), RunKnown(r, runs[r]), DOMAIN runs = Runs
    PROVE  \E t : /\ RunKnown(r, t) /\ t.workflow = "credit" /\ t.harness = runs[r].harness
                  /\ runs' = [runs EXCEPT ![r] = t]
  <1> DEFINE s == runs[r]
             trials == [t \in 1 .. CreditSpec.min_trials |-> AblatedRun(r, t)]
             decisions == [t \in DOMAIN trials |-> trials[t].world.human_decision]
             prefix_equal == \A t \in DOMAIN trials :
                                 CreditPrefix(trials[t].sink) = CreditPrefix(s.sink)
             consistent == Cardinality(ToSet(decisions)) = 1
             proof == replay_proof("model_decision", s.world.model_decision, decisions,
                                   prefix_equal, prefix_equal /\ consistent)
             fact == [denial_without_income_feature |->
                          \A t \in DOMAIN trials : decisions[t] = "deny"]
             after == Concluded(s, fact, proof)
  <1>1. /\ s.workflow = "credit" /\ s.phase = "reported" /\ s.harness
        /\ runs' = [runs EXCEPT ![r] = after]
    BY DEF AblateIncome
  <1>2. DOMAIN trials = 1 .. 3
    BY SpecFields
  <1>3. ASSUME NEW t \in 1 .. 3
        PROVE  /\ trials[t].world.human_decision = s.ablation
               /\ CreditPrefix(trials[t].sink) = CreditPrefix(s.sink)
    <2>1. trials[t] = CreditRun([Again(s, <<r, t>>) EXCEPT !.ablation_mode = TRUE])
      BY <1>2, SpecFields DEF AblatedRun
    <2> HIDE DEF trials
    <2> QED
      BY <1>1, <2>1, AblationKnown
  <1> HIDE DEF trials
  <1>4. decisions = [t \in 1 .. 3 |-> s.ablation]
    BY <1>2, <1>3
  <1>5. prefix_equal = TRUE
    BY <1>2, <1>3
  <1>6. consistent = TRUE
    <2>1. ToSet(decisions) = {s.ablation}
      BY <1>4 DEF ToSet
    <2> QED
      BY <2>1, FS_Singleton
  <1>7. fact.denial_without_income_feature <=> s.ablation = "deny"
    BY <1>2, <1>4
  <1>8. DOMAIN fact = ReplayFacts(s)
    BY <1>1 DEF ReplayFacts
  <1> HIDE DEF fact, decisions, prefix_equal, consistent
  <1>9. (prefix_equal /\ consistent) = TRUE
    BY <1>5, <1>6
  <1>10. proof = replay_proof("model_decision", s.world.model_decision,
                              [t \in 1 .. 3 |-> s.ablation], TRUE, TRUE)
    BY <1>4, <1>5, <1>9, Zenon
  <1>11. proof = KnownProof(s)
    BY <1>1, <1>10 DEF KnownProof
  <1> HIDE DEF proof
  <1>12. RunKnown(r, after) /\ after.workflow = s.workflow /\ after.harness = s.harness
    BY <1>1, <1>7, <1>8, <1>11, ConcludedKnown
  <1> HIDE DEF after
  <1> QED
    BY <1>1, <1>12

(* At all times a run is idle, has failed or is known: what it has emitted is *)
(* the closed form of its phase, its contract and its world.                   *)
THEOREM RunsAreKnown == RunsSpec => []RunsKnown
  <1>1. Init => RunsKnown
    BY DEF Init, RunsKnown
  <1>2. ASSUME RunsKnown, [Next]_vars PROVE RunsKnown'
    <2>1. CASE UNCHANGED vars
      BY <1>2, <2>1 DEF vars, RunsKnown
    <2>2. ASSUME NEW r \in Runs, RunKnown(r, runs[r]), runs[r].workflow = "payment"
          PROVE  /\ Canonicalize(r) \/ Review(r) \/ Approval(r) \/ Authority(r) \/ Policy(r)
                       => RunsKnown'
                 /\ Report(r) => RunsKnown'
                 /\ Commit(r) => RunsKnown'
                 /\ CountRows(r) => RunsKnown'
                 /\ OmitToolResponse(r) => RunsKnown'
      <3>1. Canonicalize(r) => RunsKnown'
        BY <1>2, <2>2, PaymentStepKnown, StepKnown DEF Canonicalize, Step
      <3>2. Review(r) => RunsKnown'
        BY <1>2, <2>2, PaymentStepKnown, StepKnown DEF Review, Step
      <3>3. Approval(r) => RunsKnown'
        BY <1>2, <2>2, PaymentStepKnown, StepKnown DEF Approval, Step
      <3>4. Authority(r) => RunsKnown'
        BY <1>2, <2>2, PaymentStepKnown, StepKnown DEF Authority, Step
      <3>5. Policy(r) => RunsKnown'
        BY <1>2, <2>2, PaymentStepKnown, StepKnown DEF Policy, Step
      <3>6. Report(r) => RunsKnown'
        BY <1>2, <2>2, PaymentStepKnown, StepKnown DEF Report, Step
      <3>7. Commit(r) => RunsKnown'
        <4>1. Commit(r) => runs' = [runs EXCEPT ![r] = Enter(runs[r], "committed")]
          BY DEF Commit, Enter
        <4> QED
          BY <1>2, <2>2, <4>1, PaymentStepKnown, StepKnown DEF Commit
      <3>8. CountRows(r) => RunsKnown'
        BY <1>2, <2>2, SettleKnown, StepKnown DEF CountRows, Step
      <3>9. OmitToolResponse(r) => RunsKnown'
        BY <1>2, <2>2, OmitStepKnown, StepKnown DEF RunsKnown
      <3> QED
        BY <3>1, <3>2, <3>3, <3>4, <3>5, <3>6, <3>7, <3>8, <3>9
    <2>3. ASSUME NEW r \in Runs, RunKnown(r, runs[r]), runs[r].workflow = "credit"
          PROVE  /\ CanonicalizeApplication(r) \/ Features(r) \/ CreditPolicy(r) \/ Decide(r)
                       => RunsKnown'
                 /\ Notice(r) => RunsKnown'
                 /\ AblateIncome(r) => RunsKnown'
      <3>1. CanonicalizeApplication(r) => RunsKnown'
        BY <1>2, <2>3, CreditStepKnown, StepKnown DEF CanonicalizeApplication, Step
      <3>2. Features(r) => RunsKnown'
        BY <1>2, <2>3, CreditStepKnown, StepKnown DEF Features, Step
      <3>3. CreditPolicy(r) => RunsKnown'
        BY <1>2, <2>3, CreditStepKnown, StepKnown DEF CreditPolicy, Step
      <3>4. Decide(r) => RunsKnown'
        BY <1>2, <2>3, CreditStepKnown, StepKnown DEF Decide, Step
      <3>5. Notice(r) => RunsKnown'
        BY <1>2, <2>3, CreditStepKnown, StepKnown DEF Notice, Step
      <3>6. AblateIncome(r) => RunsKnown'
        BY <1>2, <2>3, AblateStepKnown, StepKnown DEF RunsKnown
      <3> QED
        BY <3>1, <3>2, <3>3, <3>4, <3>5, <3>6
    <2>4. ASSUME NEW r \in Runs, runs[r] = Idle \/ runs[r] = Failed
          PROVE  runs[r].phase \in {"idle", "failed"}
      BY <2>4 DEF Idle, Failed
    <2>5. ASSUME NEW r \in Runs,
                 \/ Canonicalize(r) \/ Review(r) \/ Approval(r) \/ Authority(r) \/ Policy(r)
                 \/ Commit(r) \/ CountRows(r) \/ Report(r) \/ OmitToolResponse(r)
          PROVE  RunsKnown'
      <3>1. runs[r].workflow = "payment" /\ runs[r].phase \notin {"idle", "failed"}
        BY <2>5 DEF Canonicalize, Review, Approval, Authority, Policy, Commit, CountRows, Report,
                    OmitToolResponse, Step
      <3>2. RunKnown(r, runs[r])
        BY <1>2, <2>4, <3>1 DEF RunsKnown
      <3> QED
        BY <2>2, <2>5, <3>1, <3>2
    <2>6. ASSUME NEW r \in Runs,
                 \/ CanonicalizeApplication(r) \/ Features(r) \/ CreditPolicy(r) \/ Decide(r)
                 \/ Notice(r) \/ AblateIncome(r)
          PROVE  RunsKnown'
      <3>1. runs[r].workflow = "credit" /\ runs[r].phase \notin {"idle", "failed"}
        BY <2>6 DEF CanonicalizeApplication, Features, CreditPolicy, Decide, Notice, AblateIncome,
                    Step
      <3>2. RunKnown(r, runs[r])
        BY <1>2, <2>4, <3>1 DEF RunsKnown
      <3> QED
        BY <2>3, <2>6, <3>1, <3>2
    <2>7. ASSUME NEW r \in Runs, NEW scenario \in Scenarios, StartRun(r, scenario)
          PROVE  RunsKnown'
      BY <1>2, <2>7, StartedKnown, StepKnown DEF StartRun
    <2>8. ASSUME NEW r \in Runs, NEW answer \in Answers, PlannerFails(r, answer)
          PROVE  RunsKnown'
      BY <1>2, <2>8, StepKnown DEF PlannerFails, Failed
    <2>9. ASSUME NEW r \in Runs, Abort(r)
          PROVE  RunsKnown'
      BY <1>2, <2>9, StepKnown DEF Abort, Failed
    <2>10. ASSUME NEW r \in Runs, Keep(r) \/ \E events : Damage(r, events)
           PROVE  RunsKnown'
      BY <1>2, <2>10 DEF Keep, Damage, RunsKnown
    <2>11. ASSUME NEW r \in Runs,
                  \/ \E i \in DOMAIN retained[r] : LoseEvent(r, i) \/ SwapEvents(r, i)
                  \/ \E kept \in SUBSET DOMAIN retained[r] : Resign(r, kept)
           PROVE  RunsKnown'
      BY <2>10, <2>11 DEF LoseEvent, SwapEvents, Resign
    <2> QED
      BY <1>2, <2>1, <2>5, <2>6, <2>7, <2>8, <2>9, <2>10, <2>11 DEF Next
  <1> QED
    BY <1>1, <1>2, PTL DEF RunsSpec

-----------------------------------------------------------------------------
(* The ledgers. *)

Receipt(r) == runs[r].world.ledger_commit_count

Wrote(r) == runs[r].workflow = "payment" /\ (runs[r].phase = "committed" \/ Counted(r))

(* Every row was written by a run that has failed or is known to have written it. *)
RowsAreOwned ==
    \A d \in Databases : \A i \in DOMAIN databases[d] :
        LET row == databases[d][i]
        IN  /\ row.run \in Runs
            /\ d # Shared => row.run = d
            /\ \/ runs[row.run] = Failed
               \/ Wrote(row.run) /\ database(row.run) = d /\ row.action = Action(row.run)

RowsOfAction(d, action) == {i \in DOMAIN databases[d] : databases[d][i].action = action}

RowsBy(d, action, T) == {i \in RowsOfAction(d, action) : databases[d][i].run \in T}

ReceiptsAreCovered ==
    \A r \in Runs : Counted(r) =>
        /\ Receipt(r) \in Nat
        /\ Receipt(r) <= Cardinality(RowsOfAction(database(r), Action(r)))

(* Of runs of one action on one ledger, one has counted all that they wrote. *)
OneCountsAll ==
    \A T \in SUBSET Runs : \A d \in Databases : \A r \in T :
        ( /\ \A s \in T : Counted(s)
          /\ \A s \in T : database(s) = d /\ Action(s) = Action(r) ) =>
            \E s \in T : Cardinality(RowsBy(d, Action(r), T)) <= Receipt(s)

(* On the database of its own a harness finds what its run wrote and no more. *)
HarnessIsAlone ==
    \A r \in Runs :
        /\ runs[r] = Idle => databases[r] = <<>>
        /\ (runs[r] # Idle /\ runs[r] # Failed /\ runs[r].harness) =>
              /\ ~ Wrote(r) => databases[r] = <<>>
              /\ Wrote(r) => databases[r] = RowsWritten(runs[r])
              /\ Counted(r) => Receipt(r) = _commit_count(runs[r].commit_policy,
                                                         runs[r].world.tool_response)

LedgerInv ==
    /\ DOMAIN databases = Databases
    /\ \A d \in Databases : \E S : databases[d] \in Seq(S)
    /\ RowsAreOwned
    /\ ReceiptsAreCovered
    /\ OneCountsAll
    /\ HarnessIsAlone

LEMMA RowsAreFinite ==
    ASSUME \A d \in Databases : \E S : databases[d] \in Seq(S), NEW d \in Databases, NEW action
    PROVE  /\ IsFiniteSet(RowsOfAction(d, action))
           /\ Cardinality(RowsOfAction(d, action)) \in Nat
           /\ \A T : /\ Cardinality(RowsBy(d, action, T)) \in Nat
                     /\ Cardinality(RowsBy(d, action, T)) <= Cardinality(RowsOfAction(d, action))
  <1>1. PICK S : databases[d] \in Seq(S)
    OBVIOUS
  <1>2. DOMAIN databases[d] = 1 .. Len(databases[d]) /\ Len(databases[d]) \in Nat
    BY <1>1
  <1>3. IsFiniteSet(1 .. Len(databases[d]))
    BY <1>2, FS_Interval
  <1>4. IsFiniteSet(RowsOfAction(d, action))
    BY <1>2, <1>3, FS_Subset DEF RowsOfAction
  <1>5. \A T : RowsBy(d, action, T) \subseteq RowsOfAction(d, action)
    BY DEF RowsBy
  <1> QED
    BY <1>4, <1>5, FS_Subset, FS_CardinalityType

(* A step that leaves the ledgers alone. *)
LEMMA QuietLedger ==
    ASSUME LedgerInv, DOMAIN runs = Runs, NEW r \in Runs, runs[r] # Failed, NEW t,
           runs' = [runs EXCEPT ![r] = t], UNCHANGED databases,
           \/ t = Failed
           \/ Wrote(r) => Wrote(r)' /\ Action(r)' = Action(r) /\ database(r)' = database(r),
           Counted(r)' => /\ Counted(r)
                          /\ Receipt(r)' = Receipt(r)
                          /\ Action(r)' = Action(r)
                          /\ database(r)' = database(r),
           t # Idle,
           (t # Failed /\ t.harness) =>
               /\ ~ Wrote(r)' => databases[r] = <<>>
               /\ Wrote(r)' => databases[r] = RowsWritten(t)
               /\ Counted(r)' => t.world.ledger_commit_count
                                     = _commit_count(t.commit_policy, t.world.tool_response)
    PROVE  LedgerInv'
  <1>1. /\ runs'[r] = t
        /\ \A q \in Runs \ {r} : runs'[q] = runs[q]
    OBVIOUS
  <1>2. ASSUME NEW q \in Runs \ {r}
        PROVE  /\ Wrote(q)' = Wrote(q)
               /\ Counted(q)' = Counted(q)
               /\ Receipt(q)' = Receipt(q)
               /\ Action(q)' = Action(q)
               /\ database(q)' = database(q)
    <2>1. runs'[q] = runs[q]
      BY <1>1
    <2> QED
      BY <2>1 DEF Wrote, Counted, Receipt, Action, database
  <1>3. RowsAreOwned'
    <2> SUFFICES ASSUME NEW d \in Databases, NEW i \in DOMAIN databases[d]
                 PROVE  LET row == databases[d][i]
                        IN  /\ row.run \in Runs
                            /\ d # Shared => row.run = d
                            /\ \/ runs'[row.run] = Failed
                               \/ Wrote(row.run)' /\ database(row.run)' = d
                                      /\ row.action = Action(row.run)'
      BY DEF RowsAreOwned, Databases
    <2> DEFINE row == databases[d][i]
    <2>1. /\ row.run \in Runs
          /\ d # Shared => row.run = d
          /\ \/ runs[row.run] = Failed
             \/ Wrote(row.run) /\ database(row.run) = d /\ row.action = Action(row.run)
      BY DEF LedgerInv, RowsAreOwned
    <2>2. CASE row.run = r
      <3>1. CASE t = Failed
        BY <1>1, <2>1, <2>2, <3>1
      <3>2. CASE t # Failed
        BY <2>1, <2>2, <3>2
      <3> QED
        BY <3>1, <3>2
    <2>3. CASE row.run # r
      BY <1>1, <1>2, <2>1, <2>3
    <2> QED
      BY <2>2, <2>3
  <1>4. ReceiptsAreCovered'
    <2> SUFFICES ASSUME NEW q \in Runs, Counted(q)'
                 PROVE  /\ Receipt(q)' \in Nat
                        /\ Receipt(q)' <= Cardinality(RowsOfAction(database(q), Action(q)))'
      BY DEF ReceiptsAreCovered
    <2>1. /\ Counted(q) /\ Receipt(q)' = Receipt(q) /\ Action(q)' = Action(q)
          /\ database(q)' = database(q)
      BY <1>2
    <2>2. RowsOfAction(database(q), Action(q))' = RowsOfAction(database(q), Action(q))
      BY <2>1 DEF RowsOfAction
    <2> QED
      BY <2>1, <2>2 DEF LedgerInv, ReceiptsAreCovered
  <1>5. OneCountsAll'
    <2> SUFFICES ASSUME NEW T \in SUBSET Runs, NEW d \in Databases, NEW q \in T,
                        \A s \in T : Counted(s)',
                        \A s \in T : database(s)' = d /\ Action(s)' = Action(q)'
                 PROVE  \E s \in T : Cardinality(RowsBy(d, Action(q), T)') <= Receipt(s)'
      BY DEF OneCountsAll, Databases
    <2>1. \A s \in T : /\ Counted(s) /\ Receipt(s)' = Receipt(s) /\ Action(s)' = Action(s)
                       /\ database(s)' = database(s)
      BY <1>2
    <2>2. PICK s \in T : Cardinality(RowsBy(d, Action(q), T)) <= Receipt(s)
      BY <2>1 DEF LedgerInv, OneCountsAll
    <2>3. RowsBy(d, Action(q), T)' = RowsBy(d, Action(q), T)
      BY <2>1 DEF RowsBy, RowsOfAction
    <2> QED
      BY <2>1, <2>2, <2>3
  <1>6. HarnessIsAlone'
    <2> SUFFICES ASSUME NEW q \in Runs
                 PROVE  (/\ runs[q] = Idle => databases[q] = <<>>
                         /\ (runs[q] # Idle /\ runs[q] # Failed /\ runs[q].harness) =>
                               /\ ~ Wrote(q) => databases[q] = <<>>
                               /\ Wrote(q) => databases[q] = RowsWritten(runs[q])
                               /\ Counted(q) =>
                                     Receipt(q) = _commit_count(runs[q].commit_policy,
                                                                runs[q].world.tool_response))'
      BY DEF HarnessIsAlone
    <2>1. CASE q = r
      BY <1>1, <2>1 DEF Receipt
    <2>2. CASE q # r
      BY <1>1, <1>2, <2>2 DEF LedgerInv, HarnessIsAlone
    <2> QED
      BY <2>1, <2>2
  <1> QED
    BY <1>3, <1>4, <1>5, <1>6 DEF LedgerInv, Databases

(* A node before the commit or after the count. *)
LEMMA PaymentNodeLedger ==
    ASSUME LedgerInv, RunsKnown, NEW r \in Runs, NEW t, runs' = [runs EXCEPT ![r] = t],
           UNCHANGED databases, RunKnown(r, runs[r]), runs[r].workflow = "payment",
           RunKnown(r, t), SameLedger(t, runs[r]),
           \/ /\ {runs[r].phase, t.phase} \cap {"committed", "effect_committed", "reported", "replayed"}
                     = {}
           \/ {runs[r].phase, t.phase} \subseteq {"effect_committed", "reported", "replayed"}
    PROVE  LedgerInv'
  <1> DEFINE s == runs[r]
  <1>1. DOMAIN runs = Runs /\ runs'[r] = t
    BY DEF RunsKnown
  <1>2. /\ s # Idle /\ s # Failed /\ t # Idle /\ t # Failed
    BY IdleIsNotKnown
  <1>3. /\ t.workflow = "payment" /\ t.harness = s.harness /\ t.commit_policy = s.commit_policy
        /\ t.world.tool_response = s.world.tool_response
        /\ t.world.ledger_commit_count = s.world.ledger_commit_count
        /\ RowsWritten(t) = RowsWritten(s)
        /\ _action_identity(Spec(t), t.world) = _action_identity(Spec(s), s.world)
    BY DEF SameLedger, RowsWritten
  <1>4. /\ Wrote(r)' = Wrote(r) /\ Counted(r)' = Counted(r)
        /\ Receipt(r)' = Receipt(r) /\ Action(r)' = Action(r) /\ database(r)' = database(r)
    <2>1. Wrote(r) <=> s.phase \in {"committed", "effect_committed", "reported", "replayed"}
      BY DEF Wrote, Counted
    <2>2. Wrote(r)' <=> t.phase \in {"committed", "effect_committed", "reported", "replayed"}
      BY <1>1, <1>3 DEF Wrote, Counted
    <2>3. Counted(r) <=> s.phase \in {"effect_committed", "reported", "replayed"}
      BY DEF Counted
    <2>4. Counted(r)' <=> t.phase \in {"effect_committed", "reported", "replayed"}
      BY <1>1, <1>3 DEF Counted
    <2>5. (Wrote(r)' <=> Wrote(r)) /\ (Counted(r)' <=> Counted(r))
      <3> HIDE DEF s
      <3> QED
        BY <2>1, <2>2, <2>3, <2>4 DEF s
    <2>6. /\ Wrote(r) \in BOOLEAN /\ Wrote(r)' \in BOOLEAN
          /\ Counted(r) \in BOOLEAN /\ Counted(r)' \in BOOLEAN
      BY DEF Wrote, Counted
    <2>7. Wrote(r)' = Wrote(r) /\ Counted(r)' = Counted(r)
      BY <2>5, <2>6
    <2> QED
      BY <1>1, <1>3, <2>7 DEF Receipt, Action, database
  <1>5. s.harness => /\ ~ Wrote(r) => databases[r] = <<>>
                     /\ Wrote(r) => databases[r] = RowsWritten(s)
                     /\ Counted(r) => Receipt(r) = _commit_count(s.commit_policy,
                                                                s.world.tool_response)
    BY <1>2 DEF LedgerInv, HarnessIsAlone
  <1> HIDE DEF s
  <1>6. t.harness => /\ ~ Wrote(r)' => databases[r] = <<>>
                     /\ Wrote(r)' => databases[r] = RowsWritten(t)
                     /\ Counted(r)' => t.world.ledger_commit_count
                                           = _commit_count(t.commit_policy, t.world.tool_response)
    BY <1>3, <1>4, <1>5 DEF Receipt, s
  <1> QED
    BY <1>1, <1>2, <1>4, <1>6, QuietLedger DEF s

LEMMA CreditNodeLedger ==
    ASSUME LedgerInv, RunsKnown, NEW r \in Runs, NEW t, runs' = [runs EXCEPT ![r] = t],
           UNCHANGED databases, RunKnown(r, runs[r]), runs[r].workflow = "credit",
           RunKnown(r, t), t.workflow = "credit", t.harness = runs[r].harness
    PROVE  LedgerInv'
  <1>1. DOMAIN runs = Runs /\ runs'[r] = t
    BY DEF RunsKnown
  <1>2. runs[r] # Idle /\ runs[r] # Failed /\ t # Idle /\ t # Failed
    BY IdleIsNotKnown
  <1>3. ~ Wrote(r) /\ ~ Counted(r) /\ ~ Wrote(r)' /\ ~ Counted(r)'
    BY <1>1 DEF Wrote, Counted
  <1>4. t.harness => databases[r] = <<>>
    BY <1>2, <1>3 DEF LedgerInv, HarnessIsAlone
  <1> QED
    BY <1>1, <1>2, <1>3, <1>4, QuietLedger

LEMMA StartLedger ==
    ASSUME LedgerInv, RunsKnown, NEW r \in Runs, NEW scenario \in Scenarios, StartRun(r, scenario)
    PROVE  LedgerInv'
  <1> DEFINE t == Started(r, scenario)
  <1>1. DOMAIN runs = Runs /\ runs[r] = Idle /\ runs' = [runs EXCEPT ![r] = t]
        /\ UNCHANGED databases /\ runs'[r] = t
    BY DEF RunsKnown, StartRun
  <1>2. RunKnown(r, t) /\ t.phase = "start"
    <2>1. t.phase = "start"
      <3>1. "phase" \notin DOMAIN scenario
        BY ScenariosAssumption DEF IsPayment, IsCredit, Common
      <3> QED
        BY <3>1 DEF Started, Extend
    <2> QED
      BY <2>1, StartedKnown
  <1> HIDE DEF t
  <1>3. t # Idle /\ t # Failed /\ runs[r] # Failed
    BY <1>1, <1>2, IdleIsNotKnown DEF Idle, Failed
  <1>4. ~ Wrote(r) /\ ~ Wrote(r)' /\ ~ Counted(r)'
    BY <1>1, <1>2 DEF Wrote, Counted, Idle
  <1>5. databases[r] = <<>>
    BY <1>1 DEF LedgerInv, HarnessIsAlone
  <1> QED
    BY <1>1, <1>3, <1>4, <1>5, QuietLedger

LEMMA FailedLedger ==
    ASSUME LedgerInv, RunsKnown, NEW r \in Runs, runs[r] # Failed,
           runs' = [runs EXCEPT ![r] = [phase |-> "failed"]], UNCHANGED databases
    PROVE  LedgerInv'
  <1>1. DOMAIN runs = Runs /\ runs' = [runs EXCEPT ![r] = Failed] /\ runs'[r] = Failed
    BY DEF RunsKnown, Failed
  <1>2. ~ Counted(r)'
    BY <1>1 DEF Counted, Failed
  <1>3. Failed # Idle
    BY DEF Failed, Idle
  <1> QED
    BY <1>1, <1>2, <1>3, QuietLedger

LEMMA AppendRows ==
    ASSUME NEW S, NEW old \in Seq(S), NEW n \in 0 .. 2, NEW row, NEW added \in Seq({row}),
           Len(added) = n, \A i \in 1 .. n : added[i] = row
    PROVE  LET new == old \o added
           IN  /\ new \in Seq(S \cup {row})
               /\ DOMAIN new = 1 .. Len(old) + n
               /\ DOMAIN old = 1 .. Len(old)
               /\ Len(old) \in Nat
               /\ \A i \in 1 .. Len(old) : new[i] = old[i]
               /\ \A i \in Len(old) + 1 .. Len(old) + n : new[i] = row
               /\ old = <<>> => new = added
  <1> DEFINE new == old \o added
             U == S \cup {row}
  <1>1. old \in Seq(U) /\ added \in Seq(U)
    <2> S \subseteq U /\ {row} \subseteq U
      OBVIOUS
    <2> HIDE DEF U
    <2> QED
      BY SeqOfMore
  <1> HIDE DEF U
  <1>2. new \in Seq(U) /\ Len(new) = Len(old) + n /\ Len(old) \in Nat
    BY <1>1
  <1>3. \A i \in 1 .. Len(old) : new[i] = old[i]
    BY <1>1
  <1>4. ASSUME NEW i \in Len(old) + 1 .. Len(old) + n
        PROVE  new[i] = row
    <2>1. i - Len(old) \in 1 .. n /\ i > Len(old) /\ i \in 1 .. Len(old) + n
      BY <1>2, <1>4
    <2>2. new[i] = added[i - Len(old)]
      BY <1>1, <2>1
    <2> QED
      BY <2>1, <2>2
  <1>5. old = <<>> => new = added
    BY <1>1
  <1> HIDE DEF new
  <1>6. DOMAIN new = 1 .. Len(old) + n /\ DOMAIN old = 1 .. Len(old)
    BY <1>2
  <1> QED
    BY <1>2, <1>3, <1>4, <1>5, <1>6 DEF new, U

LEMMA CommitLedger ==
    ASSUME LedgerInv, RunsKnown, NEW r \in Runs, Commit(r), RunKnown(r, runs[r])
    PROVE  LedgerInv'
  <1> DEFINE s == runs[r]
             d == database(r)
             t == Enter(s, "committed")
             row == [run |-> r, action |-> Action(r)]
             n == _commit_count(s.commit_policy, s.world.tool_response)
             old == databases[d]
             new == old \o RowsWritten(s)
  <1>1. /\ s.phase = "policy_captured" /\ s.workflow = "payment"
        /\ runs' = [runs EXCEPT ![r] = t]
        /\ databases' = [databases EXCEPT ![d] = new]
    BY DEF Commit, Enter
  <1>2. /\ DOMAIN runs = Runs /\ runs'[r] = t
        /\ \A q \in Runs \ {r} : runs'[q] = runs[q]
    BY <1>1 DEF RunsKnown
  <1>3. /\ RunKnown(r, t) /\ SameLedger(t, s) /\ t.phase = "committed"
        /\ s.run = r /\ s.commit_policy \in CommitPolicies /\ s.harness \in BOOLEAN
    <2>1. RunKnown(r, t) /\ SameLedger(t, s) /\ t.phase = "committed"
      BY <1>1, PaymentStepKnown
    <2> HIDE DEF t
    <2> QED
      BY <1>1, <2>1 DEF RunKnown, RunFixed
  <1>4. s # Idle /\ s # Failed /\ t # Idle /\ t # Failed
    BY <1>3, IdleIsNotKnown
  <1>5. /\ d \in Databases
        /\ DOMAIN databases = Databases
        /\ databases'[d] = new
        /\ \A c \in Databases \ {d} : databases'[c] = databases[c]
    BY <1>1 DEF LedgerInv, Databases, database
  <1>6. PICK S : old \in Seq(S)
    BY <1>5 DEF LedgerInv
  <1>7. /\ n \in 0 .. 2 /\ Len(RowsWritten(s)) = n
        /\ \A i \in 1 .. n : RowsWritten(s)[i] = row
        /\ RowsWritten(s) \in Seq({row})
    BY <1>3, RowsWrittenAre DEF Action
  <1>8. row.run = r /\ row.action = Action(r)
    OBVIOUS
  <1> HIDE DEF row, n, t, old
  <1>9. /\ new \in Seq(S \cup {row})
        /\ DOMAIN new = 1 .. Len(old) + n
        /\ DOMAIN old = 1 .. Len(old)
        /\ Len(old) \in Nat
        /\ \A i \in 1 .. Len(old) : new[i] = old[i]
        /\ \A i \in Len(old) + 1 .. Len(old) + n : new[i] = row
        /\ old = <<>> => new = RowsWritten(s)
    <2> DEFINE added == RowsWritten(s)
    <2>1. added \in Seq({row}) /\ Len(added) = n /\ n \in 0 .. 2 /\ \A i \in 1 .. n : added[i] = row
      BY <1>7
    <2> HIDE DEF added
    <2>2. LET all == old \o added
          IN  /\ all \in Seq(S \cup {row})
              /\ DOMAIN all = 1 .. Len(old) + n
              /\ DOMAIN old = 1 .. Len(old)
              /\ Len(old) \in Nat
              /\ \A i \in 1 .. Len(old) : all[i] = old[i]
              /\ \A i \in Len(old) + 1 .. Len(old) + n : all[i] = row
              /\ old = <<>> => all = added
      BY <1>6, <2>1, AppendRows
    <2> QED
      BY <2>2 DEF added
  <1> HIDE DEF new, s
  <1>10. ~ Wrote(r) /\ Wrote(r)' /\ ~ Counted(r)' /\ ~ Counted(r)
    BY <1>1, <1>2, <1>3 DEF Wrote, Counted, SameLedger, s
  <1>11. /\ Action(r)' = Action(r)
         /\ database(r)' = d
    BY <1>2, <1>3 DEF SameLedger, Action, database, s
  <1>12. ASSUME NEW q \in Runs \ {r}
         PROVE  /\ Wrote(q)' = Wrote(q)
                /\ Counted(q)' = Counted(q)
                /\ Receipt(q)' = Receipt(q)
                /\ Action(q)' = Action(q)
                /\ database(q)' = database(q)
    <2>1. runs'[q] = runs[q]
      BY <1>2
    <2> QED
      BY <2>1 DEF Wrote, Counted, Receipt, Action, database
  <1>13. \A c \in Databases : \E U : databases'[c] \in Seq(U)
    BY <1>5, <1>9 DEF LedgerInv
  <1>14. \A c \in Databases : \A i \in DOMAIN databases[c] :
            i \in DOMAIN databases'[c] /\ databases'[c][i] = databases[c][i]
    <2>1. \A i \in DOMAIN old : i \in DOMAIN new /\ new[i] = old[i]
      BY <1>7, <1>9
    <2> QED
      BY <1>5, <2>1 DEF old
  <1>15. \A c \in Databases : \A i \in DOMAIN databases'[c] :
            \/ i \in DOMAIN databases[c] /\ databases'[c][i] = databases[c][i]
            \/ c = d /\ databases'[c][i] = row
    <2>1. \A i \in DOMAIN new : (i \in DOMAIN old /\ new[i] = old[i]) \/ new[i] = row
      BY <1>7, <1>9
    <2> QED
      BY <1>5, <2>1 DEF old
  <1>16. RowsAreOwned'
    <2>1. ASSUME NEW c \in Databases, NEW i \in DOMAIN databases'[c]
          PROVE  \E q \in Runs :
                    /\ databases'[c][i].run = q
                    /\ c # Shared => q = c
                    /\ \/ runs'[q] = Failed
                       \/ /\ Wrote(q)' /\ database(q)' = c
                          /\ databases'[c][i].action = Action(q)'
      <3>1. CASE i \in DOMAIN databases[c] /\ databases'[c][i] = databases[c][i]
        <4> DEFINE q == databases[c][i].run
        <4>1. /\ q \in Runs
              /\ c # Shared => q = c
              /\ \/ runs[q] = Failed
                 \/ Wrote(q) /\ database(q) = c /\ databases[c][i].action = Action(q)
          BY <3>1 DEF LedgerInv, RowsAreOwned
        <4>2. q # r
          BY <1>4, <1>10, <4>1 DEF s
        <4>3. PICK p \in Runs : p = q
          BY <4>1
        <4> HIDE DEF q
        <4>4. \/ runs[p] = Failed
              \/ Wrote(p) /\ database(p) = c /\ databases[c][i].action = Action(p)
          BY <4>1, <4>3
        <4>5. p # r /\ runs'[p] = runs[p]
          BY <1>2, <4>2, <4>3
        <4> QED
          BY <1>12, <3>1, <4>1, <4>3, <4>4, <4>5 DEF q
      <3>2. CASE c = d /\ databases'[c][i] = row
        <4>1. c # Shared => r = c
          BY <3>2 DEF database
        <4> QED
          BY <1>8, <1>10, <1>11, <3>2, <4>1
      <3> QED
        BY <1>15, <2>1, <3>1, <3>2
    <2> QED
      BY <2>1 DEF RowsAreOwned, Databases, Wrote, Counted, database, Action
  <1>17. ReceiptsAreCovered'
    <2> SUFFICES ASSUME NEW q \in Runs, Counted(q)'
                 PROVE  /\ Receipt(q)' \in Nat
                        /\ Receipt(q)' <= Cardinality(RowsOfAction(database(q), Action(q)))'
      BY DEF ReceiptsAreCovered
    <2>1. q # r
      BY <1>10
    <2>2. /\ Counted(q) /\ Receipt(q)' = Receipt(q) /\ Action(q)' = Action(q)
          /\ database(q)' = database(q)
      BY <1>12, <2>1
    <2> DEFINE c == database(q)
               a == Action(q)
               now == RowsOfAction(c, a)
               then == {i \in DOMAIN databases'[c] : databases'[c][i].action = a}
    <2>3. RowsOfAction(database(q), Action(q))' = then
      BY <2>2 DEF RowsOfAction
    <2>4. Receipt(q) \in Nat /\ Receipt(q) <= Cardinality(now) /\ c \in Databases
      BY <2>2 DEF LedgerInv, ReceiptsAreCovered, database, Databases
    <2>5. now \subseteq then
      BY <1>14, <2>4 DEF RowsOfAction
    <2>6. IsFiniteSet(then)
      <3>1. PICK U : databases'[c] \in Seq(U)
        BY <1>13, <2>4
      <3>2. DOMAIN databases'[c] = 1 .. Len(databases'[c]) /\ Len(databases'[c]) \in Nat
        BY <3>1
      <3>3. IsFiniteSet(1 .. Len(databases'[c]))
        BY <3>2, FS_Interval
      <3> QED
        BY <3>2, <3>3, FS_Subset
    <2> HIDE DEF now, then, c, a
    <2>7. Cardinality(now) <= Cardinality(then)
          /\ Cardinality(now) \in Nat /\ Cardinality(then) \in Nat
      BY <2>5, <2>6, FS_Subset, FS_CardinalityType
    <2> QED
      BY <2>2, <2>3, <2>4, <2>7
  <1>18. OneCountsAll'
    <2> SUFFICES ASSUME NEW T \in SUBSET Runs, NEW c \in Databases, NEW q \in T,
                        \A p \in T : Counted(p)',
                        \A p \in T : database(p)' = c /\ Action(p)' = Action(q)'
                 PROVE  \E p \in T : Cardinality(RowsBy(c, Action(q), T)') <= Receipt(p)'
      BY DEF OneCountsAll, Databases
    <2>1. r \notin T
      BY <1>10
    <2>2. \A p \in T : /\ Counted(p) /\ Receipt(p)' = Receipt(p) /\ Action(p)' = Action(p)
                       /\ database(p)' = database(p)
      BY <1>12, <2>1
    <2>3. PICK p \in T : Cardinality(RowsBy(c, Action(q), T)) <= Receipt(p)
      BY <2>2 DEF LedgerInv, OneCountsAll
    <2>4. RowsBy(c, Action(q), T)' = RowsBy(c, Action(q), T)
      <3>1. RowsBy(c, Action(q), T)' = {i \in DOMAIN databases'[c] :
                databases'[c][i].action = Action(q) /\ databases'[c][i].run \in T}
        BY <2>2 DEF RowsBy, RowsOfAction
      <3>2. RowsBy(c, Action(q), T) = {i \in DOMAIN databases[c] :
                databases[c][i].action = Action(q) /\ databases[c][i].run \in T}
        BY DEF RowsBy, RowsOfAction
      <3> QED
        BY <1>8, <1>14, <1>15, <2>1, <3>1, <3>2
    <2> QED
      BY <2>2, <2>3, <2>4
  <1>19. HarnessIsAlone'
    <2> SUFFICES ASSUME NEW q \in Runs
                 PROVE  (/\ runs[q] = Idle => databases[q] = <<>>
                         /\ (runs[q] # Idle /\ runs[q] # Failed /\ runs[q].harness) =>
                               /\ ~ Wrote(q) => databases[q] = <<>>
                               /\ Wrote(q) => databases[q] = RowsWritten(runs[q])
                               /\ Counted(q) =>
                                     Receipt(q) = _commit_count(runs[q].commit_policy,
                                                                runs[q].world.tool_response))'
      BY DEF HarnessIsAlone
    <2>1. CASE q = r
      <3>1. t.harness = s.harness /\ RowsWritten(t) = RowsWritten(s)
        BY <1>3 DEF SameLedger, RowsWritten
      <3>2. s.harness => d = r /\ old = <<>>
        BY <1>4, <1>10 DEF LedgerInv, HarnessIsAlone, database, s, old
      <3>3. s.harness => databases'[r] = RowsWritten(s)
        BY <1>5, <1>9, <3>2
      <3> QED
        BY <1>2, <1>4, <1>10, <2>1, <3>1, <3>3
    <2>2. CASE q # r
      <3>1. q # d /\ q \in Databases
        BY <2>2, SharedAssumption DEF database, Databases
      <3>2. databases'[q] = databases[q] /\ runs'[q] = runs[q]
        BY <1>2, <1>5, <2>2, <3>1
      <3> QED
        BY <1>12, <2>2, <3>2 DEF LedgerInv, HarnessIsAlone
    <2> QED
      BY <2>1, <2>2
  <1>20. DOMAIN databases' = Databases'
    BY <1>1, <1>5 DEF Databases
  <1>21. (\A c \in Databases : \E U : databases[c] \in Seq(U))'
    BY <1>13 DEF Databases
  <1> QED
    BY <1>16, <1>17, <1>18, <1>19, <1>20, <1>21 DEF LedgerInv

LEMMA CountLedger ==
    ASSUME LedgerInv, RunsKnown, NEW r \in Runs, CountRows(r), RunKnown(r, runs[r])
    PROVE  LedgerInv'
  <1> DEFINE s == runs[r]
             d == database(r)
             t == settle(s, databases[d])
             a == Action(r)
  <1>1. /\ s.phase = "committed" /\ s.workflow = "payment"
        /\ runs' = [runs EXCEPT ![r] = t]
        /\ databases' = databases
    BY DEF CountRows, Step
  <1>2. /\ DOMAIN runs = Runs /\ runs'[r] = t
        /\ \A q \in Runs \ {r} : runs'[q] = runs[q]
    BY <1>1 DEF RunsKnown
  <1>3. /\ RunKnown(r, t) /\ t.phase = "effect_committed" /\ t.workflow = "payment"
        /\ t.harness = s.harness /\ t.run = s.run /\ t.commit_policy = s.commit_policy
        /\ t.world = CountedWorld(s, databases[d])
    BY <1>1, SettleKnown
  <1>4. /\ s # Idle /\ s # Failed /\ t # Idle /\ t # Failed
    BY <1>3, IdleIsNotKnown
  <1>5. /\ "ledger_commit_count" \in DOMAIN s.world /\ "amount" \in DOMAIN s.world
        /\ "tool_response" \in DOMAIN s.world /\ Spec(s) = PaymentSpec
        /\ s.commit_policy \in CommitPolicies
    BY <1>1 DEF RunKnown, RunFixed, Facts, PaymentFacts, Informed, Spec
  <1> HIDE DEF t
  <1>6. /\ t.world.ledger_commit_count = Cardinality(RowsOfAction(d, a))
        /\ t.world.tool_response = s.world.tool_response
        /\ _action_identity(Spec(t), t.world) = a
        /\ RowsWritten(t) = RowsWritten(s)
    <2>1. t.world.ledger_commit_count = Cardinality(RowsOf(s, databases[d]))
      BY <1>3, <1>5 DEF CountedWorld
    <2>2. RowsOf(s, databases[d]) = RowsOfAction(d, a)
      BY DEF RowsOf, RowsOfAction, Action
    <2>3. t.world.tool_response = s.world.tool_response /\ t.world.amount = s.world.amount
      BY <1>3, <1>5 DEF CountedWorld
    <2>4. Spec(t) = Spec(s)
      BY <1>1, <1>3 DEF Spec
    <2>5. _action_identity(Spec(t), t.world) = _action_identity(Spec(s), s.world)
      BY <1>5, <2>3, <2>4, SpecFields DEF _action_identity
    <2> QED
      BY <1>3, <2>1, <2>2, <2>3, <2>5 DEF RowsWritten, Action
  <1>7. /\ Wrote(r) /\ Wrote(r)' /\ Counted(r)' /\ ~ Counted(r)
        /\ Action(r)' = a /\ database(r)' = d
        /\ Receipt(r)' = Cardinality(RowsOfAction(d, a))
    BY <1>1, <1>2, <1>3, <1>6 DEF Wrote, Counted, Action, database, Receipt
  <1>8. ASSUME NEW q \in Runs \ {r}
        PROVE  /\ Wrote(q)' = Wrote(q)
               /\ Counted(q)' = Counted(q)
               /\ Receipt(q)' = Receipt(q)
               /\ Action(q)' = Action(q)
               /\ database(q)' = database(q)
    <2>1. runs'[q] = runs[q]
      BY <1>2
    <2> QED
      BY <2>1 DEF Wrote, Counted, Receipt, Action, database
  <1>9. d \in Databases
    BY DEF database, Databases
  <1>10. /\ Cardinality(RowsOfAction(d, a)) \in Nat
         /\ \A T : /\ Cardinality(RowsBy(d, a, T)) \in Nat
                   /\ Cardinality(RowsBy(d, a, T)) <= Cardinality(RowsOfAction(d, a))
    BY <1>9, RowsAreFinite DEF LedgerInv
  <1>11. s.harness => /\ databases[r] = RowsWritten(s) /\ d = r
                      /\ Cardinality(RowsOfAction(d, a))
                            = _commit_count(s.commit_policy, s.world.tool_response)
    <2> SUFFICES ASSUME s.harness
                 PROVE  /\ databases[r] = RowsWritten(s) /\ d = r
                        /\ Cardinality(RowsOfAction(d, a))
                              = _commit_count(s.commit_policy, s.world.tool_response)
      OBVIOUS
    <2>1. databases[r] = RowsWritten(s) /\ d = r
      BY <1>4, <1>7 DEF LedgerInv, HarnessIsAlone, database
    <2>2. RowsOfAction(d, a) = RowsOf(s, RowsWritten(s))
      BY <2>1 DEF RowsOf, RowsOfAction, Action
    <2>3. <<>> \o RowsWritten(s) = RowsWritten(s)
      <3>1. PICK S : databases[r] \in Seq(S)
        BY DEF LedgerInv, Databases
      <3> QED
        BY <2>1, <3>1
    <2> QED
      BY <1>5, <2>1, <2>2, <2>3, OwnRowsCounted
  <1> HIDE DEF s, d, a
  <1>12. RowsAreOwned'
    <2>1. ASSUME NEW c \in Databases, NEW i \in DOMAIN databases[c], NEW q \in Runs,
                 \/ runs[q] = Failed
                 \/ Wrote(q) /\ database(q) = c /\ databases[c][i].action = Action(q)
          PROVE  \/ runs'[q] = Failed
                 \/ Wrote(q)' /\ database(q)' = c /\ databases[c][i].action = Action(q)'
      <3>1. CASE q = r
        BY <1>4, <1>7, <2>1, <3>1 DEF s, d, a
      <3>2. CASE q # r
        BY <1>2, <1>8, <2>1, <3>2
      <3> QED
        BY <3>1, <3>2
    <2>2. ASSUME NEW c \in Databases, NEW i \in DOMAIN databases[c]
          PROVE  \E q \in Runs :
                    /\ databases[c][i].run = q
                    /\ c # Shared => q = c
                    /\ \/ runs'[q] = Failed
                       \/ Wrote(q)' /\ database(q)' = c /\ databases[c][i].action = Action(q)'
      <3> DEFINE q == databases[c][i].run
      <3>1. /\ q \in Runs
            /\ c # Shared => q = c
            /\ \/ runs[q] = Failed
               \/ Wrote(q) /\ database(q) = c /\ databases[c][i].action = Action(q)
        BY <2>2 DEF LedgerInv, RowsAreOwned
      <3>2. PICK p \in Runs : p = q
        BY <3>1
      <3> HIDE DEF q
      <3>3. \/ runs[p] = Failed
            \/ Wrote(p) /\ database(p) = c /\ databases[c][i].action = Action(p)
        BY <3>1, <3>2
      <3> QED
        BY <2>1, <2>2, <3>1, <3>2, <3>3 DEF q
    <2> QED
      BY <1>1, <2>2 DEF RowsAreOwned, Databases, Wrote, Counted, database, Action
  <1>13. ReceiptsAreCovered'
    <2> SUFFICES ASSUME NEW q \in Runs, Counted(q)'
                 PROVE  /\ Receipt(q)' \in Nat
                        /\ Receipt(q)' <= Cardinality(RowsOfAction(database(q), Action(q)))'
      BY DEF ReceiptsAreCovered
    <2>1. CASE q = r
      <3>1. RowsOfAction(database(q), Action(q))' = RowsOfAction(d, a)
        BY <1>1, <1>7, <2>1 DEF RowsOfAction
      <3> QED
        BY <1>7, <1>10, <2>1, <3>1
    <2>2. CASE q # r
      <3>1. /\ Counted(q) /\ Receipt(q)' = Receipt(q) /\ Action(q)' = Action(q)
            /\ database(q)' = database(q)
        BY <1>8, <2>2
      <3>2. RowsOfAction(database(q), Action(q))' = RowsOfAction(database(q), Action(q))
        BY <1>1, <3>1 DEF RowsOfAction
      <3> QED
        BY <3>1, <3>2 DEF LedgerInv, ReceiptsAreCovered
    <2> QED
      BY <2>1, <2>2
  <1>14. OneCountsAll'
    <2> SUFFICES ASSUME NEW T \in SUBSET Runs, NEW c \in Databases, NEW q \in T,
                        \A p \in T : Counted(p)',
                        \A p \in T : database(p)' = c /\ Action(p)' = Action(q)'
                 PROVE  \E p \in T : Cardinality(RowsBy(c, Action(q), T)') <= Receipt(p)'
      BY DEF OneCountsAll, Databases
    <2>1. CASE r \in T
      <3>1. c = d /\ Action(q)' = a
        BY <1>7, <2>1
      <3>2. RowsBy(c, Action(q), T)' = RowsBy(d, a, T)
        BY <1>1, <3>1 DEF RowsBy, RowsOfAction
      <3> QED
        BY <1>7, <1>10, <2>1, <3>2
    <2>2. CASE r \notin T
      <3>1. \A p \in T : /\ Counted(p) /\ Receipt(p)' = Receipt(p) /\ Action(p)' = Action(p)
                         /\ database(p)' = database(p)
        BY <1>8, <2>2
      <3>2. PICK p \in T : Cardinality(RowsBy(c, Action(q), T)) <= Receipt(p)
        BY <3>1 DEF LedgerInv, OneCountsAll
      <3>3. RowsBy(c, Action(q), T)' = RowsBy(c, Action(q), T)
        BY <1>1, <3>1 DEF RowsBy, RowsOfAction
      <3> QED
        BY <3>1, <3>2, <3>3
    <2> QED
      BY <2>1, <2>2
  <1>15. HarnessIsAlone'
    <2> SUFFICES ASSUME NEW q \in Runs
                 PROVE  (/\ runs[q] = Idle => databases[q] = <<>>
                         /\ (runs[q] # Idle /\ runs[q] # Failed /\ runs[q].harness) =>
                               /\ ~ Wrote(q) => databases[q] = <<>>
                               /\ Wrote(q) => databases[q] = RowsWritten(runs[q])
                               /\ Counted(q) =>
                                     Receipt(q) = _commit_count(runs[q].commit_policy,
                                                                runs[q].world.tool_response))'
      BY DEF HarnessIsAlone
    <2>1. CASE q = r
      BY <1>1, <1>2, <1>3, <1>4, <1>6, <1>7, <1>11, <2>1
    <2>2. CASE q # r
      BY <1>1, <1>2, <1>8, <2>2 DEF LedgerInv, HarnessIsAlone
    <2> QED
      BY <2>1, <2>2
  <1>16. DOMAIN databases' = Databases' /\ (\A c \in Databases : \E U : databases[c] \in Seq(U))'
    BY <1>1 DEF LedgerInv, Databases
  <1> QED
    BY <1>12, <1>13, <1>14, <1>15, <1>16 DEF LedgerInv

(* At all times the rows of a ledger have their writers, a receipt counts rows *)
(* that are there, one of the receipts of an action counts all that the runs   *)
(* with a receipt wrote, and a harness meets no rows but its own.              *)
THEOREM LedgersAreKept == RunsSpec => []LedgerInv
  <1>1. Init => LedgerInv
    <2> SUFFICES ASSUME Init PROVE LedgerInv
      OBVIOUS
    <2>1. /\ \A d \in Databases : databases[d] = <<>>
          /\ DOMAIN databases = Databases
          /\ \A r \in Runs : runs[r] = Idle
          /\ \A r \in Runs : r \in Databases
      BY DEF Init, Databases
    <2>2. \A r \in Runs : ~ Counted(r)
      BY <2>1 DEF Counted, Idle
    <2>3. <<>> \in Seq({}) /\ DOMAIN <<>> = {}
      <3>1. <<>> \in Seq({}) /\ Len(<<>>) = 0
        OBVIOUS
      <3> QED
        BY <3>1
    <2>4. \A d \in Databases : databases[d] \in Seq({}) /\ DOMAIN databases[d] = {}
      BY <2>1, <2>3
    <2>5. RowsAreOwned
      BY <2>4 DEF RowsAreOwned
    <2>6. ReceiptsAreCovered /\ OneCountsAll
      BY <2>2 DEF ReceiptsAreCovered, OneCountsAll
    <2>7. HarnessIsAlone
      BY <2>1 DEF HarnessIsAlone
    <2> QED
      BY <2>1, <2>4, <2>5, <2>6, <2>7 DEF LedgerInv
  <1>2. ASSUME LedgerInv, RunsKnown, [Next]_vars PROVE LedgerInv'
    <2>1. ASSUME UNCHANGED <<runs, databases>> PROVE LedgerInv'
      <3>1. RowsAreOwned'
        BY <1>2, <2>1 DEF LedgerInv, RowsAreOwned, Wrote, Counted, Action, database, Databases
      <3>2. ReceiptsAreCovered'
        BY <1>2, <2>1 DEF LedgerInv, ReceiptsAreCovered, Counted, Receipt, Action, database,
                          RowsOfAction
      <3>3. OneCountsAll'
        <4>1. /\ OneCountsAll
              /\ \A q \in Runs : Counted(q)' = Counted(q)
              /\ \A q \in Runs : /\ Receipt(q)' = Receipt(q) /\ Action(q)' = Action(q)
                                  /\ database(q)' = database(q)
          BY <1>2, <2>1 DEF LedgerInv, Counted, Receipt, Action, database
        <4>2. \A d \in Databases, q \in Runs, T \in SUBSET Runs :
                  RowsBy(d, Action(q), T)' = RowsBy(d, Action(q), T)
          BY <2>1, <4>1 DEF RowsBy, RowsOfAction
        <4>3. Databases' = Databases
          BY DEF Databases
        <4> QED
          BY <4>1, <4>2, <4>3 DEF OneCountsAll
      <3>4. HarnessIsAlone'
        BY <1>2, <2>1 DEF LedgerInv, HarnessIsAlone, Wrote, Counted, Receipt
      <3> QED
        BY <1>2, <2>1, <3>1, <3>2, <3>3, <3>4 DEF LedgerInv, Databases
    <2>2. ASSUME NEW r \in Runs, runs[r] = Idle \/ runs[r] = Failed
          PROVE  runs[r].phase \in {"idle", "failed"}
      BY <2>2 DEF Idle, Failed
    <2>3. ASSUME NEW r \in Runs, runs[r].phase \notin {"idle", "failed"}
          PROVE  RunKnown(r, runs[r]) /\ runs[r] # Failed
      BY <1>2, <2>2, <2>3 DEF RunsKnown
    <2>4. ASSUME NEW r \in Runs,
                 \/ Canonicalize(r) \/ Review(r) \/ Approval(r) \/ Authority(r) \/ Policy(r)
                 \/ Report(r)
          PROVE  LedgerInv'
      <3>1. /\ runs[r].workflow = "payment" /\ runs[r].phase \notin {"idle", "failed"}
            /\ UNCHANGED databases
        BY <2>4 DEF Canonicalize, Review, Approval, Authority, Policy, Report, Step
      <3>2. RunKnown(r, runs[r])
        BY <2>3, <3>1
      <3>3. CASE Canonicalize(r)
        BY <1>2, <3>1, <3>2, <3>3, PaymentStepKnown, PaymentNodeLedger DEF Canonicalize, Step
      <3>4. CASE Review(r)
        BY <1>2, <3>1, <3>2, <3>4, PaymentStepKnown, PaymentNodeLedger DEF Review, Step
      <3>5. CASE Approval(r)
        BY <1>2, <3>1, <3>2, <3>5, PaymentStepKnown, PaymentNodeLedger DEF Approval, Step
      <3>6. CASE Authority(r)
        BY <1>2, <3>1, <3>2, <3>6, PaymentStepKnown, PaymentNodeLedger DEF Authority, Step
      <3>7. CASE Policy(r)
        BY <1>2, <3>1, <3>2, <3>7, PaymentStepKnown, PaymentNodeLedger DEF Policy, Step
      <3>8. CASE Report(r)
        <4>1. /\ runs[r].phase = "effect_committed" /\ runs' = [runs EXCEPT ![r] = report(runs[r])]
          BY <3>8 DEF Report, Step
        <4>2. RunKnown(r, report(runs[r])) /\ SameLedger(report(runs[r]), runs[r])
              /\ report(runs[r]).phase = "reported"
          BY <3>1, <3>2, <4>1, PaymentStepKnown
        <4>3. {runs[r].phase, report(runs[r]).phase}
                 \subseteq {"effect_committed", "reported", "replayed"}
          BY <4>1, <4>2
        <4> QED
          BY <1>2, <3>1, <3>2, <4>1, <4>2, <4>3, PaymentNodeLedger
      <3> QED
        BY <2>4, <3>3, <3>4, <3>5, <3>6, <3>7, <3>8
    <2>5. ASSUME NEW r \in Runs, Commit(r) PROVE LedgerInv'
      <3>1. runs[r].phase \notin {"idle", "failed"}
        BY <2>5 DEF Commit
      <3> QED
        BY <1>2, <2>3, <2>5, <3>1, CommitLedger
    <2>6. ASSUME NEW r \in Runs, CountRows(r) PROVE LedgerInv'
      <3>1. runs[r].phase \notin {"idle", "failed"}
        BY <2>6 DEF CountRows, Step
      <3> QED
        BY <1>2, <2>3, <2>6, <3>1, CountLedger
    <2>7. ASSUME NEW r \in Runs, OmitToolResponse(r) PROVE LedgerInv'
      <3>1. /\ runs[r].phase = "reported" /\ runs[r].workflow = "payment"
            /\ UNCHANGED databases
        BY <2>7 DEF OmitToolResponse
      <3>2. RunKnown(r, runs[r]) /\ DOMAIN runs = Runs
        BY <1>2, <2>3, <3>1 DEF RunsKnown
      <3>3. PICK t : /\ RunKnown(r, t) /\ SameLedger(t, runs[r]) /\ t.phase = "replayed"
                     /\ runs' = [runs EXCEPT ![r] = t]
        BY <2>7, <3>2, OmitStepKnown
      <3> QED
        BY <1>2, <3>1, <3>2, <3>3, PaymentNodeLedger
    <2>8. ASSUME NEW r \in Runs,
                 \/ CanonicalizeApplication(r) \/ Features(r) \/ CreditPolicy(r) \/ Decide(r)
                 \/ Notice(r)
          PROVE  LedgerInv'
      <3>1. /\ runs[r].workflow = "credit" /\ runs[r].phase \notin {"idle", "failed"}
            /\ UNCHANGED databases
        BY <2>8 DEF CanonicalizeApplication, Features, CreditPolicy, Decide, Notice, Step
      <3>2. RunKnown(r, runs[r])
        BY <2>3, <3>1
      <3>3. CASE CanonicalizeApplication(r)
        BY <1>2, <3>1, <3>2, <3>3, CreditStepKnown, CreditNodeLedger
           DEF CanonicalizeApplication, Step
      <3>4. CASE Features(r)
        BY <1>2, <3>1, <3>2, <3>4, CreditStepKnown, CreditNodeLedger DEF Features, Step
      <3>5. CASE CreditPolicy(r)
        BY <1>2, <3>1, <3>2, <3>5, CreditStepKnown, CreditNodeLedger DEF CreditPolicy, Step
      <3>6. CASE Decide(r)
        BY <1>2, <3>1, <3>2, <3>6, CreditStepKnown, CreditNodeLedger DEF Decide, Step
      <3>7. CASE Notice(r)
        BY <1>2, <3>1, <3>2, <3>7, CreditStepKnown, CreditNodeLedger DEF Notice, Step
      <3> QED
        BY <2>8, <3>3, <3>4, <3>5, <3>6, <3>7
    <2>9. ASSUME NEW r \in Runs, AblateIncome(r) PROVE LedgerInv'
      <3>1. /\ runs[r].phase = "reported" /\ runs[r].workflow = "credit"
            /\ UNCHANGED databases
        BY <2>9 DEF AblateIncome
      <3>2. RunKnown(r, runs[r]) /\ DOMAIN runs = Runs
        BY <1>2, <2>3, <3>1 DEF RunsKnown
      <3>3. PICK t : /\ RunKnown(r, t) /\ t.workflow = "credit" /\ t.harness = runs[r].harness
                     /\ runs' = [runs EXCEPT ![r] = t]
        BY <2>9, <3>2, AblateStepKnown
      <3> QED
        BY <1>2, <3>1, <3>2, <3>3, CreditNodeLedger
    <2>10. ASSUME NEW r \in Runs, NEW scenario \in Scenarios, StartRun(r, scenario)
           PROVE  LedgerInv'
      BY <1>2, <2>10, StartLedger
    <2>11. ASSUME NEW r \in Runs, Abort(r) \/ \E answer \in Answers : PlannerFails(r, answer)
           PROVE  LedgerInv'
      <3>1. /\ runs[r] # Failed
            /\ runs' = [runs EXCEPT ![r] = [phase |-> "failed"]] /\ UNCHANGED databases
        BY <2>11 DEF Abort, PlannerFails, Failed, Idle
      <3> QED
        BY <1>2, <3>1, FailedLedger
    <2>12. ASSUME NEW r \in Runs, Keep(r) \/ \E events : Damage(r, events)
           PROVE  LedgerInv'
      BY <2>1, <2>12 DEF Keep, Damage
    <2>13. ASSUME NEW r \in Runs,
                  \/ \E i \in DOMAIN retained[r] : LoseEvent(r, i) \/ SwapEvents(r, i)
                  \/ \E kept \in SUBSET DOMAIN retained[r] : Resign(r, kept)
           PROVE  LedgerInv'
      BY <2>12, <2>13 DEF LoseEvent, SwapEvents, Resign
    <2>14. CASE UNCHANGED vars
      BY <2>1, <2>14 DEF vars
    <2> QED
      BY <1>2, <2>4, <2>5, <2>6, <2>7, <2>8, <2>9, <2>10, <2>11, <2>12, <2>13, <2>14 DEF Next
  <1> QED
    BY <1>1, <1>2, RunsAreKnown, PTL DEF RunsSpec

LEMMA LedgerReports == ASSUME LedgerInv PROVE SettlementsAreReported
  <1> SUFFICES ASSUME NEW d \in Databases, NEW r \in {q \in Runs : Counted(q) /\ database(q) = d}
               PROVE  LET here == {q \in Runs : Counted(q) /\ database(q) = d}
                          rows(q) == {i \in DOMAIN databases[d] : databases[d][i].action = Action(q)}
                          receipt(q) == runs[q].world.ledger_commit_count
                      IN  /\ receipt(r) <= Cardinality(rows(r))
                          /\ \E s \in here :
                                /\ Action(s) = Action(r)
                                /\ Cardinality({i \in rows(r) : databases[d][i].run \in here})
                                      <= receipt(s)
    BY DEF SettlementsAreReported
  <1> DEFINE here == {q \in Runs : Counted(q) /\ database(q) = d}
             T == {q \in here : Action(q) = Action(r)}
  <1>1. Receipt(r) <= Cardinality(RowsOfAction(d, Action(r)))
    BY DEF LedgerInv, ReceiptsAreCovered
  <1>2. PICK s \in T : Cardinality(RowsBy(d, Action(r), T)) <= Receipt(s)
    <2>1. T \in SUBSET Runs /\ r \in T
      OBVIOUS
    <2>2. \A q \in T : Counted(q) /\ database(q) = d /\ Action(q) = Action(r)
      OBVIOUS
    <2> HIDE DEF T
    <2> QED
      BY <2>1, <2>2 DEF LedgerInv, OneCountsAll
  <1>3. {i \in RowsOfAction(d, Action(r)) : databases[d][i].run \in here}
           = RowsBy(d, Action(r), T)
    <2>1. ASSUME NEW i \in RowsOfAction(d, Action(r)), databases[d][i].run \in here
          PROVE  databases[d][i].run \in T
      <3>1. /\ i \in DOMAIN databases[d]
            /\ databases[d][i].action = Action(r)
        BY <2>1 DEF RowsOfAction
      <3>2. \/ runs[databases[d][i].run] = Failed
            \/ databases[d][i].action = Action(databases[d][i].run)
        BY <3>1 DEF LedgerInv, RowsAreOwned
      <3>3. runs[databases[d][i].run] # Failed
        BY <2>1 DEF Counted, Failed
      <3> QED
        BY <2>1, <3>1, <3>2, <3>3
    <2> QED
      BY <2>1 DEF RowsBy
  <1> HIDE DEF T
  <1> QED
    BY <1>1, <1>2, <1>3 DEF T, RowsOfAction, Receipt

(* When runs of one action settle on one ledger, no receipt counts a row that is *)
(* not there, and the largest counts every row of the runs that have theirs      *)
(* (payment_graph.execute).                                                      *)
THEOREM SettlementsHold == RunsSpec => []SettlementsAreReported
  BY LedgersAreKept, LedgerReports, PTL

-----------------------------------------------------------------------------
(* A replay's proof is the last event's. *)

LEMMA LastEventProves ==
    ASSUME NEW r, NEW s, RunKnown(r, s), s.phase = "replayed", Spec(s).replay \in s.contract
    PROVE  Last(s.sink.events).attributes.replay_proof = KnownProof(s)
  <1> DEFINE k == LastSlot(s)
             p == KnownProof(s)
             e == SlotEvent(s, k, p)
  <1>1. k \in Nat \ {0} /\ HoldsSlots(s, k, p)
    BY DEF RunKnown, Phases, PaymentPhases, CreditPhases, LastSlot
  <1>2. Slots(s)[k] = Spec(s).replay /\ SlotMore(s, k, p) = [replay_proof |-> p]
    BY PaymentTable, CreditTable, SpecFields DEF LastSlot, Spec, RunKnown, RunFixed, WellFormed
  <1> HIDE DEF k, p
  <1>3. k \in Contracted(s, k)
    BY <1>1, <1>2 DEF Contracted
  <1>4. s.sink.events[Number(s, k)] = e /\ Len(s.sink.events) = Number(s, k)
    BY <1>1, <1>3 DEF HoldsSlots
  <1>5. Last(s.sink.events) = e
    BY <1>4 DEF Last
  <1>6. e.attributes = SlotAttributes(s, k, p)
    BY DEF SlotEvent
  <1>7. SlotAttributes(s, k, p).replay_proof = p
    BY <1>2 DEF SlotAttributes, event_attributes
  <1> QED
    BY <1>5, <1>6, <1>7 DEF p

LEMMA KnownIsFaithful == ASSUME RunsKnown, LedgerInv PROVE ReplayIsFaithful
  <1> SUFFICES ASSUME NEW r \in Runs, runs[r].phase = "replayed",
                      Spec(runs[r]).replay \in runs[r].contract
               PROVE  LET st == runs[r]
                          proof == Last(st.sink.events).attributes.replay_proof
                      IN /\ proof.prefix_equal
                         /\ IF st.workflow = "payment"
                            THEN /\ st.world.duplicate_without_tool_response
                                       <=> _commit_count(st.commit_policy, "timeout") = 2
                                 /\ proof.verifier_passed
                                       <=> _commit_count(st.commit_policy,
                                                         st.world.tool_response) = 2
                            ELSE /\ st.world.denial_without_income_feature
                                       <=> st.ablation = "deny"
                                 /\ proof.verifier_passed
    BY DEF ReplayIsFaithful
  <1> DEFINE s == runs[r]
  <1>1. RunKnown(r, s) /\ s # Idle /\ s # Failed
    BY DEF RunsKnown, Idle, Failed
  <1>2. Last(s.sink.events).attributes.replay_proof = KnownProof(s)
    BY <1>1, LastEventProves
  <1>3. FactIsKnown(s) /\ s.harness
    BY <1>1 DEF RunKnown
  <1>4. CASE s.workflow = "payment"
    <2>1. /\ KnownProof(s).prefix_equal
          /\ KnownProof(s).verifier_passed = (s.world.ledger_commit_count = 2)
      BY <1>4 DEF KnownProof, replay_proof
    <2>2. s.world.ledger_commit_count = _commit_count(s.commit_policy, s.world.tool_response)
      BY <1>1, <1>3, <1>4 DEF LedgerInv, HarnessIsAlone, Counted, Receipt
    <2>3. s.world.duplicate_without_tool_response
              <=> _commit_count(s.commit_policy, "timeout") = 2
      BY <1>3, <1>4 DEF FactIsKnown
    <2> HIDE DEF s
    <2>4. KnownProof(s).verifier_passed
              <=> _commit_count(s.commit_policy, s.world.tool_response) = 2
      BY <2>1, <2>2
    <2> QED
      BY <1>2, <1>4, <2>1, <2>3, <2>4 DEF s
  <1>5. CASE s.workflow # "payment"
    <2>1. KnownProof(s).prefix_equal /\ KnownProof(s).verifier_passed
      BY <1>5 DEF KnownProof, replay_proof
    <2>2. s.world.denial_without_income_feature <=> s.ablation = "deny"
      BY <1>3, <1>5 DEF FactIsKnown
    <2> HIDE DEF s
    <2> QED
      BY <1>2, <1>5, <2>1, <2>2 DEF s
  <1> QED
    BY <1>4, <1>5

(* A replay's counterfactual is what the workflow does without the tool response  *)
(* or the income feature, whatever settles at the same time; its prefix is the    *)
(* original's, and its proof passes for a payment exactly when the original was   *)
(* duplicated (PaymentReplayHarness, CreditReplayHarness).                        *)
THEOREM ReplaysAreFaithful == RunsSpec => []ReplayIsFaithful
  BY RunsAreKnown, LedgersAreKept, KnownIsFaithful, PTL

-----------------------------------------------------------------------------
(* What the event of a slot says, whoever signed it. *)

Says(s, j, p, e) ==
    /\ e.run = s.run
    /\ e.mechanism = Slots(s)[j]
    /\ e.action = _action_identity(Spec(s), s.world)
    /\ e.attributes = SlotAttributes(s, j, p)

(* The mechanism of a slot. *)
Mechanism(s, j) == Spec(s).mechanisms[Slots(s)[j]]

LEMMA SaidAttributes ==
    ASSUME NEW s, NEW j, NEW p, NEW e, Says(s, j, p, e)
    PROVE  /\ e.attributes.root_digest = root_digest(Spec(s), s.world)
           /\ Values(e) = observation_values(Mechanism(s, j), s.world, SlotNames(s, j))
           /\ Mechanism(s, j).entity # "unbound" =>
                 /\ "binding_proof" \in DOMAIN e.attributes
                 /\ e.attributes.binding_proof
                        = binding_proof(Spec(s), s.world, Mechanism(s, j), e.action)
           /\ Mechanism(s, j).entity = "policy_version" =>
                 e.attributes.policy_version_id
                     = entity_identifier(Spec(s), s.world, "policy_version")
           /\ Slots(s)[j] = Spec(s).coverage => e.attributes.declared_mediator = Spec(s).mediator
           /\ "binding_proof" \in DOMAIN e.attributes => Mechanism(s, j).entity # "unbound"
           /\ \A f \in {"digest", "stored_application", "replay_proof"} :
                 /\ f \in DOMAIN e.attributes <=> f \in DOMAIN SlotMore(s, j, p)
                 /\ f \in DOMAIN SlotMore(s, j, p) => e.attributes[f] = SlotMore(s, j, p)[f]
  <1> DEFINE m == Mechanism(s, j)
             more == SlotMore(s, j, p)
             name == Slots(s)[j]
             fields == {"observation_values", "root_digest"}
                           \cup (IF m.entity # "unbound" THEN {"binding_proof"} ELSE {})
                           \cup (IF m.entity = "policy_version" THEN {"policy_version_id"}
                                 ELSE {})
                           \cup (IF name = Spec(s).coverage THEN {"declared_mediator"} ELSE {})
             Field(field) ==
                 CASE field = "observation_values" ->
                          observation_values(m, s.world, SlotNames(s, j))
                   [] field = "root_digest" -> root_digest(Spec(s), s.world)
                   [] field = "binding_proof" -> binding_proof(Spec(s), s.world, m, e.action)
                   [] field = "policy_version_id" ->
                          entity_identifier(Spec(s), s.world, "policy_version")
                   [] field = "declared_mediator" -> Spec(s).mediator
                   [] OTHER -> more[field]
  <1>1. e.attributes = [field \in fields \cup DOMAIN more |-> Field(field)]
    BY DEF Says, SlotAttributes, event_attributes, Mechanism
  <1>2. DOMAIN more \subseteq {"digest", "node", "stored_application", "replay_proof"}
    BY MoreIsApart
  <1> HIDE DEF m, more, name
  <1>3. /\ DOMAIN e.attributes = fields \cup DOMAIN more
        /\ \A f \in fields \cup DOMAIN more : e.attributes[f] = Field(f)
    BY <1>1
  <1>4. /\ e.attributes.root_digest = root_digest(Spec(s), s.world)
        /\ e.attributes.observation_values = observation_values(m, s.world, SlotNames(s, j))
    BY <1>3
  <1>5. m.entity # "unbound" =>
            /\ "binding_proof" \in DOMAIN e.attributes
            /\ e.attributes.binding_proof = binding_proof(Spec(s), s.world, m, e.action)
    BY <1>3
  <1>6. m.entity = "policy_version" =>
            e.attributes.policy_version_id = entity_identifier(Spec(s), s.world, "policy_version")
    BY <1>3
  <1>7. name = Spec(s).coverage => e.attributes.declared_mediator = Spec(s).mediator
    BY <1>3
  <1>8. "binding_proof" \in DOMAIN e.attributes => m.entity # "unbound"
    BY <1>2, <1>3
  <1>9. \A f \in {"digest", "stored_application", "replay_proof"} :
            /\ f \in DOMAIN e.attributes <=> f \in DOMAIN more
            /\ f \in DOMAIN more => e.attributes[f] = more[f]
    BY <1>3
  <1> QED
    BY <1>4, <1>5, <1>6, <1>7, <1>8, <1>9 DEF Values, m, more, name

(* Events that say what slots up to k say, and nothing else. *)
Tell(s, k, p, events) == \A e \in events : \E j \in Contracted(s, k) : Says(s, j, p, e)

(* Of each slot up to k there is an event. *)
TellAll(s, k, p, events) == \A j \in Contracted(s, k) : \E e \in events : Says(s, j, p, e)

LEMMA SlotEventSays == ASSUME NEW s, NEW j, NEW p PROVE Says(s, j, p, SlotEvent(s, j, p))
  BY DEF Says, SlotEvent

LEMMA HoldsTells ==
    ASSUME NEW s, NEW k \in Nat, NEW p, HoldsSlots(s, k, p)
    PROVE  Tell(s, k, p, ToSet(s.sink.events)) /\ TellAll(s, k, p, ToSet(s.sink.events))
  <1>1. ToSet(s.sink.events) = SlotEvents(s, k, p)
    BY EventsAreSlots
  <1> QED
    BY <1>1, SlotEventSays DEF Tell, TellAll, SlotEvents

(* Values that come of one world do not conflict. *)
LEMMA ToldValues ==
    ASSUME NEW s, NEW k, NEW p, NEW events, Tell(s, k, p, events)
    PROVE  /\ \A e \in events : \A o \in DOMAIN Values(e) : Values(e)[o] = Observed(o, s.world)
           /\ ~ observation_conflict(events)
           /\ \A o \in ObservedNames(events) : Observations(events)[o] = Observed(o, s.world)
           /\ DOMAIN Observations(events) = ObservedNames(events)
  <1>1. ASSUME NEW e \in events, NEW o \in DOMAIN Values(e)
        PROVE  Values(e)[o] = Observed(o, s.world)
    <2>1. PICK j : Values(e) = observation_values(Mechanism(s, j), s.world, SlotNames(s, j))
      BY <1>1, SaidAttributes DEF Tell
    <2> QED
      BY <1>1, <2>1 DEF observation_values
  <1>2. ~ observation_conflict(events)
    BY <1>1 DEF observation_conflict
  <1>3. ASSUME NEW o \in ObservedNames(events)
        PROVE  Observations(events)[o] = Observed(o, s.world)
    <2>1. \E e \in events : o \in DOMAIN Values(e)
      BY <1>3 DEF ObservedNames
    <2>2. LET e == CHOOSE e \in events : o \in DOMAIN Values(e)
          IN  e \in events /\ o \in DOMAIN Values(e)
      BY <2>1
    <2>3. Observations(events)[o] = Values(CHOOSE e \in events : o \in DOMAIN Values(e))[o]
      BY <1>3 DEF Observations
    <2> QED
      BY <1>1, <2>2, <2>3
  <1>4. DOMAIN Observations(events) = ObservedNames(events)
    BY DEF Observations
  <1> QED
    BY <1>1, <1>2, <1>3, <1>4

-----------------------------------------------------------------------------
(* Evidence in which every mechanism's observations are complete. *)

LEMMA SlotsDiffer ==
    ASSUME NEW s, s.workflow \in {"payment", "credit"},
           NEW i \in 1 .. LastSlot(s), NEW j \in 1 .. LastSlot(s), Slots(s)[i] = Slots(s)[j]
    PROVE  i = j \/ (s.workflow = "payment" /\ i \in {4, 14} /\ j \in {4, 14})
  <1>1. CASE s.workflow = "payment"
    <2>1. i \in 1 .. 16 /\ j \in 1 .. 16
      BY <1>1 DEF LastSlot
    <2> QED
      BY <1>1, <2>1, PaymentTable
  <1>2. CASE s.workflow = "credit"
    <2>1. i \in 1 .. 14 /\ j \in 1 .. 14
      BY <1>2 DEF LastSlot
    <2> QED
      BY <1>2, <2>1, CreditTable
  <1> QED
    BY <1>1, <1>2

(* What the slots of a mechanism are asked for, is all it observes but for the trace. *)
LEMMA AskedNames ==
    ASSUME NEW s, s.workflow \in {"payment", "credit"}, NEW j \in 1 .. LastSlot(s)
    PROVE  /\ ~ (s.workflow = "payment" /\ j \in {4, 14}) =>
                 Mechanism(s, j).observes \cap SlotNames(s, j) = Mechanism(s, j).observes
           /\ s.workflow = "payment" /\ j = 4 =>
                 /\ Mechanism(s, j) = PaymentMechanisms.generic_agent_trace
                 /\ Mechanism(s, j).observes \cap SlotNames(s, j)
                        = {"model_recommendation", "human_decision"}
           /\ s.workflow = "payment" /\ j = 14 =>
                 /\ Mechanism(s, j) = PaymentMechanisms.generic_agent_trace
                 /\ Mechanism(s, j).observes \cap SlotNames(s, j) = {"tool_response"}
  <1>1. CASE s.workflow = "payment"
    <2>1. Spec(s).mechanisms = PaymentMechanisms /\ j \in Nat
      BY <1>1, PaymentCatalogue DEF Spec, LastSlot
    <2>2. ~ (j \in {4, 14}) => SlotNames(s, j) = Mechanism(s, j).observes
      BY <1>1, <2>1, PaymentTable DEF AllNames, Mechanism
    <2>3. /\ Slots(s)[4] = "generic_agent_trace"
          /\ Slots(s)[14] = "generic_agent_trace"
          /\ SlotNames(s, 4) = {"model_recommendation", "human_decision"}
          /\ SlotNames(s, 14) = {"tool_response"}
      BY <1>1, PaymentTable
    <2>4. PaymentMechanisms.generic_agent_trace.observes =
              {"tool_response", "model_recommendation", "human_decision"}
      BY PaymentCatalogue
    <2> QED
      BY <1>1, <2>1, <2>2, <2>3, <2>4 DEF Mechanism
  <1>2. CASE s.workflow = "credit"
    <2>1. j \in Nat
      BY DEF LastSlot
    <2>2. SlotNames(s, j) = Mechanism(s, j).observes
      BY <1>2, <2>1, CreditTable DEF AllNames, Mechanism
    <2> QED
      BY <1>2, <2>2
  <1> QED
    BY <1>1, <1>2

(* No event of a mechanism is missing when its observations are complete. *)
LEMMA CompleteTellsAll ==
    ASSUME NEW s, WellFormed(s), NEW k \in 0 .. LastSlot(s), NEW p,
           NEW events, Tell(s, k, p, ToSet(events)),
           \A name \in s.contract :
               /\ OfMechanism(events, name) # {}
               /\ ObservedNames(OfMechanism(events, name)) = Spec(s).mechanisms[name].observes
    PROVE  TellAll(s, k, p, ToSet(events))
  <1> SUFFICES ASSUME NEW j \in Contracted(s, k)
               PROVE  \E e \in ToSet(events) : Says(s, j, p, e)
    BY DEF TellAll
  <1>0. s.workflow \in {"payment", "credit"}
    BY DEF WellFormed
  <1>1. /\ j \in 1 .. LastSlot(s) /\ Slots(s)[j] \in s.contract
        /\ \A i \in Contracted(s, k) : i \in 1 .. LastSlot(s)
    BY DEF Contracted, LastSlot
  <1> DEFINE mine == OfMechanism(events, Slots(s)[j])
  <1>2. /\ mine # {}
        /\ ObservedNames(mine) = Mechanism(s, j).observes
    BY <1>1 DEF Mechanism
  <1>3. ASSUME NEW e \in mine
        PROVE  \E i \in Contracted(s, k) :
                   /\ Says(s, i, p, e) /\ Slots(s)[i] = Slots(s)[j] /\ e \in ToSet(events)
                   /\ DOMAIN Values(e) = Mechanism(s, i).observes \cap SlotNames(s, i)
    <2>1. e \in ToSet(events) /\ e.mechanism = Slots(s)[j]
      BY <1>3 DEF OfMechanism
    <2>2. PICK i \in Contracted(s, k) : Says(s, i, p, e)
      BY <2>1 DEF Tell
    <2>3. Values(e) = observation_values(Mechanism(s, i), s.world, SlotNames(s, i))
      BY <2>2, SaidAttributes
    <2> QED
      BY <2>1, <2>2, <2>3 DEF observation_values, Says
  <1>4. CASE ~ (s.workflow = "payment" /\ j \in {4, 14})
    <2>1. PICK e \in mine : TRUE
      BY <1>2
    <2>2. PICK i \in Contracted(s, k) :
              Says(s, i, p, e) /\ Slots(s)[i] = Slots(s)[j] /\ e \in ToSet(events)
      BY <1>3
    <2>3. i = j
      BY <1>0, <1>1, <1>4, <2>2, SlotsDiffer
    <2> QED
      BY <2>2, <2>3
  <1>5. CASE s.workflow = "payment" /\ j \in {4, 14}
    <2> DEFINE o == IF j = 4 THEN "human_decision" ELSE "tool_response"
    <2>1. o \in ObservedNames(mine)
      BY <1>0, <1>1, <1>2, <1>5, AskedNames, PaymentCatalogue
    <2>2. PICK e \in mine : o \in DOMAIN Values(e)
      BY <2>1 DEF ObservedNames
    <2>3. PICK i \in Contracted(s, k) :
              /\ Says(s, i, p, e) /\ Slots(s)[i] = Slots(s)[j] /\ e \in ToSet(events)
              /\ DOMAIN Values(e) = Mechanism(s, i).observes \cap SlotNames(s, i)
      BY <1>3
    <2>4. i \in {4, 14}
      BY <1>0, <1>1, <1>5, <2>3, SlotsDiffer
    <2>5. i = j
      <3>1. o \in Mechanism(s, i).observes \cap SlotNames(s, i)
        BY <2>2, <2>3
      <3> HIDE DEF mine
      <3> QED
        BY <1>0, <1>1, <1>5, <2>3, <2>4, <3>1, AskedNames
    <2> QED
      BY <2>3, <2>5
  <1> QED
    BY <1>4, <1>5

LEMMA SlotOfName ==
    ASSUME NEW s, s.workflow \in {"payment", "credit"}, NEW name \in DOMAIN Spec(s).mechanisms,
           validate_mechanism_adapter(Spec(s), name)
    PROVE  /\ \E j \in 1 .. LastSlot(s) : Slots(s)[j] = name
           /\ \A j \in 1 .. LastSlot(s) : Slots(s)[j] = name =>
                 (j = LastSlot(s) <=> name = Spec(s).replay)
  <1>1. CASE s.workflow = "payment"
    <2>1. /\ LastSlot(s) = 16 /\ Spec(s).replay = "virtualized_tool_omission_replay"
          /\ name \in DOMAIN PaymentMechanisms \ {"irreversible_wire_replay"}
      BY <1>1, PaymentCatalogue, SpecFields, ReplaysAre
         DEF LastSlot, Spec, validate_mechanism_adapter, Replays
    <2>2. \E j \in 1 .. 16 : Slots(s)[j] = name
      BY <1>1, <2>1, PaymentTable, PaymentCatalogue
    <2>3. \A j \in 1 .. 16 : Slots(s)[j] = name =>
              (j = 16 <=> name = "virtualized_tool_omission_replay")
      BY <1>1, PaymentTable
    <2> QED
      BY <2>1, <2>2, <2>3
  <1>2. CASE s.workflow = "credit"
    <2>1. /\ LastSlot(s) = 14 /\ Spec(s).replay = "virtualized_income_ablation"
          /\ name \in DOMAIN CreditMechanisms
      BY <1>2, CreditCatalogue, SpecFields DEF LastSlot, Spec
    <2>2. \E j \in 1 .. 14 : Slots(s)[j] = name
      BY <1>2, <2>1, CreditTable, CreditCatalogue
    <2>3. \A j \in 1 .. 14 : Slots(s)[j] = name =>
              (j = 14 <=> name = "virtualized_income_ablation")
      BY <1>2, CreditTable
    <2> QED
      BY <2>1, <2>2, <2>3
  <1> QED
    BY <1>1, <1>2

(* The events of a mechanism: of each of its slots there is one, and the names *)
(* asked for in its slots are all it observes.                                 *)
LEMMA ToldMechanism ==
    ASSUME NEW s, s.workflow \in {"payment", "credit"}, NEW p, NEW events,
           NEW k \in {LastSlot(s) - 1, LastSlot(s)},
           Tell(s, k, p, ToSet(events)), TellAll(s, k, p, ToSet(events)),
           NEW name \in s.contract, s.contract \subseteq DOMAIN Spec(s).mechanisms,
           validate_mechanism_adapter(Spec(s), name)
    PROVE  /\ \A e \in OfMechanism(events, name) :
                  \E j \in Contracted(s, k) : Says(s, j, p, e) /\ Slots(s)[j] = name
           /\ \A j \in Contracted(s, k) : Slots(s)[j] = name =>
                  \E e \in OfMechanism(events, name) : Says(s, j, p, e)
           /\ name = Spec(s).replay /\ k = LastSlot(s) - 1 => OfMechanism(events, name) = {}
           /\ ~ (name = Spec(s).replay /\ k = LastSlot(s) - 1) =>
                  /\ OfMechanism(events, name) # {}
                  /\ ObservedNames(OfMechanism(events, name)) = Spec(s).mechanisms[name].observes
  <1> DEFINE mine == OfMechanism(events, name)
             observes == Spec(s).mechanisms[name].observes
  <1>1. ASSUME NEW e \in mine
        PROVE  \E j \in Contracted(s, k) : Says(s, j, p, e) /\ Slots(s)[j] = name
    BY <1>1 DEF OfMechanism, Tell, Says
  <1>2. ASSUME NEW j \in Contracted(s, k), Slots(s)[j] = name
        PROVE  \E e \in mine : Says(s, j, p, e)
    BY <1>2 DEF OfMechanism, TellAll, Says
  <1>3. /\ LastSlot(s) \in {14, 16} /\ (s.workflow = "payment" <=> LastSlot(s) = 16)
        /\ \A j : j \in Contracted(s, k) <=> j \in 1 .. k /\ Slots(s)[j] \in s.contract
    BY DEF LastSlot, Contracted
  <1>4. /\ \E j \in 1 .. LastSlot(s) : Slots(s)[j] = name
        /\ \A j \in 1 .. LastSlot(s) : Slots(s)[j] = name =>
              (j = LastSlot(s) <=> name = Spec(s).replay)
    BY SlotOfName
  <1> HIDE DEF mine, observes
  <1>5. name = Spec(s).replay /\ k = LastSlot(s) - 1 => mine = {}
    BY <1>1, <1>3, <1>4
  <1>6. ASSUME ~ (name = Spec(s).replay /\ k = LastSlot(s) - 1)
        PROVE  mine # {} /\ ObservedNames(mine) = observes
    <2>1. \A j \in 1 .. LastSlot(s) : Slots(s)[j] = name => j \in Contracted(s, k)
      BY <1>3, <1>4, <1>6
    <2>2. PICK i \in Contracted(s, k) : Slots(s)[i] = name
      BY <1>4, <2>1
    <2>3. mine # {}
      BY <1>2, <2>2
    <2>4. ASSUME NEW j \in Contracted(s, k), Slots(s)[j] = name, NEW e, Says(s, j, p, e)
          PROVE  DOMAIN Values(e) = observes \cap SlotNames(s, j)
      <3>1. Values(e) = observation_values(Mechanism(s, j), s.world, SlotNames(s, j))
        BY <2>4, SaidAttributes
      <3> QED
        BY <2>4, <3>1 DEF observation_values, Mechanism, observes
    <2>5. ObservedNames(mine) \subseteq observes
      BY <1>1, <2>4 DEF ObservedNames
    <2>6. ASSUME NEW o \in observes PROVE o \in ObservedNames(mine)
      <3>1. \E j \in 1 .. LastSlot(s) : Slots(s)[j] = name /\ o \in observes \cap SlotNames(s, j)
        <4>1. i \in 1 .. LastSlot(s) /\ Mechanism(s, i).observes = observes
          BY <1>3, <2>2 DEF Mechanism, observes
        <4>2. CASE ~ (s.workflow = "payment" /\ i \in {4, 14})
          BY <2>2, <2>6, <4>1, <4>2, AskedNames
        <4>3. CASE s.workflow = "payment" /\ i \in {4, 14}
          <5>1. /\ Slots(s)[4] = name /\ Slots(s)[14] = name
                /\ 4 \in 1 .. LastSlot(s) /\ 14 \in 1 .. LastSlot(s)
            BY <1>3, <2>2, <4>3, PaymentTable
          <5>2. /\ SlotNames(s, 4) = {"model_recommendation", "human_decision"}
                /\ SlotNames(s, 14) = {"tool_response"}
            BY <4>3, PaymentTable
          <5>3. observes = {"tool_response", "model_recommendation", "human_decision"}
            BY <4>1, <4>3, AskedNames, PaymentCatalogue
          <5> QED
            BY <2>6, <5>1, <5>2, <5>3
        <4> QED
          BY <4>2, <4>3
      <3>2. PICK j \in Contracted(s, k) : Slots(s)[j] = name /\ o \in observes \cap SlotNames(s, j)
        BY <2>1, <3>1
      <3>3. PICK e \in mine : Says(s, j, p, e)
        BY <1>2, <3>2
      <3> QED
        BY <2>4, <3>2, <3>3 DEF ObservedNames
    <2> QED
      BY <2>3, <2>5, <2>6
  <1> QED
    BY <1>1, <1>2, <1>5, <1>6 DEF mine, observes

-----------------------------------------------------------------------------
(* Evidence that tells of the run alone and that verify_run_evidence accepts, *)
(* the oracle that knows the world certifies.                                 *)

LEMMA ProofIsReplayed ==
    ASSUME NEW s, s.workflow \in {"payment", "credit"}, NEW j \in 1 .. LastSlot(s), NEW p, NEW e,
           Says(s, j, p, e), "replay_proof" \in DOMAIN e.attributes
    PROVE  j = LastSlot(s) /\ e.attributes.replay_proof = p
  <1>1. /\ "replay_proof" \in DOMAIN SlotMore(s, j, p)
        /\ e.attributes.replay_proof = SlotMore(s, j, p).replay_proof
    BY SaidAttributes
  <1>2. DOMAIN NoMore = {}
    BY DEF NoMore
  <1>3. j = LastSlot(s)
    BY <1>1, <1>2 DEF SlotMore, LastSlot
  <1>4. SlotMore(s, LastSlot(s), p) = [replay_proof |-> p]
    BY PaymentTable, CreditTable DEF LastSlot
  <1> QED
    BY <1>1, <1>3, <1>4

LEMMA AcceptedIsCertified ==
    ASSUME NEW s, WellFormed(s), NEW k \in 0 .. LastSlot(s), NEW events,
           Tell(s, k, KnownProof(s), ToSet(events)), NEW threat,
           verify_run_evidence(Spec(s), events, s.contract, threat)
    PROVE  certify_adapter_run(Spec(s), s.world, events, s.contract, threat)
  <1> DEFINE p == KnownProof(s)
             spec == Spec(s)
             Mine(name) == OfMechanism(events, name)
  <1>0. s.workflow \in {"payment", "credit"}
    BY DEF WellFormed
  <1>1. verify(events) /\ OneIdentity(events, s.contract)
    BY DEF verify_run_evidence
  <1>2. ASSUME NEW name \in s.contract
        PROVE  /\ Mine(name) # {}
               /\ ~ observation_conflict(Mine(name))
               /\ ObservedNames(Mine(name)) = spec.mechanisms[name].observes
               /\ name = spec.coverage => Mediated(spec, threat, Mine(name))
               /\ IsReplay(spec, name) =>
                      \E e \in Mine(name) : _replay_proof_valid(spec, name, e.attributes)
    BY <1>2 DEF verify_run_evidence, ObservationsComplete
  <1>3. ASSUME NEW name \in s.contract
        PROVE  Tell(s, k, p, Mine(name))
    BY DEF OfMechanism, Tell
  <1>4. ASSUME NEW name \in s.contract, NEW e \in Mine(name)
        PROVE  \E j \in Contracted(s, k) : Says(s, j, p, e) /\ Mechanism(s, j) = spec.mechanisms[name]
    BY <1>4, <1>3 DEF Tell, Mechanism, Says, OfMechanism
  <1> HIDE DEF Mine, p, spec
  <1>5. ASSUME NEW name \in s.contract
        PROVE  /\ \A e \in Mine(name) : e.attributes.root_digest = root_digest(spec, s.world)
               /\ \A o \in spec.mechanisms[name].observes :
                      Observations(Mine(name))[o] = Observed(o, s.world)
               /\ spec.mechanisms[name].entity # "unbound" =>
                      \E e \in Mine(name) :
                          e.attributes.binding_proof
                              = binding_proof(spec, s.world, spec.mechanisms[name], e.action)
               /\ spec.mechanisms[name].entity = "policy_version" =>
                      \E e \in Mine(name) : e.attributes.policy_version_id
                                                 = entity_identifier(spec, s.world, "policy_version")
    <2>1. \A e \in Mine(name) : e.attributes.root_digest = root_digest(spec, s.world)
      BY <1>4, <1>5, SaidAttributes DEF spec
    <2>2. \A o \in spec.mechanisms[name].observes :
              Observations(Mine(name))[o] = Observed(o, s.world)
      BY <1>2, <1>3, <1>5, ToldValues
    <2>3. PICK e \in Mine(name) : TRUE
      BY <1>2, <1>5
    <2>4. spec.mechanisms[name].entity # "unbound" =>
              e.attributes.binding_proof
                  = binding_proof(spec, s.world, spec.mechanisms[name], e.action)
      BY <1>4, <1>5, SaidAttributes DEF spec
    <2>5. spec.mechanisms[name].entity = "policy_version" =>
              e.attributes.policy_version_id = entity_identifier(spec, s.world, "policy_version")
      BY <1>4, <1>5, SaidAttributes DEF spec
    <2> QED
      BY <2>1, <2>2, <2>3, <2>4, <2>5
  <1>6. ASSUME NEW name \in s.contract, IsReplay(spec, name)
        PROVE  \E e \in Mine(name) :
                   /\ _replay_proof_valid(spec, name, e.attributes)
                   /\ e.attributes.replay_proof.original_value
                          = s.world[e.attributes.replay_proof.source]
    <2>1. PICK e \in Mine(name) : _replay_proof_valid(spec, name, e.attributes)
      BY <1>2, <1>6
    <2>2. "replay_proof" \in DOMAIN e.attributes
      BY <2>1 DEF _replay_proof_valid
    <2>3. PICK j \in Contracted(s, k) : Says(s, j, p, e)
      BY <1>4, <1>6
    <2>4. j \in 1 .. LastSlot(s)
      BY DEF Contracted, LastSlot
    <2>5. e.attributes.replay_proof = p
      BY <1>0, <2>2, <2>3, <2>4, ProofIsReplayed
    <2>6. p.original_value = s.world[p.source]
      BY DEF p, KnownProof, replay_proof
    <2> QED
      BY <2>1, <2>5, <2>6
  <1> QED
    BY <1>1, <1>2, <1>5, <1>6 DEF certify_adapter_run, Mine, spec

-----------------------------------------------------------------------------
(* The mediation proof of the two workflows: it fails when, and only when, the *)
(* threat model has the edge that goes around the mediator.                    *)

Path(route) == {<<route[i], route[i + 1]>> : i \in 1 .. Len(route) - 1}

LEMMA PaymentRoute ==
  /\ PaymentSpec.mediator = "action_gateway"
  /\ PaymentSpec.route[1] = "agent"
  /\ PaymentSpec.route[2] = "framework_runtime"
  /\ Last(PaymentSpec.route) = "ledger"
  /\ ToSet(PaymentSpec.route) = {"agent", "framework_runtime", "action_gateway", "ledger"}
  /\ Path(PaymentSpec.route) = {<<"agent", "framework_runtime">>,
                                <<"framework_runtime", "action_gateway">>,
                                <<"action_gateway", "ledger">>}
  <1> DEFINE route == <<"agent", "framework_runtime", "action_gateway", "ledger">>
  <1>1. /\ PaymentSpec.route = route
        /\ PaymentSpec.mediator = "action_gateway"
    BY DEF PaymentSpec
  <1>2. /\ Len(route) = 4 /\ DOMAIN route = 1 .. 4
        /\ route[1] = "agent" /\ route[2] = "framework_runtime"
        /\ route[3] = "action_gateway" /\ route[4] = "ledger"
    OBVIOUS
  <1> HIDE DEF route
  <1>3. Last(route) = "ledger"
    BY <1>2 DEF Last
  <1>4. ToSet(route) = {"agent", "framework_runtime", "action_gateway", "ledger"}
    BY <1>2 DEF ToSet
  <1>5. Path(route) = {<<"agent", "framework_runtime">>, <<"framework_runtime", "action_gateway">>,
                       <<"action_gateway", "ledger">>}
    <2>1. Path(route) = {<<route[i], route[i + 1]>> : i \in {1, 2, 3}}
      BY <1>2 DEF Path
    <2> QED
      BY <1>2, <2>1
  <1> QED
    BY <1>1, <1>2, <1>3, <1>4, <1>5

LEMMA CreditRoute ==
  /\ CreditSpec.mediator = "feature_gateway"
  /\ CreditSpec.route[1] = "agent"
  /\ CreditSpec.route[2] = "framework_runtime"
  /\ Last(CreditSpec.route) = "decision_service"
  /\ ToSet(CreditSpec.route) = {"agent", "framework_runtime", "feature_gateway", "model_gateway",
                                "decision_service"}
  /\ Path(CreditSpec.route) = {<<"agent", "framework_runtime">>,
                               <<"framework_runtime", "feature_gateway">>,
                               <<"feature_gateway", "model_gateway">>,
                               <<"model_gateway", "decision_service">>}
  <1> DEFINE route == <<"agent", "framework_runtime", "feature_gateway", "model_gateway",
                        "decision_service">>
  <1>1. /\ CreditSpec.route = route
        /\ CreditSpec.mediator = "feature_gateway"
    BY DEF CreditSpec
  <1>2. /\ Len(route) = 5 /\ DOMAIN route = 1 .. 5
        /\ route[1] = "agent" /\ route[2] = "framework_runtime"
        /\ route[3] = "feature_gateway" /\ route[4] = "model_gateway"
        /\ route[5] = "decision_service"
    OBVIOUS
  <1> HIDE DEF route
  <1>3. Last(route) = "decision_service"
    BY <1>2 DEF Last
  <1>4. ToSet(route) = {"agent", "framework_runtime", "feature_gateway", "model_gateway",
                        "decision_service"}
    BY <1>2 DEF ToSet
  <1>5. Path(route) = {<<"agent", "framework_runtime">>, <<"framework_runtime", "feature_gateway">>,
                       <<"feature_gateway", "model_gateway">>,
                       <<"model_gateway", "decision_service">>}
    <2>1. Path(route) = {<<route[i], route[i + 1]>> : i \in {1, 2, 3, 4}}
      BY <1>2 DEF Path
    <2> QED
      BY <1>2, <2>1
  <1> QED
    BY <1>1, <1>2, <1>3, <1>4, <1>5

LEMMA MediationIs ==
    ASSUME NEW spec, NEW bypass
    PROVE  LET edges == Path(spec.route) \cup bypass
               nodes == ToSet(spec.route)
               around == {e \in edges : spec.mediator \notin {e[1], e[2]}}
               sink == Last(spec.route)
           IN  verify_mediation(spec, bypass) <=>
                   \A source \in {spec.route[1], spec.route[2]} :
                       /\ _shortest_path(nodes, edges, source, sink)
                       /\ spec.mediator \notin {source, sink} =>
                              ~ _shortest_path(nodes, around, source, sink)
  BY DEF verify_mediation, Path

LEMMA PathFound ==
    ASSUME NEW nodes, NEW edges, NEW source, NEW mid, NEW sink, <<mid, sink>> \in edges,
           source = mid \/ <<source, mid>> \in edges
    PROVE  _shortest_path(nodes, edges, source, sink)
  <1> SUFFICES ASSUME NEW visited \in SUBSET nodes, source \in visited,
                      \A e \in edges : e[1] \in visited => e[2] \in visited
               PROVE  sink \in visited
    BY DEF _shortest_path
  <1>1. mid \in visited
    <2>1. <<source, mid>>[1] = source /\ <<source, mid>>[2] = mid
      OBVIOUS
    <2> QED
      BY <2>1
  <1>2. <<mid, sink>>[1] = mid /\ <<mid, sink>>[2] = sink
    OBVIOUS
  <1> QED
    BY <1>1, <1>2

LEMMA PathGoesOn ==
    ASSUME NEW nodes, NEW edges, NEW source, NEW mid, NEW sink, <<source, mid>> \in edges,
           _shortest_path(nodes, edges, mid, sink)
    PROVE  _shortest_path(nodes, edges, source, sink)
  <1>1. <<source, mid>>[1] = source /\ <<source, mid>>[2] = mid
    OBVIOUS
  <1> QED
    BY <1>1 DEF _shortest_path

LEMMA NoPathFound ==
    ASSUME NEW nodes, NEW edges, NEW source, NEW sink, NEW visited \in SUBSET nodes,
           source \in visited, sink \notin visited,
           \A e \in edges : e[1] \in visited => e[2] \in visited
    PROVE  ~ _shortest_path(nodes, edges, source, sink)
  BY DEF _shortest_path

LEMMA PaymentMediation ==
  /\ verify_mediation(PaymentSpec, {})
  /\ ~ verify_mediation(PaymentSpec, {<<"framework_runtime", "ledger">>})
  <1> DEFINE nodes == {"agent", "framework_runtime", "action_gateway", "ledger"}
             path == {<<"agent", "framework_runtime">>, <<"framework_runtime", "action_gateway">>,
                      <<"action_gateway", "ledger">>}
             gap == <<"framework_runtime", "ledger">>
             Around(edges) == {e \in edges : "action_gateway" \notin {e[1], e[2]}}
  <1>1. ASSUME NEW source \in {"agent", "framework_runtime"}
        PROVE  /\ _shortest_path(nodes, path, source, "ledger")
               /\ ~ _shortest_path(nodes, Around(path), source, "ledger")
               /\ _shortest_path(nodes, Around(path \cup {gap}), source, "ledger")
    <2>1. _shortest_path(nodes, path, source, "ledger")
      BY DEF _shortest_path
    <2>2. ~ _shortest_path(nodes, Around(path), source, "ledger")
      <3>1. Around(path) = {<<"agent", "framework_runtime">>}
        OBVIOUS
      <3> DEFINE visited == {"agent", "framework_runtime"}
      <3>2. visited \in SUBSET nodes /\ source \in visited
        OBVIOUS
      <3>3. \A e \in Around(path) : e[1] \in visited => e[2] \in visited
        BY <3>1
      <3> HIDE DEF Around
      <3> QED
        BY <3>2, <3>3, NoPathFound
    <2>3. _shortest_path(nodes, Around(path \cup {gap}), source, "ledger")
      <3>1. Around(path \cup {gap}) = {<<"agent", "framework_runtime">>, gap}
        OBVIOUS
      <3> HIDE DEF Around
      <3> QED
        BY <3>1, PathFound
    <2> QED
      BY <2>1, <2>2, <2>3
  <1>2. verify_mediation(PaymentSpec, {})
    <2>1. path \cup {} = path
      OBVIOUS
    <2> QED
      BY <1>1, <2>1, PaymentRoute, MediationIs
  <1>3. ~ verify_mediation(PaymentSpec, {<<"framework_runtime", "ledger">>})
    BY <1>1, PaymentRoute, MediationIs
  <1> QED
    BY <1>2, <1>3

LEMMA CreditMediation ==
  /\ verify_mediation(CreditSpec, {})
  /\ ~ verify_mediation(CreditSpec, {<<"framework_runtime", "model_gateway">>})
  <1> DEFINE nodes == {"agent", "framework_runtime", "feature_gateway", "model_gateway",
                       "decision_service"}
             path == {<<"agent", "framework_runtime">>, <<"framework_runtime", "feature_gateway">>,
                      <<"feature_gateway", "model_gateway">>,
                      <<"model_gateway", "decision_service">>}
             gap == <<"framework_runtime", "model_gateway">>
             Around(edges) == {e \in edges : "feature_gateway" \notin {e[1], e[2]}}
  <1>1. ASSUME NEW source \in {"agent", "framework_runtime"}
        PROVE  /\ _shortest_path(nodes, path, source, "decision_service")
               /\ ~ _shortest_path(nodes, Around(path), source, "decision_service")
               /\ _shortest_path(nodes, Around(path \cup {gap}), source, "decision_service")
    <2>1. _shortest_path(nodes, path, source, "decision_service")
      BY DEF _shortest_path
    <2>2. ~ _shortest_path(nodes, Around(path), source, "decision_service")
      <3>1. Around(path) = {<<"agent", "framework_runtime">>,
                            <<"model_gateway", "decision_service">>}
        OBVIOUS
      <3> DEFINE visited == {"agent", "framework_runtime"}
      <3>2. visited \in SUBSET nodes /\ source \in visited
        OBVIOUS
      <3>3. \A e \in Around(path) : e[1] \in visited => e[2] \in visited
        BY <3>1
      <3> HIDE DEF Around
      <3> QED
        BY <3>2, <3>3, NoPathFound
    <2>3. _shortest_path(nodes, Around(path \cup {gap}), source, "decision_service")
      <3>1. Around(path \cup {gap}) = {<<"agent", "framework_runtime">>, gap,
                                       <<"model_gateway", "decision_service">>}
        OBVIOUS
      <3> HIDE DEF Around
      <3>2. _shortest_path(nodes, Around(path \cup {gap}), "framework_runtime", "decision_service")
        BY <3>1, PathFound
      <3> QED
        BY <3>1, <3>2, PathGoesOn
    <2> QED
      BY <2>1, <2>2, <2>3
  <1>2. verify_mediation(CreditSpec, {})
    <2>1. path \cup {} = path
      OBVIOUS
    <2> QED
      BY <1>1, <2>1, CreditRoute, MediationIs
  <1>3. ~ verify_mediation(CreditSpec, {<<"framework_runtime", "model_gateway">>})
    BY <1>1, CreditRoute, MediationIs
  <1> QED
    BY <1>2, <1>3

(* Of the threat models of a catalogue, one has an edge around the mediator. *)
Gap(s) ==
    IF s.workflow = "payment" THEN <<"framework_runtime", "ledger">>
    ELSE <<"framework_runtime", "model_gateway">>

LEMMA ThreatsBypass ==
    ASSUME NEW s, s.workflow \in {"payment", "credit"}, NEW threat \in DOMAIN Threats(Spec(s))
    PROVE  bypass_edges(Spec(s), threat) \in {{}, {Gap(s)}}
  <1>1. CASE s.workflow = "payment"
    <2>1. Threats(Spec(s)) = PaymentThreats
      BY <1>1 DEF Spec, PaymentSpec, Threats
    <2>2. threat \in {"cooperative", "adversarial_agent", "external_forensics",
                     "best_effort_gateway", "no_replay", "irreversible_only"}
      BY <2>1 DEF PaymentThreats
    <2>3. PaymentThreats[threat].bypass \in {{}, {<<"framework_runtime", "ledger">>}}
      BY <2>2 DEF PaymentThreats, ThreatModel
    <2> QED
      BY <1>1, <2>1, <2>3 DEF bypass_edges, Gap
  <1>2. CASE s.workflow = "credit"
    <2>1. Threats(Spec(s)) = CreditThreats
      BY <1>2 DEF Spec, CreditSpec, Threats
    <2>2. threat \in {"cooperative", "adversarial_agent", "best_effort_features", "no_replay"}
      BY <2>1 DEF CreditThreats
    <2>3. CreditThreats[threat].bypass \in {{}, {<<"framework_runtime", "model_gateway">>}}
      BY <2>2 DEF CreditThreats, ThreatModel
    <2> QED
      BY <1>2, <2>1, <2>3 DEF bypass_edges, Gap
  <1> QED
    BY <1>1, <1>2

(* Events of the coverage mechanism are accepted under the others. *)
LEMMA MediatedIs ==
    ASSUME NEW s, s.workflow \in {"payment", "credit"}, NEW threat \in DOMAIN Threats(Spec(s)),
           NEW events, \E e \in events : e.attributes.declared_mediator = Spec(s).mediator
    PROVE  Mediated(Spec(s), threat, events) <=> bypass_edges(Spec(s), threat) = {}
  <1>1. /\ verify_mediation(Spec(s), {})
        /\ ~ verify_mediation(Spec(s), {Gap(s)})
    BY PaymentMediation, CreditMediation DEF Spec, Gap
  <1>2. bypass_edges(Spec(s), threat) \in {{}, {Gap(s)}}
    BY ThreatsBypass
  <1> QED
    BY <1>1, <1>2 DEF Mediated

-----------------------------------------------------------------------------
(* Policy events are accepted when the policy is one that the auditor knows. *)

PolicyNames ==
    {"policy_limit", "policy_effective", "policy_limit_redacted", "policy_effective_present",
     "policy_state_domain_token"}

LEMMA PolicyMechanisms ==
    ASSUME NEW s, s.workflow \in {"payment", "credit"}, NEW name \in DOMAIN Spec(s).mechanisms,
           Spec(s).mechanisms[name].entity = "policy_version"
    PROVE  Spec(s).mechanisms[name].observes \subseteq PolicyNames
  <1>1. CASE s.workflow = "payment"
    BY <1>1, PaymentCatalogue DEF Spec, PolicyNames
  <1>2. CASE s.workflow = "credit"
    BY <1>2, CreditCatalogue DEF Spec, PolicyNames
  <1> QED
    BY <1>1, <1>2

LEMMA PolicyRead ==
    ASSUME NEW s, s.workflow \in {"payment", "credit"}, Informed(s),
           s.world.policy_effective \in BOOLEAN
    PROVE  LET id == entity_identifier(Spec(s), s.world, "policy_version")
           IN  /\ \A o \in PolicyNames : Observed(o, id[2]) = Observed(o, s.world)
               /\ id \in PolicyRoots(Spec(s)) <=> s.world.policy_limit \in Spec(s).policy_limits
  <1> DEFINE facts == [f \in {"policy_limit", "policy_effective"} |-> s.world[f]]
             id == entity_identifier(Spec(s), s.world, "policy_version")
  <1>1. /\ "policy_limit" \in DOMAIN s.world /\ "policy_effective" \in DOMAIN s.world
    BY DEF Informed, PaymentFacts, CreditFacts
  <1>2. Spec(s).entities["policy_version"] = {"policy_limit", "policy_effective"}
    BY EntityFields DEF Spec
  <1>3. {"policy_limit", "policy_effective"} \cap DOMAIN s.world
            = {"policy_limit", "policy_effective"}
    BY <1>1
  <1>4. id = <<"policy_version", facts>>
    BY <1>2, <1>3 DEF entity_identifier
  <1>5. id[2] = facts
    BY <1>4
  <1>6. /\ DOMAIN facts = {"policy_limit", "policy_effective"}
        /\ facts["policy_limit"] = s.world["policy_limit"]
        /\ facts["policy_effective"] = s.world["policy_effective"]
    OBVIOUS
  <1>7. facts = [policy_limit |-> s.world.policy_limit, policy_effective |-> s.world.policy_effective]
    OBVIOUS
  <1> HIDE DEF facts, id
  <1>8. \A o \in PolicyNames : Observed(o, facts) = Observed(o, s.world)
    <2>1. /\ DOMAIN TokenSources =
                 {"amount_domain_token", "score_domain_token", "policy_state_domain_token"}
          /\ TokenSources["policy_state_domain_token"] = {"policy_limit", "policy_effective"}
      BY DEF TokenSources
    <2>2. [f \in {"policy_limit", "policy_effective"} |-> facts[f]]
              = [f \in {"policy_limit", "policy_effective"} |-> s.world[f]]
      BY <1>6
    <2>3. Observed("policy_limit", facts) = Observed("policy_limit", s.world)
      BY <1>6, <2>1 DEF Observed
    <2>4. Observed("policy_effective", facts) = Observed("policy_effective", s.world)
      BY <1>6, <2>1 DEF Observed
    <2>5. Observed("policy_limit_redacted", facts) = Observed("policy_limit_redacted", s.world)
      BY <2>1 DEF Observed
    <2>6. Observed("policy_effective_present", facts)
              = Observed("policy_effective_present", s.world)
      BY <2>1 DEF Observed
    <2>7. \A w : Observed("policy_state_domain_token", w)
                     = [f \in {"policy_limit", "policy_effective"} |-> w[f]]
      BY <2>1 DEF Observed
    <2>8. Observed("policy_state_domain_token", facts)
              = Observed("policy_state_domain_token", s.world)
      BY <2>2, <2>7
    <2> QED
      BY <2>3, <2>4, <2>5, <2>6, <2>8 DEF PolicyNames
  <1>9. id \in PolicyRoots(Spec(s)) <=> s.world.policy_limit \in Spec(s).policy_limits
    <2>1. ASSUME s.world.policy_limit \in Spec(s).policy_limits
          PROVE  id \in PolicyRoots(Spec(s))
      BY <1>4, <1>7, <2>1 DEF PolicyRoots
    <2>2. ASSUME id \in PolicyRoots(Spec(s))
          PROVE  s.world.policy_limit \in Spec(s).policy_limits
      <3>1. PICK limit \in Spec(s).policy_limits, effective \in BOOLEAN :
                id = <<"policy_version", [policy_limit |-> limit, policy_effective |-> effective]>>
        BY <2>2 DEF PolicyRoots
      <3>2. id[2] = [policy_limit |-> limit, policy_effective |-> effective]
        BY <3>1
      <3>3. facts.policy_limit = limit
        BY <1>5, <3>2
      <3> QED
        BY <1>6, <3>3
    <2> QED
      BY <2>1, <2>2
  <1> QED
    BY <1>5, <1>8, <1>9 DEF id

LEMMA PolicyEventIs ==
    ASSUME NEW s, s.workflow \in {"payment", "credit"}, Informed(s),
           s.world.policy_effective \in BOOLEAN,
           NEW name \in DOMAIN Spec(s).mechanisms,
           Spec(s).mechanisms[name].entity = "policy_version",
           NEW j, Slots(s)[j] = name, NEW p, NEW e, Says(s, j, p, e),
           NEW values, values = [o \in Spec(s).mechanisms[name].observes |-> Observed(o, s.world)]
    PROVE  _policy_event_valid(Spec(s), name, e, values)
               <=> s.world.policy_limit \in Spec(s).policy_limits
  <1> DEFINE id == entity_identifier(Spec(s), s.world, "policy_version")
             observes == Spec(s).mechanisms[name].observes
  <1>1. Mechanism(s, j) = Spec(s).mechanisms[name]
    BY DEF Mechanism
  <1>2. /\ e.attributes.policy_version_id = id
        /\ e.attributes.binding_proof
               = binding_proof(Spec(s), s.world, Spec(s).mechanisms[name], e.action)
    BY <1>1, SaidAttributes
  <1>3. e.attributes.binding_proof.target = id
    BY <1>2 DEF binding_proof
  <1>4. /\ \A o \in PolicyNames : Observed(o, id[2]) = Observed(o, s.world)
        /\ id \in PolicyRoots(Spec(s)) <=> s.world.policy_limit \in Spec(s).policy_limits
    BY PolicyRead
  <1>5. observes \subseteq PolicyNames
    BY PolicyMechanisms
  <1> HIDE DEF id
  <1>6. values = observe(Spec(s).mechanisms[name], id[2])
    BY <1>4, <1>5 DEF observe
  <1> QED
    BY <1>2, <1>3, <1>4, <1>6 DEF _policy_event_valid

-----------------------------------------------------------------------------
(* A whole chain, event by event. *)

Follows(events, i) ==
    IF i = 1 THEN events[i].sequence = 0 + 1 /\ events[i].previous = Genesis
    ELSE events[i].sequence = events[i - 1].sequence + 1 /\ events[i].previous = events[i - 1].hash

LEMMA VerifyIs ==
    ASSUME NEW S, NEW events \in Seq(S), NEW run, \A i \in DOMAIN events : events[i].run = run
    PROVE  verify(events) <=> \A i \in DOMAIN events : Follows(events, i)
  <1>1. ASSUME NEW i \in DOMAIN events
        PROVE  LET end == ChainEnd(SubSeq(events, 1, i - 1), events[i].run)
               IN  events[i].sequence = end.sequence + 1 /\ events[i].previous = end.hash
                      <=> Follows(events, i)
    <2> DEFINE before == SubSeq(events, 1, i - 1)
    <2>1. i \in 1 .. Len(events) /\ Len(events) \in Nat /\ i - 1 \in Nat
      OBVIOUS
    <2>2. /\ before \in Seq(S)
          /\ Len(before) = i - 1
          /\ \A l \in 1 .. i - 1 : before[l] = events[l]
      BY <2>1
    <2> HIDE DEF before
    <2>3. \A l \in DOMAIN before : before[l].run = run
      BY <2>1, <2>2
    <2>4. ChainEnd(before, run) =
             IF before = <<>> THEN [sequence |-> 0, hash |-> Genesis]
             ELSE [sequence |-> before[Len(before)].sequence, hash |-> before[Len(before)].hash]
      BY <2>2, <2>3, ChainEndOfOne
    <2>5. CASE i = 1
      <3>1. before = <<>>
        BY <2>2, <2>5
      <3>2. ChainEnd(before, run) = [sequence |-> 0, hash |-> Genesis]
        BY <2>4, <3>1
      <3> QED
        BY <2>5, <3>2 DEF Follows, before
    <2>6. CASE i # 1
      <3>1. before # <<>> /\ Len(before) = i - 1 /\ i - 1 \in 1 .. i - 1
        BY <2>1, <2>2, <2>6
      <3>2. before[i - 1] = events[i - 1]
        BY <2>2, <3>1
      <3>3. ChainEnd(before, run) =
                [sequence |-> events[i - 1].sequence, hash |-> events[i - 1].hash]
        BY <2>4, <3>1, <3>2
      <3> QED
        BY <2>6, <3>3 DEF Follows, before
    <2> QED
      BY <2>5, <2>6
  <1> QED
    BY <1>1 DEF verify

LEMMA HeldIsChained ==
    ASSUME NEW s, NEW k \in Nat, NEW p, HoldsSlots(s, k, p)
    PROVE  verify(s.sink.events)
  <1> DEFINE S == {SlotEvent(s, j, p) : j \in Contracted(s, k)}
             events == s.sink.events
  <1>1. events \in Seq(S)
    BY DEF HoldsSlots
  <1>2. /\ \A i \in DOMAIN events :
              /\ events[i].run = s.run
              /\ events[i].sequence = i
              /\ events[i].hash = Hash(s, i)
              /\ events[i].previous = Hash(s, i - 1)
        /\ DOMAIN events = 1 .. Number(s, k)
        /\ Number(s, k) \in Nat
    BY EventBelongs, NumberIsNat
  <1> HIDE DEF S, events
  <1>3. ASSUME NEW i \in DOMAIN events PROVE Follows(events, i)
    <2>1. CASE i = 1
      <3>1. i - 1 = 0 /\ Hash(s, 0) = Genesis
        BY <2>1 DEF Hash
      <3>2. events[1].sequence = 1 /\ events[1].previous = Genesis
        BY <1>2, <2>1, <3>1
      <3> QED
        BY <2>1, <3>2 DEF Follows
    <2>2. CASE i # 1
      <3>1. i - 1 \in DOMAIN events
        BY <1>2, <2>2
      <3> QED
        BY <1>2, <2>2, <3>1 DEF Follows
    <2> QED
      BY <2>1, <2>2
  <1> QED
    BY <1>1, <1>2, <1>3, VerifyIs DEF events

-----------------------------------------------------------------------------
(* What verify_run_evidence asks of the events of an honest run. *)

LEMMA ObservedFact ==
    ASSUME NEW o, NEW w,
           o \notin {"amount_redacted", "score_redacted", "policy_limit_redacted",
                     "policy_effective_present", "amount_domain_token", "score_domain_token",
                     "policy_state_domain_token"}
    PROVE  Observed(o, w) = w[o]
  <1>1. DOMAIN TokenSources =
            {"amount_domain_token", "score_domain_token", "policy_state_domain_token"}
    BY DEF TokenSources
  <1> QED
    BY <1>1 DEF Observed

(* A canonical event is the first slot's, and its digest is of what it observed. *)
LEMMA CanonicalSlot ==
    ASSUME NEW s, s.workflow \in {"payment", "credit"}, NEW j \in 1 .. LastSlot(s), NEW p, NEW e,
           Says(s, j, p, e)
    PROVE  /\ e.mechanism \in {"canonical_action", "canonical_application"} <=> j = 1
           /\ _verify_adapter_relations(Spec(s), e)
  <1>1. e.mechanism = Slots(s)[j]
    BY DEF Says
  <1>2. CASE s.workflow = "payment"
    <2>1. j \in 1 .. 16 /\ Spec(s) = PaymentSpec
      BY <1>2 DEF LastSlot, Spec
    <2>2. e.mechanism \in {"canonical_action", "canonical_application"} <=> j = 1
      BY <1>1, <1>2, <2>1, PaymentTable
    <2>3. ASSUME j = 1 PROVE e.attributes.digest = <<"digest", Values(e)["amount"]>>
      <3>1. SlotMore(s, j, p) = [digest |-> ActionDigest(s)] /\ Slots(s)[j] = "canonical_action"
        BY <1>2, <2>3, PaymentTable
      <3>2. e.attributes.digest = ActionDigest(s)
        BY <3>1, SaidAttributes
      <3>3. /\ Mechanism(s, j).observes = {"amount"}
            /\ SlotNames(s, j) = {"amount"}
        BY <1>2, <2>1, <2>3, <3>1, PaymentCatalogue, PaymentTable DEF Mechanism, AllNames
      <3>4. Values(e) = observation_values(Mechanism(s, j), s.world, SlotNames(s, j))
        BY SaidAttributes
      <3>5. Values(e)["amount"] = s.world["amount"]
        BY <3>3, <3>4, ObservedFact DEF observation_values
      <3> QED
        BY <2>1, <3>2, <3>5, SpecFields DEF ActionDigest
    <2> QED
      BY <2>1, <2>2, <2>3, SpecFields DEF _verify_adapter_relations
  <1>3. CASE s.workflow = "credit"
    <2>1. j \in 1 .. 14 /\ Spec(s) = CreditSpec
      BY <1>3 DEF LastSlot, Spec
    <2>2. e.mechanism \in {"canonical_action", "canonical_application"} <=> j = 1
      BY <1>1, <1>3, <2>1, CreditTable
    <2>3. ASSUME j = 1 PROVE e.attributes.digest = <<"digest", Values(e)["score"]>>
      <3>1. SlotMore(s, j, p) = [digest |-> ActionDigest(s)]
            /\ Slots(s)[j] = "canonical_application"
        BY <1>3, <2>3, CreditTable
      <3>2. e.attributes.digest = ActionDigest(s)
        BY <3>1, SaidAttributes
      <3>3. /\ Mechanism(s, j).observes = {"score"}
            /\ SlotNames(s, j) = {"score"}
        BY <1>3, <2>1, <2>3, <3>1, CreditCatalogue, CreditTable DEF Mechanism, AllNames
      <3>4. Values(e) = observation_values(Mechanism(s, j), s.world, SlotNames(s, j))
        BY SaidAttributes
      <3>5. Values(e)["score"] = s.world["score"]
        BY <3>3, <3>4, ObservedFact DEF observation_values
      <3> QED
        BY <2>1, <3>2, <3>5, SpecFields DEF ActionDigest
    <2> QED
      BY <2>1, <2>2, <2>3, SpecFields DEF _verify_adapter_relations
  <1> QED
    BY <1>2, <1>3

LEMMA BindingSaid ==
    ASSUME NEW s, NEW j, NEW p, NEW e, Says(s, j, p, e), Mechanism(s, j).entity # "unbound"
    PROVE  /\ _binding_valid_without_world(e, Mechanism(s, j))
           /\ e.attributes.binding_proof.target
                  = entity_identifier(Spec(s), s.world, Mechanism(s, j).entity)
           /\ e.attributes.binding_proof.target[1] = Mechanism(s, j).entity
  <1>1. e.attributes.binding_proof = binding_proof(Spec(s), s.world, Mechanism(s, j), e.action)
    BY SaidAttributes
  <1>2. /\ e.attributes.binding_proof.anchor = e.action
        /\ e.attributes.binding_proof.target
               = entity_identifier(Spec(s), s.world, Mechanism(s, j).entity)
    BY <1>1 DEF binding_proof
  <1>3. e.attributes.binding_proof.target[1] = Mechanism(s, j).entity
    BY <1>2 DEF entity_identifier
  <1> QED
    BY <1>2, <1>3 DEF _binding_valid_without_world

LEMMA ToldEntities ==
    ASSUME NEW s, NEW k, NEW p, NEW events, Tell(s, k, p, ToSet(events))
    PROVE  OneEntityEach(events)
  <1>1. ASSUME NEW e \in ToSet(events), "binding_proof" \in DOMAIN e.attributes
        PROVE  \E entity : e.attributes.binding_proof.target
                               = entity_identifier(Spec(s), s.world, entity)
                           /\ e.attributes.binding_proof.target[1] = entity
    <2>1. PICK j \in Contracted(s, k) : Says(s, j, p, e)
      BY <1>1 DEF Tell
    <2>2. Mechanism(s, j).entity # "unbound"
      BY <1>1, <2>1, SaidAttributes
    <2> QED
      BY <2>1, <2>2, BindingSaid
  <1> QED
    BY <1>1 DEF OneEntityEach

LEMMA ToldIdentity ==
    ASSUME NEW s, NEW k, NEW p, NEW events, Tell(s, k, p, ToSet(events))
    PROVE  OneIdentity(events, s.contract)
  <1>1. ASSUME NEW e \in ToSet(events)
        PROVE  /\ e.mechanism \in s.contract
               /\ e.action = _action_identity(Spec(s), s.world)
               /\ e.run = s.run
               /\ e.attributes.root_digest = root_digest(Spec(s), s.world)
    <2>1. PICK j \in Contracted(s, k) : Says(s, j, p, e)
      BY <1>1 DEF Tell
    <2> QED
      BY <2>1, SaidAttributes DEF Says, Contracted
  <1> QED
    BY <1>1 DEF OneIdentity

(* Only an approval of something else carries another digest than the action's. *)
LEMMA DigestSaid ==
    ASSUME NEW s, s.workflow \in {"payment", "credit"}, NEW j \in 1 .. LastSlot(s), NEW p, NEW e,
           Says(s, j, p, e), "digest" \in DOMAIN e.attributes
    PROVE  e.attributes.digest =
               IF s.workflow = "payment" /\ j = 7 THEN ApprovedDigest(s) ELSE ActionDigest(s)
  <1>1. /\ "digest" \in DOMAIN SlotMore(s, j, p)
        /\ e.attributes.digest = SlotMore(s, j, p).digest
    BY SaidAttributes
  <1>2. DOMAIN NoMore = {}
    BY DEF NoMore
  <1>3. CASE s.workflow = "payment"
    <2>1. j \in {1, 7, 13}
      BY <1>1, <1>2, <1>3 DEF SlotMore
    <2> QED
      BY <1>1, <1>3, <2>1, PaymentTable
  <1>4. CASE s.workflow = "credit"
    <2>1. j = 1
      BY <1>1, <1>2, <1>4 DEF SlotMore
    <2> QED
      BY <1>1, <1>4, <2>1, CreditTable
  <1> QED
    BY <1>3, <1>4

LEMMA RecordSaid ==
    ASSUME NEW s, s.workflow \in {"payment", "credit"}, NEW j \in 1 .. LastSlot(s), NEW p, NEW e,
           Slots(s)[j] \in DOMAIN Spec(s).mechanisms,
           Says(s, j, p, e), "decision_record_bound" \in DOMAIN Values(e),
           Values(e).decision_record_bound
    PROVE  e.attributes.stored_application = e.action
  <1>1. Values(e) = observation_values(Mechanism(s, j), s.world, SlotNames(s, j))
    BY SaidAttributes
  <1>2. "decision_record_bound" \in Mechanism(s, j).observes
    BY <1>1 DEF observation_values
  <1>3. Values(e)["decision_record_bound"] = s.world["decision_record_bound"]
    BY <1>1, <1>2, ObservedFact DEF observation_values
  <1>4. s.workflow = "credit" /\ Slots(s)[j] = "decision_receipt"
    BY <1>2, PaymentCatalogue, CreditCatalogue DEF Mechanism, Spec
  <1>5. j = 11
    BY <1>4, CreditTable DEF LastSlot
  <1>6. SlotMore(s, 11, p) = [stored_application |-> StoredApplication(s)]
    BY <1>4, CreditTable
  <1>7. e.attributes.stored_application = StoredApplication(s)
    BY <1>5, <1>6, SaidAttributes
  <1>8. StoredApplication(s) = _action_identity(Spec(s), s.world)
    BY <1>3 DEF StoredApplication
  <1> QED
    BY <1>7, <1>8 DEF Says

LEMMA CrossReceiptsAre ==
    ASSUME NEW s, s.workflow \in {"payment", "credit"}, NEW p, NEW events,
           NEW k \in {LastSlot(s) - 1, LastSlot(s)},
           Tell(s, k, p, ToSet(events)), TellAll(s, k, p, ToSet(events)),
           s.contract \subseteq DOMAIN Spec(s).mechanisms
    PROVE  _verify_cross_receipts(Spec(s), events) <=>
               (s.workflow = "payment" /\ {"canonical_action", "approval_bound_receipt"} \subseteq s.contract
                    => s.world.approval_action_bound)
  <1>1. \A j \in Contracted(s, k) : /\ j \in 1 .. LastSlot(s)
                                    /\ Slots(s)[j] \in DOMAIN Spec(s).mechanisms
                                    /\ Slots(s)[j] \in s.contract
    BY DEF Contracted, LastSlot
  <1>2. \A e \in ToSet(events) :
            ("decision_record_bound" \in DOMAIN Values(e) /\ Values(e).decision_record_bound)
                => e.attributes.stored_application = e.action
    BY <1>1, RecordSaid DEF Tell
  <1>3. ASSUME s.workflow = "payment" /\ {"canonical_action", "approval_bound_receipt"} \subseteq s.contract
                   => s.world.approval_action_bound
        PROVE  _verify_cross_receipts(Spec(s), events)
    <2> SUFFICES ASSUME NEW d \in ToSet(events), NEW e \in ToSet(events),
                        d.mechanism \in {"canonical_action", "canonical_application"},
                        "digest" \in DOMAIN d.attributes, "digest" \in DOMAIN e.attributes
                 PROVE  d.attributes.digest = e.attributes.digest
      BY <1>2 DEF _verify_cross_receipts
    <2>1. PICK i \in Contracted(s, k) : Says(s, i, p, d)
      BY DEF Tell
    <2>2. PICK j \in Contracted(s, k) : Says(s, j, p, e)
      BY DEF Tell
    <2>3. i = 1 /\ d.attributes.digest = ActionDigest(s)
      BY <1>1, <2>1, CanonicalSlot, DigestSaid
    <2>4. CASE s.workflow = "payment" /\ j = 7
      <3>1. Slots(s)[1] = "canonical_action" /\ Slots(s)[7] = "approval_bound_receipt"
        BY <2>4, PaymentTable
      <3>2. s.world.approval_action_bound
        BY <1>1, <1>3, <2>1, <2>2, <2>3, <2>4, <3>1
      <3> QED
        BY <1>1, <2>2, <2>3, <2>4, <3>2, DigestSaid DEF ApprovedDigest
    <2>5. CASE ~ (s.workflow = "payment" /\ j = 7)
      BY <1>1, <2>2, <2>3, <2>5, DigestSaid
    <2> QED
      BY <2>4, <2>5
  <1>4. ASSUME _verify_cross_receipts(Spec(s), events), s.workflow = "payment",
               {"canonical_action", "approval_bound_receipt"} \subseteq s.contract
        PROVE  s.world.approval_action_bound
    <2>1. Slots(s)[1] = "canonical_action" /\ Slots(s)[7] = "approval_bound_receipt"
      BY <1>4, PaymentTable
    <2>2. 1 \in Contracted(s, k) /\ 7 \in Contracted(s, k)
      BY <1>4, <2>1 DEF Contracted, LastSlot
    <2>3. PICK d \in ToSet(events) : Says(s, 1, p, d)
      BY <2>2 DEF TellAll
    <2>4. PICK e \in ToSet(events) : Says(s, 7, p, e)
      BY <2>2 DEF TellAll
    <2>5. /\ SlotMore(s, 1, p) = [digest |-> ActionDigest(s)]
          /\ SlotMore(s, 7, p) = [digest |-> ApprovedDigest(s)]
      BY <1>4, PaymentTable
    <2>6. /\ "digest" \in DOMAIN d.attributes /\ d.attributes.digest = ActionDigest(s)
          /\ "digest" \in DOMAIN e.attributes /\ e.attributes.digest = ApprovedDigest(s)
      BY <2>3, <2>4, <2>5, SaidAttributes
    <2>7. d.mechanism = "canonical_action"
      BY <2>1, <2>3 DEF Says
    <2>8. ActionDigest(s) = ApprovedDigest(s)
      BY <1>4, <2>6, <2>7 DEF _verify_cross_receipts
    <2>9. ActionDigest(s) # <<"other-action">>
      <3>1. Len(ActionDigest(s)) = 2 /\ Len(<<"other-action">>) = 1
        BY DEF ActionDigest
      <3> QED
        BY <3>1
    <2> QED
      BY <2>8, <2>9 DEF ApprovedDigest
  <1> QED
    BY <1>3, <1>4

LEMMA ReplayIsValid ==
    ASSUME NEW s, s.workflow \in {"payment", "credit"}, NEW e,
           Says(s, LastSlot(s), KnownProof(s), e)
    PROVE  _replay_proof_valid(Spec(s), Spec(s).replay, e.attributes) <=>
               (s.workflow = "payment" => s.world.ledger_commit_count = 2)
  <1> DEFINE p == KnownProof(s)
  <1>1. SlotMore(s, LastSlot(s), p) = [replay_proof |-> p]
    BY PaymentTable, CreditTable DEF LastSlot
  <1>2. "replay_proof" \in DOMAIN e.attributes /\ e.attributes.replay_proof = p
    BY <1>1, SaidAttributes
  <1>3. /\ Len(p.replay_values) = p.trials
        /\ p.trials = Spec(s).min_trials /\ Spec(s).min_trials \in Nat
        /\ p.prefix_equal
        /\ p.verifier_passed <=> (s.workflow = "payment" => s.world.ledger_commit_count = 2)
    <2>1. CASE s.workflow = "payment"
      <3>1. p = replay_proof("tool_response", s.world.tool_response, <<"timeout">>, TRUE,
                             s.world.ledger_commit_count = 2)
        BY <2>1 DEF KnownProof
      <3>2. p.replay_values = <<"timeout">> /\ p.trials = Len(<<"timeout">>) /\ p.prefix_equal
        BY <3>1 DEF replay_proof
      <3>3. p.verifier_passed = (s.world.ledger_commit_count = 2)
        BY <3>1 DEF replay_proof
      <3>4. Len(<<"timeout">>) = 1 /\ Spec(s).min_trials = 1
        BY <2>1, SpecFields DEF Spec
      <3> DEFINE count == s.world.ledger_commit_count
      <3> HIDE DEF p, count
      <3>5. p.verifier_passed <=> count = 2
        BY <3>3 DEF count
      <3>6. p.verifier_passed <=> (s.workflow = "payment" => count = 2)
        BY <2>1, <3>5
      <3>7. /\ Len(p.replay_values) = p.trials
            /\ p.trials = Spec(s).min_trials /\ Spec(s).min_trials \in Nat
        BY <3>2, <3>4
      <3> QED
        BY <3>2, <3>6, <3>7 DEF count
    <2>2. CASE s.workflow = "credit"
      <3> DEFINE values == [t \in 1 .. 3 |-> s.ablation]
      <3>1. p = replay_proof("model_decision", s.world.model_decision, values, TRUE, TRUE)
        BY <2>2 DEF KnownProof
      <3>2. Len(values) = 3
        OBVIOUS
      <3> HIDE DEF values
      <3>3. p.replay_values = values /\ p.trials = Len(values) /\ p.prefix_equal
            /\ p.verifier_passed
        BY <3>1 DEF replay_proof
      <3>4. Spec(s).min_trials = 3
        BY <2>2, SpecFields DEF Spec
      <3> HIDE DEF p
      <3> QED
        BY <2>2, <3>2, <3>3, <3>4
    <2> QED
      BY <2>1, <2>2
  <1> HIDE DEF p
  <1> QED
    BY <1>2, <1>3 DEF _replay_proof_valid

(* What Acceptable asks for one contracted mechanism. *)
AcceptableMechanism(s, threat, name) ==
    /\ mechanism_allowed(Spec(s), threat, name)
    /\ validate_mechanism_adapter(Spec(s), name)
    /\ Spec(s).mechanisms[name].requires \subseteq s.contract
    /\ Spec(s).mechanisms[name].entity = "policy_version" =>
           s.world.policy_limit \in Spec(s).policy_limits
    /\ name = Spec(s).coverage => bypass_edges(Spec(s), threat) = {}
    /\ name = Spec(s).replay =>
           /\ s.phase = "replayed"
           /\ s.workflow = "payment" => s.world.ledger_commit_count = 2

LEMMA HonestMechanism ==
    ASSUME NEW r, NEW s, RunKnown(r, s), NEW k \in {LastSlot(s) - 1, LastSlot(s)},
           k = LastSlot(s) <=> s.phase = "replayed", NEW events,
           Tell(s, k, KnownProof(s), ToSet(events)), TellAll(s, k, KnownProof(s), ToSet(events)),
           NEW threat \in DOMAIN Threats(Spec(s)), NEW name \in s.contract
    PROVE  LET mechanism == Spec(s).mechanisms[name]
               mine == OfMechanism(events, name)
           IN  AcceptableMechanism(s, threat, name) <=>
                   /\ mine # {}
                   /\ mechanism_allowed(Spec(s), threat, name)
                   /\ validate_mechanism_adapter(Spec(s), name)
                   /\ mechanism.requires \subseteq s.contract
                   /\ \A e \in mine : _verify_adapter_relations(Spec(s), e)
                   /\ ~ observation_conflict(mine)
                   /\ ObservationsComplete(mechanism, mine)
                   /\ mechanism.entity # "unbound" =>
                         \E e \in mine : _binding_valid_without_world(e, mechanism)
                   /\ mechanism.entity = "policy_version" =>
                         \E e \in mine : _policy_event_valid(Spec(s), name, e, Observations(mine))
                   /\ name = Spec(s).coverage => Mediated(Spec(s), threat, mine)
                   /\ IsReplay(Spec(s), name) =>
                         \E e \in mine : _replay_proof_valid(Spec(s), name, e.attributes)
  <1> DEFINE spec == Spec(s)
             p == KnownProof(s)
             mechanism == spec.mechanisms[name]
             mine == OfMechanism(events, name)
             absent == name = spec.replay /\ k = LastSlot(s) - 1
  <1> SUFFICES ASSUME validate_mechanism_adapter(spec, name)
               PROVE  AcceptableMechanism(s, threat, name) <=>
                          /\ mine # {}
                          /\ mechanism_allowed(spec, threat, name)
                          /\ mechanism.requires \subseteq s.contract
                          /\ \A e \in mine : _verify_adapter_relations(spec, e)
                          /\ ~ observation_conflict(mine)
                          /\ ObservationsComplete(mechanism, mine)
                          /\ mechanism.entity # "unbound" =>
                                \E e \in mine : _binding_valid_without_world(e, mechanism)
                          /\ mechanism.entity = "policy_version" =>
                                \E e \in mine :
                                    _policy_event_valid(spec, name, e, Observations(mine))
                          /\ name = spec.coverage => Mediated(spec, threat, mine)
                          /\ name = spec.replay =>
                                \E e \in mine : _replay_proof_valid(spec, name, e.attributes)
    <2>1. name \in DOMAIN spec.mechanisms /\ s.workflow \in {"payment", "credit"}
      BY DEF RunKnown, RunFixed, WellFormed
    <2>2. ASSUME validate_mechanism_adapter(spec, name)
          PROVE  IsReplay(spec, name) <=> name = spec.replay
      BY <2>1, <2>2, ReplaysAre, SpecFields DEF validate_mechanism_adapter, Spec, Replays
    <2> HIDE DEF mine, mechanism, spec
    <2> QED
      BY <2>2 DEF AcceptableMechanism, mine, mechanism, spec
  <1>1. /\ s.workflow \in {"payment", "credit"} /\ Informed(s)
        /\ s.world.policy_effective \in BOOLEAN
        /\ s.contract \subseteq DOMAIN spec.mechanisms
        /\ LastSlot(s) \in {14, 16}
    BY DEF RunKnown, RunFixed, WellFormed, LastSlot
  <1>2. /\ \A e \in mine : \E j \in Contracted(s, k) : Says(s, j, p, e) /\ Slots(s)[j] = name
        /\ absent => mine = {}
        /\ ~ absent => mine # {} /\ ObservedNames(mine) = mechanism.observes
    BY <1>1, ToldMechanism
  <1>3. \A j \in Contracted(s, k) : j \in 1 .. LastSlot(s)
    BY <1>1 DEF Contracted
  <1>4. Tell(s, k, p, mine)
    BY <1>2 DEF Tell
  <1>5. /\ \A e \in mine : _verify_adapter_relations(spec, e)
        /\ ~ observation_conflict(mine)
    BY <1>1, <1>2, <1>3, <1>4, CanonicalSlot, ToldValues
  <1>6. absent => ~ AcceptableMechanism(s, threat, name)
    BY <1>1 DEF AcceptableMechanism
  <1>7. ASSUME ~ absent
        PROVE  /\ ObservationsComplete(mechanism, mine)
               /\ mechanism.entity # "unbound" =>
                     \E e \in mine : _binding_valid_without_world(e, mechanism)
               /\ mechanism.entity = "policy_version" =>
                     ((\E e \in mine : _policy_event_valid(spec, name, e, Observations(mine)))
                         <=> s.world.policy_limit \in spec.policy_limits)
               /\ name = spec.coverage =>
                     (Mediated(spec, threat, mine) <=> bypass_edges(spec, threat) = {})
               /\ name = spec.replay =>
                     ((\E e \in mine : _replay_proof_valid(spec, name, e.attributes))
                         <=> (s.workflow = "payment" => s.world.ledger_commit_count = 2))
    <2>1. PICK d \in mine : TRUE
      BY <1>2, <1>7
    <2>2. \A e \in mine : \E j \in 1 .. LastSlot(s) :
              Says(s, j, p, e) /\ Slots(s)[j] = name /\ Mechanism(s, j) = mechanism
      BY <1>2, <1>3 DEF Mechanism
    <2> HIDE DEF mine
    <2>3. mechanism.entity # "unbound" =>
              \E e \in mine : _binding_valid_without_world(e, mechanism)
      BY <2>1, <2>2, BindingSaid
    <2>4. ASSUME mechanism.entity = "policy_version"
          PROVE  (\E e \in mine : _policy_event_valid(spec, name, e, Observations(mine)))
                     <=> s.world.policy_limit \in spec.policy_limits
      <3>1. Observations(mine) = [o \in mechanism.observes |-> Observed(o, s.world)]
        <4>1. /\ \A o \in ObservedNames(mine) : Observations(mine)[o] = Observed(o, s.world)
              /\ ObservedNames(mine) = mechanism.observes
          BY <1>2, <1>4, <1>7, ToldValues
        <4>2. Observations(mine) = [o \in ObservedNames(mine) |-> Observations(mine)[o]]
          BY DEF Observations
        <4> QED
          BY <4>1, <4>2
      <3>2. \A e \in mine : _policy_event_valid(spec, name, e, Observations(mine))
                                <=> s.world.policy_limit \in spec.policy_limits
        BY <1>1, <2>2, <2>4, <3>1, PolicyEventIs
      <3> QED
        BY <2>1, <3>2
    <2>5. ASSUME name = spec.coverage
          PROVE  Mediated(spec, threat, mine) <=> bypass_edges(spec, threat) = {}
      <3>1. d.attributes.declared_mediator = spec.mediator
        BY <2>1, <2>2, <2>5, SaidAttributes
      <3> QED
        BY <1>1, <2>1, <3>1, MediatedIs
    <2>6. ASSUME name = spec.replay
          PROVE  (\E e \in mine : _replay_proof_valid(spec, name, e.attributes))
                     <=> (s.workflow = "payment" => s.world.ledger_commit_count = 2)
      <3>1. \A e \in mine : Says(s, LastSlot(s), p, e)
        BY <1>1, <2>2, <2>6, SlotOfName
      <3>2. \A e \in mine : _replay_proof_valid(spec, name, e.attributes)
                <=> (s.workflow = "payment" => s.world.ledger_commit_count = 2)
        BY <1>1, <2>6, <3>1, ReplayIsValid
      <3> QED
        BY <2>1, <3>2
    <2>7. ObservationsComplete(mechanism, mine)
      BY <1>2, <1>7 DEF ObservationsComplete
    <2> QED
      BY <2>3, <2>4, <2>5, <2>6, <2>7
  <1>8. name = spec.replay /\ ~ absent => s.phase = "replayed"
    BY <1>1
  <1> HIDE DEF mine, mechanism, absent
  <1>9. CASE absent
    BY <1>2, <1>6, <1>9 DEF mine
  <1>10. CASE ~ absent
    BY <1>2, <1>5, <1>7, <1>8, <1>10 DEF mine, mechanism, AcceptableMechanism
  <1> QED
    BY <1>9, <1>10

LEMMA HonestIs ==
    ASSUME NEW r, NEW s, RunKnown(r, s), s.phase \in {"reported", "replayed"}, s.contract # {},
           NEW threat \in DOMAIN Threats(Spec(s))
    PROVE  verify_run_evidence(Spec(s), s.sink.events, s.contract, threat) <=>
               /\ \A name \in s.contract : AcceptableMechanism(s, threat, name)
               /\ "approval_bound_receipt" \in s.contract => s.world.approval_action_bound
  <1> DEFINE k == Phases(s)[s.phase]
             p == KnownProof(s)
             events == s.sink.events
             Verified(name) ==
                 LET mechanism == Spec(s).mechanisms[name]
                     mine == OfMechanism(events, name)
                 IN  /\ mine # {}
                     /\ mechanism_allowed(Spec(s), threat, name)
                     /\ validate_mechanism_adapter(Spec(s), name)
                     /\ mechanism.requires \subseteq s.contract
                     /\ \A e \in mine : _verify_adapter_relations(Spec(s), e)
                     /\ ~ observation_conflict(mine)
                     /\ ObservationsComplete(mechanism, mine)
                     /\ mechanism.entity # "unbound" =>
                           \E e \in mine : _binding_valid_without_world(e, mechanism)
                     /\ mechanism.entity = "policy_version" =>
                           \E e \in mine : _policy_event_valid(Spec(s), name, e, Observations(mine))
                     /\ name = Spec(s).coverage => Mediated(Spec(s), threat, mine)
                     /\ IsReplay(Spec(s), name) =>
                           \E e \in mine : _replay_proof_valid(Spec(s), name, e.attributes)
  <1>1. /\ s.workflow \in {"payment", "credit"}
        /\ s.contract \subseteq DOMAIN Spec(s).mechanisms
        /\ HoldsSlots(s, k, p)
    BY DEF RunKnown, RunFixed, WellFormed
  <1>2. /\ k \in {LastSlot(s) - 1, LastSlot(s)} /\ k \in Nat
        /\ k = LastSlot(s) <=> s.phase = "replayed"
    BY <1>1 DEF LastSlot, Phases, PaymentPhases, CreditPhases
  <1>3. Tell(s, k, p, ToSet(events)) /\ TellAll(s, k, p, ToSet(events))
    BY <1>1, <1>2, HoldsTells
  <1>4. verify(events) /\ OneIdentity(events, s.contract) /\ OneEntityEach(events)
    BY <1>1, <1>2, <1>3, HeldIsChained, ToldIdentity, ToldEntities
  <1>5. \A name \in s.contract : AcceptableMechanism(s, threat, name) <=> Verified(name)
    BY <1>2, <1>3, HonestMechanism
  <1>6. _verify_cross_receipts(Spec(s), events) <=>
            (s.workflow = "payment"
                 /\ {"canonical_action", "approval_bound_receipt"} \subseteq s.contract
             => s.world.approval_action_bound)
    BY <1>1, <1>2, <1>3, CrossReceiptsAre
  <1>7. verify_run_evidence(Spec(s), events, s.contract, threat) <=>
            /\ verify(events) /\ events # <<>> /\ OneIdentity(events, s.contract)
            /\ \A name \in s.contract : Verified(name)
            /\ OneEntityEach(events)
            /\ _verify_cross_receipts(Spec(s), events)
    BY DEF verify_run_evidence
  <1>8. (\A name \in s.contract : Verified(name)) => events # <<>>
    <2>1. ASSUME events = <<>> PROVE \A name : OfMechanism(events, name) = {}
      BY <2>1 DEF OfMechanism, ToSet
    <2> QED
      BY <2>1
  <1>9. ASSUME \A name \in s.contract : AcceptableMechanism(s, threat, name),
               "approval_bound_receipt" \in s.contract
        PROVE  s.workflow = "payment" /\ "canonical_action" \in s.contract
    <2>1. s.workflow = "payment"
      BY <1>1, <1>9, CreditCatalogue DEF Spec
    <2>2. PaymentMechanisms.approval_bound_receipt.requires = {"canonical_action"}
      BY DEF PaymentMechanisms, Channel
    <2>3. Spec(s).mechanisms["approval_bound_receipt"].requires = {"canonical_action"}
      BY <2>1, <2>2, PaymentCatalogue DEF Spec
    <2> QED
      BY <1>9, <2>1, <2>3 DEF AcceptableMechanism
  <1> HIDE DEF Verified, events, k, p
  <1> QED
    BY <1>4, <1>5, <1>6, <1>7, <1>8, <1>9 DEF events

LEMMA KnownIsVerified == ASSUME RunsKnown PROVE HonestEvidenceVerifies
  <1> SUFFICES ASSUME NEW r \in Runs, Finished(r), runs[r].contract # {},
                      NEW threat \in DOMAIN Threats(Spec(runs[r]))
               PROVE  Accepted(r, threat, runs[r].sink.events) <=> Acceptable(r, threat)
    BY DEF HonestEvidenceVerifies
  <1> DEFINE s == runs[r]
  <1>1. RunKnown(r, s) /\ s.phase \in {"reported", "replayed"}
    BY DEF RunsKnown, Finished, Idle, Failed
  <1>2. Accepted(r, threat, s.sink.events) <=>
            /\ \A name \in s.contract : AcceptableMechanism(s, threat, name)
            /\ "approval_bound_receipt" \in s.contract => s.world.approval_action_bound
    BY <1>1, HonestIs DEF Accepted
  <1>3. Acceptable(r, threat) <=>
            /\ \A name \in s.contract : AcceptableMechanism(s, threat, name)
            /\ "approval_bound_receipt" \in s.contract => s.world.approval_action_bound
    BY DEF Acceptable, AcceptableMechanism, validate_mechanism_adapter
  <1> QED
    BY <1>2, <1>3

(* The verifier that does not see the world accepts the whole evidence of an      *)
(* honest run exactly when it is acceptable: for every contract, world and threat *)
(* model, and whatever the other runs do (verify_run_evidence).                   *)
THEOREM HonestEvidenceIsVerified == RunsSpec => []HonestEvidenceVerifies
  BY RunsAreKnown, KnownIsVerified, PTL

-----------------------------------------------------------------------------
(* Events signed again. *)

LEMMA LeastNumber ==
    ASSUME NEW N \in SUBSET Nat, N # {}
    PROVE  \E n \in N : \A m \in N : n <= m
  <1>1. PICK n \in N : \A m \in N : <<m, n>> \notin OpToRel(<, Nat)
    BY WFMin, NatLessThanWellFounded, Zenon
  <1>2. \A m \in N : ~ (m < n)
    BY <1>1, Zenon DEF OpToRel
  <1> QED
    BY <1>2

Resigned(kept, events, sink, n) == IF n \in kept THEN emit(sink, events[n]) ELSE sink

Sinks(first, kept, events, length, sinks) ==
    sinks = [n \in 0 .. length |->
                IF n = 0 THEN first ELSE Resigned(kept, events, sinks[n - 1], n)]

LEMMA SinksExist ==
    ASSUME NEW first, NEW kept, NEW events, NEW length \in Nat
    PROVE  \E sinks : Sinks(first, kept, events, length, sinks)
  <1> DEFINE bad == {n \in Nat : ~ \E sinks : Sinks(first, kept, events, n, sinks)}
  <1> SUFFICES ASSUME bad # {} PROVE FALSE
    OBVIOUS
  <1>1. PICK n \in bad : \A m \in bad : n <= m
    BY LeastNumber
  <1>2. n \in Nat /\ ~ \E sinks : Sinks(first, kept, events, n, sinks)
    BY <1>1
  <1>3. CASE n = 0
    <2> DEFINE sinks == [i \in 0 .. 0 |-> first]
    <2>1. Sinks(first, kept, events, 0, sinks)
      BY DEF Sinks
    <2> QED
      BY <1>2, <1>3, <2>1
  <1>4. CASE n # 0
    <2>1. n - 1 \in Nat /\ n - 1 \notin bad
      BY <1>1, <1>2, <1>4
    <2>2. PICK before : Sinks(first, kept, events, n - 1, before)
      BY <2>1
    <2> DEFINE sinks == [i \in 0 .. n |->
                             IF i = n THEN Resigned(kept, events, before[n - 1], n) ELSE before[i]]
    <2> HIDE DEF bad
    <2>3. \A i \in 0 .. n - 1 :
              before[i] = IF i = 0 THEN first ELSE Resigned(kept, events, before[i - 1], i)
      BY <2>2 DEF Sinks
    <2>4. ASSUME NEW i \in 0 .. n
          PROVE  sinks[i] = IF i = 0 THEN first ELSE Resigned(kept, events, sinks[i - 1], i)
      <3>1. CASE i = n
        <4>1. sinks[i] = Resigned(kept, events, before[n - 1], n) /\ sinks[n - 1] = before[n - 1]
          BY <1>2, <1>4, <2>1, <3>1
        <4> QED
          BY <1>4, <3>1, <4>1
      <3>2. CASE i # n
        <4>1. /\ i \in 0 .. n - 1 /\ sinks[i] = before[i]
              /\ i # 0 => sinks[i - 1] = before[i - 1]
          BY <1>2, <3>2
        <4> QED
          BY <2>3, <4>1
      <3> QED
        BY <3>1, <3>2
    <2>5. sinks = [i \in 0 .. n |-> sinks[i]]
      OBVIOUS
    <2> HIDE DEF sinks
    <2>6. Sinks(first, kept, events, n, sinks)
      BY <2>4, <2>5 DEF Sinks
    <2> QED
      BY <1>2, <2>6
  <1> QED
    BY <1>3, <1>4

(* The mechanisms of a stream, all enabled when it is signed again. *)
Signed(events) == {events[i].mechanism : i \in DOMAIN events}

LEMMA ResignIs ==
    ASSUME NEW id, NEW events, Len(events) \in Nat, NEW kept
    PROVE  \E sinks :
               /\ sinks[0] = EventSink(id, Signed(events))
               /\ \A n \in 1 .. Len(events) : sinks[n] = Resigned(kept, events, sinks[n - 1], n)
               /\ resign_with_filter(id, events, kept) = sinks[Len(events)]
  <1> DEFINE first == EventSink(id, Signed(events))
             sinks == CHOOSE sinks : Sinks(first, kept, events, Len(events), sinks)
  <1>1. Sinks(first, kept, events, Len(events), sinks)
    BY SinksExist
  <1>2. resign_with_filter(id, events, kept) = sinks[Len(events)]
    BY DEF resign_with_filter, Sinks, Resigned, Signed
  <1> HIDE DEF sinks, first
  <1>3. /\ sinks[0] = first
        /\ \A n \in 1 .. Len(events) : sinks[n] = Resigned(kept, events, sinks[n - 1], n)
    BY <1>1 DEF Sinks
  <1> QED
    BY <1>2, <1>3 DEF first

(* The place of a kept event among the kept ones. *)
Earlier(kept, n) == kept \cap (1 .. n)

Place(kept, n) == Cardinality(Earlier(kept, n))

HashOf(id, run, n) == IF n = 0 THEN Genesis ELSE <<id, run, n>>

(* The event, with the place it has among the kept ones for its number. *)
Refiled(id, events, kept, n) ==
    [run |-> events[n].run, sequence |-> Place(kept, n), mechanism |-> events[n].mechanism,
     action |-> events[n].action, attributes |-> events[n].attributes,
     previous |-> HashOf(id, events[n].run, Place(kept, n) - 1),
     hash |-> HashOf(id, events[n].run, Place(kept, n))]

RefiledEvents(id, events, kept) == {Refiled(id, events, kept, n) : n \in kept}

LEMMA PlaceIs ==
    ASSUME NEW length \in Nat, NEW kept \in SUBSET (1 .. length)
    PROVE  /\ Place(kept, 0) = 0
           /\ \A n \in 0 .. length : IsFiniteSet(Earlier(kept, n)) /\ Place(kept, n) \in 0 .. n
           /\ \A n \in 1 .. length :
                 Place(kept, n) = IF n \in kept THEN Place(kept, n - 1) + 1 ELSE Place(kept, n - 1)
           /\ \A n \in 0 .. length : Place(kept, n) = n => \A m \in 1 .. n : m \in kept
  <1>1. Earlier(kept, 0) = {} /\ Place(kept, 0) = 0
    <2>1. Earlier(kept, 0) = {}
      BY DEF Earlier
    <2> QED
      BY <2>1, FS_EmptySet DEF Place
  <1>2. ASSUME NEW n \in 0 .. length
        PROVE  /\ IsFiniteSet(Earlier(kept, n)) /\ Place(kept, n) \in 0 .. n
               /\ Place(kept, n) = n => \A m \in 1 .. n : m \in kept
    <2>1. /\ IsFiniteSet(1 .. n)
          /\ Cardinality(1 .. n) = n
      <3>1. Cardinality(1 .. n) = IF 1 > n THEN 0 ELSE n - 1 + 1
        BY FS_Interval
      <3> QED
        BY <3>1, FS_Interval
    <2>2. Earlier(kept, n) \subseteq 1 .. n
      BY DEF Earlier
    <2>3. /\ IsFiniteSet(Earlier(kept, n))
          /\ Place(kept, n) <= n
          /\ Place(kept, n) = n => Earlier(kept, n) = 1 .. n
      BY <2>1, <2>2, FS_Subset DEF Place
    <2>4. Place(kept, n) \in Nat
      BY <2>3, FS_CardinalityType DEF Place
    <2>5. Place(kept, n) = n => \A m \in 1 .. n : m \in kept
      BY <2>3 DEF Earlier
    <2> QED
      BY <2>3, <2>4, <2>5
  <1>3. ASSUME NEW n \in 1 .. length
        PROVE  Place(kept, n) = IF n \in kept THEN Place(kept, n - 1) + 1 ELSE Place(kept, n - 1)
    <2>1. n - 1 \in 0 .. length
      OBVIOUS
    <2>2. CASE n \in kept
      <3>1. Earlier(kept, n) = Earlier(kept, n - 1) \cup {n} /\ n \notin Earlier(kept, n - 1)
        BY <2>2 DEF Earlier
      <3>2. IsFiniteSet(Earlier(kept, n - 1))
        BY <1>2, <2>1
      <3> QED
        BY <2>2, <3>1, <3>2, FS_AddElement DEF Place
    <2>3. CASE n \notin kept
      <3>1. Earlier(kept, n) = Earlier(kept, n - 1)
        BY <2>3 DEF Earlier
      <3> QED
        BY <2>3, <3>1 DEF Place
    <2> QED
      BY <2>2, <2>3
  <1> QED
    BY <1>1, <1>2, <1>3

(* What the sink holds once the events up to n are emitted into it again. *)
HoldsRefiled(sink, id, enabled, events, kept, n) ==
    /\ DOMAIN sink = {"id", "enabled", "events"}
    /\ sink.id = id
    /\ sink.enabled = enabled
    /\ sink.events \in Seq(RefiledEvents(id, events, kept))
    /\ Len(sink.events) = Place(kept, n)
    /\ \A i \in DOMAIN sink.events :
          \E m \in kept : Place(kept, m) = i /\ sink.events[i] = Refiled(id, events, kept, m)

LEMMA RefilesNext ==
    ASSUME NEW id, NEW enabled, NEW events, Len(events) \in Nat,
           NEW kept \in SUBSET (1 .. Len(events)), NEW run,
           \A i \in 1 .. Len(events) : events[i].run = run /\ events[i].mechanism \in enabled,
           NEW n \in 1 .. Len(events), NEW sink,
           HoldsRefiled(sink, id, enabled, events, kept, n - 1)
    PROVE  HoldsRefiled(Resigned(kept, events, sink, n), id, enabled, events, kept, n)
  <1>1. /\ Place(kept, n) = IF n \in kept THEN Place(kept, n - 1) + 1 ELSE Place(kept, n - 1)
        /\ Place(kept, n - 1) \in Nat
    <2>1. n - 1 \in 0 .. Len(events)
      OBVIOUS
    <2>2. /\ \A l \in 0 .. Len(events) : IsFiniteSet(Earlier(kept, l)) /\ Place(kept, l) \in 0 .. l
          /\ \A l \in 1 .. Len(events) :
                Place(kept, l) = IF l \in kept THEN Place(kept, l - 1) + 1
                                 ELSE Place(kept, l - 1)
      BY PlaceIs
    <2> QED
      BY <2>1, <2>2
  <1>2. CASE n \notin kept
    BY <1>1, <1>2 DEF HoldsRefiled, Resigned
  <1>3. CASE n \in kept
    <2> DEFINE e == events[n]
               place == Place(kept, n - 1)
               new == Refiled(id, events, kept, n)
               old == sink.events
               S == RefiledEvents(id, events, kept)
    <2>1. old \in Seq(S) /\ new \in S
      <3>1. new \in S
        BY <1>3 DEF RefiledEvents
      <3> QED
        BY <3>1 DEF HoldsRefiled
    <2> HIDE DEF S
    <2>2. /\ DOMAIN sink = {"id", "enabled", "events"} /\ sink.id = id /\ sink.enabled = enabled
          /\ Len(old) = place /\ place \in Nat /\ DOMAIN old = 1 .. place
          /\ \A i \in DOMAIN old :
                \E m \in kept : Place(kept, m) = i /\ old[i] = Refiled(id, events, kept, m)
      <3>1. /\ DOMAIN sink = {"id", "enabled", "events"} /\ sink.id = id
            /\ sink.enabled = enabled
            /\ \A i \in DOMAIN old :
                  \E m \in kept : Place(kept, m) = i /\ old[i] = Refiled(id, events, kept, m)
        BY DEF HoldsRefiled
      <3>2. Len(old) = place /\ place \in Nat
        BY <1>1 DEF HoldsRefiled
      <3> HIDE DEF old, place
      <3>3. DOMAIN old = 1 .. place
        BY <2>1, <3>2
      <3> QED
        BY <3>1, <3>2, <3>3
    <2>3. e.run = run /\ e.mechanism \in sink.enabled
      BY <2>2
    <2>4. /\ \A m : Refiled(id, events, kept, m).run = events[m].run
          /\ \A m : Refiled(id, events, kept, m).sequence = Place(kept, m)
          /\ \A m : Refiled(id, events, kept, m).hash = HashOf(id, events[m].run, Place(kept, m))
      BY DEF Refiled
    <2>5. \A i \in DOMAIN old : /\ old[i].run = run
                                /\ old[i].sequence = i
                                /\ old[i].hash = HashOf(id, run, i)
      BY <2>2, <2>4
    <2> HIDE DEF old, place, new, e
    <2>6. /\ ChainEnd(old, run).sequence = place
          /\ ChainEnd(old, run).hash = HashOf(id, run, place)
      <3>1. ChainEnd(old, run) =
              IF old = <<>> THEN [sequence |-> 0, hash |-> Genesis]
              ELSE [sequence |-> old[Len(old)].sequence, hash |-> old[Len(old)].hash]
        BY <2>1, <2>5, ChainEndOfOne
      <3>2. CASE old = <<>>
        BY <2>2, <3>1, <3>2 DEF HashOf
      <3>3. CASE old # <<>>
        <4>1. place \in DOMAIN old
          BY <2>1, <2>2, <3>3
        <4> QED
          BY <2>2, <2>5, <3>1, <3>3, <4>1
      <3> QED
        BY <3>2, <3>3
    <2>7. Place(kept, n) = place + 1
      BY <1>1, <1>3 DEF place
    <2>8. new = [run |-> e.run, sequence |-> place + 1, mechanism |-> e.mechanism,
                 action |-> e.action, attributes |-> e.attributes,
                 previous |-> HashOf(id, run, place), hash |-> <<id, e.run, place + 1>>]
      <3>1. /\ Place(kept, n) - 1 = place
            /\ HashOf(id, run, place + 1) = <<id, run, place + 1>>
        BY <2>2, <2>7 DEF HashOf
      <3> QED
        BY <2>3, <2>7, <3>1 DEF new, Refiled, e
    <2> DEFINE t == emit(sink, e)
    <2>9. /\ DOMAIN t = {"id", "enabled", "events"}
          /\ t.id = sink.id /\ t.enabled = sink.enabled
          /\ t.events = Append(old, new)
      BY <2>2, <2>3, <2>6, <2>8, EmitAppends DEF old
    <2>10. Resigned(kept, events, sink, n) = t
      BY <1>3 DEF Resigned, e
    <2> HIDE DEF t
    <2>11. /\ Append(old, new) \in Seq(S)
           /\ Len(Append(old, new)) = place + 1
           /\ DOMAIN Append(old, new) = 1 .. place + 1
           /\ \A i \in 1 .. place : Append(old, new)[i] = old[i]
           /\ Append(old, new)[place + 1] = new
      BY <2>1, <2>2
    <2>12. \A i \in 1 .. place + 1 :
               \E m \in kept : /\ Place(kept, m) = i
                               /\ Append(old, new)[i] = Refiled(id, events, kept, m)
      <3> SUFFICES ASSUME NEW i \in 1 .. place + 1
                   PROVE  \E m \in kept : /\ Place(kept, m) = i
                                          /\ Append(old, new)[i] = Refiled(id, events, kept, m)
        OBVIOUS
      <3>1. CASE i = place + 1
        BY <1>3, <2>7, <2>11, <3>1 DEF new
      <3>2. CASE i # place + 1
        <4>1. i \in 1 .. place /\ i \in DOMAIN old
          BY <2>2, <3>2
        <4> QED
          BY <2>2, <2>11, <4>1
      <3> QED
        BY <3>1, <3>2
    <2> QED
      BY <2>2, <2>7, <2>9, <2>10, <2>11, <2>12 DEF HoldsRefiled, S
  <1> QED
    BY <1>2, <1>3

LEMMA ResignHolds ==
    ASSUME NEW id, NEW events, Len(events) \in Nat, DOMAIN events = 1 .. Len(events),
           NEW kept \in SUBSET (1 .. Len(events)), NEW run,
           \A i \in 1 .. Len(events) : events[i].run = run
    PROVE  HoldsRefiled(resign_with_filter(id, events, kept), id, Signed(events), events, kept,
                        Len(events))
  <1> DEFINE enabled == Signed(events)
  <1>0. \A i \in 1 .. Len(events) : events[i].run = run /\ events[i].mechanism \in enabled
    BY DEF Signed
  <1>1. PICK sinks : /\ sinks[0] = EventSink(id, enabled)
                     /\ \A n \in 1 .. Len(events) :
                           sinks[n] = Resigned(kept, events, sinks[n - 1], n)
                     /\ resign_with_filter(id, events, kept) = sinks[Len(events)]
    BY ResignIs
  <1> HIDE DEF enabled
  <1> DEFINE Holds(n) == HoldsRefiled(sinks[n], id, enabled, events, kept, n)
             bad == {n \in 0 .. Len(events) : ~ Holds(n)}
  <1>2. Holds(0)
    <2>1. /\ DOMAIN sinks[0] = {"id", "enabled", "events"}
          /\ sinks[0].id = id /\ sinks[0].enabled = enabled /\ sinks[0].events = <<>>
      BY <1>1 DEF EventSink
    <2>2. <<>> \in Seq(RefiledEvents(id, events, kept)) /\ Len(<<>>) = 0
      OBVIOUS
    <2>3. DOMAIN <<>> = {}
      BY <2>2
    <2>4. Place(kept, 0) = 0
      BY PlaceIs
    <2> QED
      BY <2>1, <2>2, <2>3, <2>4 DEF HoldsRefiled
  <1>3. ASSUME NEW n \in 1 .. Len(events), Holds(n - 1) PROVE Holds(n)
    BY <1>0, <1>1, <1>3, RefilesNext
  <1> HIDE DEF Holds
  <1>4. bad = {}
    <2> SUFFICES ASSUME bad # {} PROVE FALSE
      OBVIOUS
    <2>1. bad \in SUBSET Nat
      OBVIOUS
    <2>2. PICK n \in bad : \A m \in bad : n <= m
      BY <2>1, LeastNumber
    <2>3. n # 0
      BY <1>2, <2>2
    <2>4. n \in 1 .. Len(events) /\ n - 1 \in 0 .. Len(events) /\ n - 1 \notin bad
      BY <2>2, <2>3
    <2> QED
      BY <1>3, <2>2, <2>4
  <1>5. Holds(Len(events))
    BY <1>4
  <1> QED
    BY <1>1, <1>5 DEF Holds, enabled

-----------------------------------------------------------------------------
(* Kept evidence that verify_run_evidence accepts is whole. *)

LEMMA SayOneSlot ==
    ASSUME NEW s, s.workflow \in {"payment", "credit"}, NEW p, NEW e,
           NEW i \in 1 .. LastSlot(s), NEW j \in 1 .. LastSlot(s),
           Says(s, i, p, e), Says(s, j, p, e)
    PROVE  i = j
  <1>1. /\ Slots(s)[i] = Slots(s)[j]
        /\ DOMAIN Values(e) = Mechanism(s, i).observes \cap SlotNames(s, i)
        /\ DOMAIN Values(e) = Mechanism(s, j).observes \cap SlotNames(s, j)
    <2>1. /\ Values(e) = observation_values(Mechanism(s, i), s.world, SlotNames(s, i))
          /\ Values(e) = observation_values(Mechanism(s, j), s.world, SlotNames(s, j))
      BY SaidAttributes
    <2>2. Slots(s)[i] = Slots(s)[j]
      BY DEF Says
    <2> QED
      BY <2>1, <2>2 DEF observation_values
  <1>2. i = j \/ (s.workflow = "payment" /\ i \in {4, 14} /\ j \in {4, 14})
    BY <1>1, SlotsDiffer
  <1>3. CASE s.workflow = "payment" /\ i \in {4, 14} /\ j \in {4, 14}
    BY <1>1, <1>3, AskedNames
  <1> QED
    BY <1>2, <1>3

(* In a chain that is whole, an event has its number. *)
LEMMA ChainedNumbers ==
    ASSUME NEW S, NEW events \in Seq(S), \A i \in DOMAIN events : Follows(events, i)
    PROVE  \A i \in DOMAIN events : events[i].sequence = i
  <1> DEFINE bad == {i \in 1 .. Len(events) : events[i].sequence # i}
  <1>0. DOMAIN events = 1 .. Len(events) /\ Len(events) \in Nat
    OBVIOUS
  <1> SUFFICES ASSUME bad # {} PROVE FALSE
    BY <1>0
  <1>1. bad \in SUBSET Nat
    BY <1>0
  <1>2. PICK i \in bad : \A l \in bad : i <= l
    BY <1>1, LeastNumber
  <1>3. i \in DOMAIN events /\ Follows(events, i) /\ events[i].sequence # i
    BY <1>0, <1>2
  <1>4. i # 1
    BY <1>3 DEF Follows
  <1>5. i - 1 \in 1 .. Len(events) /\ i - 1 \notin bad
    BY <1>0, <1>2, <1>3, <1>4
  <1>6. events[i - 1].sequence = i - 1
    BY <1>5
  <1>7. events[i].sequence = events[i - 1].sequence + 1
    BY <1>3, <1>4 DEF Follows
  <1> QED
    BY <1>0, <1>3, <1>6, <1>7

(* The event, with number p in the chain that id signs. *)
Filed(id, e, p) ==
    [run |-> e.run, sequence |-> p, mechanism |-> e.mechanism, action |-> e.action,
     attributes |-> e.attributes, previous |-> HashOf(id, e.run, p - 1),
     hash |-> HashOf(id, e.run, p)]

FiledEvents(id, old) == {Filed(id, old[n], p) : n \in DOMAIN old, p \in Nat}

(* Each of the events is one of the old ones, each from another, signed by id. *)
ComesFrom(id, old, events, origin) ==
    /\ events \in Seq(FiledEvents(id, old))
    /\ \A i \in DOMAIN events :
          /\ origin[i] \in DOMAIN old
          /\ events[i] = Filed(id, old[origin[i]], events[i].sequence)
    /\ \A i, l \in DOMAIN events : origin[i] = origin[l] => i = l

(* The evidence holds events of the run alone, none twice: in the run's own chain *)
(* each with the number it had there, or in one that was signed afterwards.       *)
Salvaged(r, sink, events) ==
    \E id \in {r, Resigner(r)} : \E origin \in [DOMAIN events -> DOMAIN sink.events] :
        /\ ComesFrom(id, sink.events, events, origin)
        /\ \/ id = Resigner(r)
           \/ id = r /\ \A i \in DOMAIN events : origin[i] = events[i].sequence

LEMMA FiledAgain ==
    ASSUME NEW id, NEW other, NEW e, NEW p, NEW q
    PROVE  /\ Filed(id, Filed(other, e, p), q) = Filed(id, e, q)
           /\ Filed(id, e, p).sequence = p
           /\ Filed(id, e, p).run = e.run
           /\ Filed(id, e, p).hash = HashOf(id, e.run, p)
           /\ Said(Filed(id, e, p)) = Said(e)
  BY DEF Filed, Said

LEMMA FiledSays ==
    ASSUME NEW s, NEW k \in Nat, NEW p, HoldsSlots(s, k, p), NEW id,
           NEW n \in DOMAIN s.sink.events, NEW q
    PROVE  \E j \in Contracted(s, k) :
               Number(s, j) = n /\ Says(s, j, p, Filed(id, s.sink.events[n], q))
  <1>1. PICK j \in Contracted(s, k) : Number(s, j) = n /\ s.sink.events[n] = SlotEvent(s, j, p)
    BY DEF HoldsSlots
  <1>2. Says(s, j, p, SlotEvent(s, j, p))
    BY SlotEventSays
  <1> QED
    BY <1>1, <1>2 DEF Says, Filed

(* The events a run has emitted are filed by its own sink, each under its number. *)
LEMMA EmittedAreFiled ==
    ASSUME NEW r, NEW s, s.sink.id = r, NEW k \in Nat, NEW p, HoldsSlots(s, k, p)
    PROVE  \A n \in DOMAIN s.sink.events : s.sink.events[n] = Filed(r, s.sink.events[n], n)
  <1> SUFFICES ASSUME NEW n \in DOMAIN s.sink.events
               PROVE  s.sink.events[n] = Filed(r, s.sink.events[n], n)
    OBVIOUS
  <1> DEFINE e == s.sink.events[n]
  <1>1. PICK j \in Contracted(s, k) : Number(s, j) = n /\ e = SlotEvent(s, j, p)
    BY DEF HoldsSlots
  <1>2. /\ Hash(s, n) = HashOf(r, s.run, n)
        /\ Hash(s, n - 1) = HashOf(r, s.run, n - 1)
    BY DEF Hash, HashOf
  <1>3. e = [run |-> s.run, sequence |-> n, mechanism |-> Slots(s)[j],
             action |-> _action_identity(Spec(s), s.world),
             attributes |-> SlotAttributes(s, j, p),
             previous |-> HashOf(r, s.run, n - 1), hash |-> HashOf(r, s.run, n)]
    BY <1>1, <1>2 DEF SlotEvent
  <1> HIDE DEF e
  <1>4. e = Filed(r, e, n)
    BY <1>3 DEF Filed
  <1> QED
    BY <1>4 DEF e

LEMMA SalvagedIsWhole ==
    ASSUME NEW s, WellFormed(s), NEW r, s.sink.id = r,
           NEW k \in 0 .. LastSlot(s), NEW p, HoldsSlots(s, k, p),
           NEW events, Salvaged(r, s.sink, events), NEW threat,
           verify_run_evidence(Spec(s), events, s.contract, threat)
    PROVE  /\ Tell(s, k, p, ToSet(events))
           /\ Len(events) = Len(s.sink.events)
           /\ {Said(e) : e \in ToSet(events)} = {Said(e) : e \in ToSet(s.sink.events)}
           /\ (\A e \in ToSet(events) : e.hash[1] # Resigner(r)) => events = s.sink.events
  <1> DEFINE old == s.sink.events
             length == Number(s, k)
  <1>0. s.workflow \in {"payment", "credit"}
    BY DEF WellFormed
  <1>1. PICK id \in {r, Resigner(r)}, origin \in [DOMAIN events -> DOMAIN old] :
            /\ ComesFrom(id, old, events, origin)
            /\ \/ id = Resigner(r)
               \/ id = r /\ \A i \in DOMAIN events : origin[i] = events[i].sequence
    BY Zenon DEF Salvaged
  <1>2. k \in Nat /\ \A j \in Contracted(s, k) : j \in 1 .. LastSlot(s)
    BY DEF LastSlot, Contracted
  <1>3. /\ length \in Nat /\ DOMAIN old = 1 .. length /\ Len(old) = length
        /\ \A i \in DOMAIN old : old[i].run = s.run
    <2>1. length \in Nat /\ Len(old) = length
      BY <1>2, NumberIsNat DEF HoldsSlots
    <2>2. DOMAIN old = 1 .. length /\ \A i \in DOMAIN old : old[i].run = s.run
      BY EventBelongs
    <2> QED
      BY <2>1, <2>2
  <1>4. \A n \in DOMAIN old : \A q :
            \E j \in Contracted(s, k) : Number(s, j) = n /\ Says(s, j, p, Filed(id, old[n], q))
    BY <1>2, FiledSays
  <1>5. \A j \in Contracted(s, k) : Number(s, j) \in DOMAIN old
    BY <1>2, <1>3, NumberGrows DEF HoldsSlots
  <1>6. \A n \in DOMAIN old : old[n] = Filed(r, old[n], n)
    BY <1>2, EmittedAreFiled
  <1> HIDE DEF old, length
  <1>7. /\ events \in Seq(FiledEvents(id, old))
        /\ \A i \in DOMAIN events :
              /\ origin[i] \in DOMAIN old
              /\ events[i] = Filed(id, old[origin[i]], events[i].sequence)
        /\ \A i, l \in DOMAIN events : origin[i] = origin[l] => i = l
    BY <1>1 DEF ComesFrom
  <1>8. /\ DOMAIN events = 1 .. Len(events) /\ Len(events) \in Nat
        /\ ToSet(events) = {events[i] : i \in DOMAIN events}
        /\ ToSet(old) = {old[i] : i \in DOMAIN old}
    <2>1. DOMAIN events = 1 .. Len(events) /\ Len(events) \in Nat
      BY <1>7
    <2> QED
      BY <2>1 DEF ToSet
  <1>9. Tell(s, k, p, ToSet(events))
    <2> SUFFICES ASSUME NEW e \in ToSet(events)
                 PROVE  \E j \in Contracted(s, k) : Says(s, j, p, e)
      BY DEF Tell
    <2>1. PICK i \in DOMAIN events : e = events[i]
      BY <1>8
    <2>2. origin[i] \in DOMAIN old /\ e = Filed(id, old[origin[i]], events[i].sequence)
      BY <1>7, <2>1
    <2> QED
      BY <1>4, <2>2
  <1>10. TellAll(s, k, p, ToSet(events))
    <2>1. \A name \in s.contract :
              /\ OfMechanism(events, name) # {}
              /\ ObservedNames(OfMechanism(events, name)) = Spec(s).mechanisms[name].observes
      BY DEF verify_run_evidence, ObservationsComplete
    <2> QED
      BY <1>9, <2>1, CompleteTellsAll
  <1>11. \A i \in DOMAIN events : events[i].sequence = i
    <2>1. \A i \in DOMAIN events : events[i].run = s.run
      <3> SUFFICES ASSUME NEW i \in DOMAIN events PROVE events[i].run = s.run
        OBVIOUS
      <3>1. PICK q : events[i] = Filed(id, old[origin[i]], q)
        BY <1>7
      <3>2. events[i].run = old[origin[i]].run
        BY <3>1, FiledAgain
      <3> QED
        BY <1>3, <1>7, <3>2
    <2>2. \A i \in DOMAIN events : Follows(events, i)
      BY <1>7, <2>1, VerifyIs DEF verify_run_evidence
    <2> QED
      BY <1>7, <2>2, ChainedNumbers
  (* Of each event of the run there is one, so that none was left out. *)
  <1>12. \A n \in DOMAIN old : \E i \in DOMAIN events : origin[i] = n
    <2> SUFFICES ASSUME NEW n \in DOMAIN old PROVE \E i \in DOMAIN events : origin[i] = n
      OBVIOUS
    <2>1. PICK j \in Contracted(s, k) : Number(s, j) = n
      BY <1>4
    <2>2. PICK i \in DOMAIN events : Says(s, j, p, events[i])
      BY <1>8, <1>10 DEF TellAll
    <2>3. PICK l \in Contracted(s, k) : Number(s, l) = origin[i] /\ Says(s, l, p, events[i])
      BY <1>4, <1>7
    <2>4. l = j
      BY <1>0, <1>2, <2>2, <2>3, SayOneSlot
    <2> QED
      BY <2>1, <2>3, <2>4
  <1>13. Len(events) = length
    <2>1. origin \in Bijection(DOMAIN events, DOMAIN old)
      BY <1>1, <1>7, <1>12 DEF Bijection, Injection, Surjection, IsInjective
    <2>2. IsFiniteSet(DOMAIN events) /\ ExistsBijection(DOMAIN events, DOMAIN old)
      BY <1>8, <2>1, FS_Interval DEF ExistsBijection
    <2>3. Cardinality(DOMAIN old) = Cardinality(DOMAIN events)
      BY <2>2, FS_Bijection
    <2>4. Cardinality(1 .. length) = IF 1 > length THEN 0 ELSE length - 1 + 1
      BY <1>3, FS_Interval
    <2>5. PICK count \in Nat : count = Len(events)
      BY <1>8
    <2>6. Cardinality(1 .. count) = IF 1 > count THEN 0 ELSE count - 1 + 1
      BY FS_Interval
    <2>7. Cardinality(1 .. length) = Cardinality(1 .. count)
      BY <1>3, <1>8, <2>3, <2>5
    <2>8. count = length
      BY <1>3, <2>4, <2>6, <2>7
    <2> QED
      BY <2>5, <2>8
  <1>14. {Said(e) : e \in ToSet(events)} = {Said(e) : e \in ToSet(old)}
    <2>1. \A i \in DOMAIN events : Said(events[i]) = Said(old[origin[i]])
      <3> SUFFICES ASSUME NEW i \in DOMAIN events PROVE Said(events[i]) = Said(old[origin[i]])
        OBVIOUS
      <3>1. PICK q : events[i] = Filed(id, old[origin[i]], q)
        BY <1>7
      <3> QED
        BY <3>1, FiledAgain
    <2>2. \A e \in ToSet(events) : \E x \in ToSet(old) : Said(e) = Said(x)
      BY <1>7, <1>8, <2>1
    <2>3. \A x \in ToSet(old) : \E e \in ToSet(events) : Said(x) = Said(e)
      BY <1>8, <1>12, <2>1
    <2> QED
      BY <2>2, <2>3
  <1>15. ASSUME \A e \in ToSet(events) : e.hash[1] # Resigner(r) PROVE events = old
    <2>1. id # Resigner(r)
      <3>1. 1 \in DOMAIN events
        <4>1. events # <<>>
          BY DEF verify_run_evidence
        <4> QED
          BY <1>7, <4>1
      <3>2. events[1] = Filed(id, old[origin[1]], 1)
        BY <1>7, <1>11, <3>1
      <3>3. events[1].hash = <<id, old[origin[1]].run, 1>>
        BY <3>2 DEF Filed, HashOf
      <3> QED
        BY <1>8, <1>15, <3>1, <3>3
    <2>2. id = r /\ \A i \in DOMAIN events : origin[i] = i
      BY <1>1, <1>11, <2>1
    <2>3. \A i \in DOMAIN events : events[i] = old[i]
      BY <1>6, <1>7, <1>11, <2>2
    <2>4. DOMAIN events = DOMAIN old
      BY <1>3, <1>8, <1>13
    <2>5. old \in Seq(FiledEvents(r, old))
      <3>1. \A n \in DOMAIN old : n \in Nat /\ old[n] \in FiledEvents(r, old)
        BY <1>3, <1>6 DEF FiledEvents
      <3>2. old = [n \in DOMAIN old |-> old[n]]
        BY DEF HoldsSlots, old
      <3> QED
        BY <1>3, <3>1, <3>2
    <2> QED
      BY <1>7, <2>3, <2>4, <2>5
  <1> QED
    BY <1>3, <1>9, <1>13, <1>14, <1>15 DEF old

-----------------------------------------------------------------------------
(* What is kept of a run is of a run that is finished, and salvaged from it. *)

EvidenceInv ==
    /\ DOMAIN retained = Runs
    /\ \A r \in Runs : retained[r] # <<>> =>
          Finished(r) /\ Salvaged(r, runs[r].sink, retained[r])

LEMMA FinishedIsKnown ==
    ASSUME RunsKnown, NEW r \in Runs, Finished(r)
    PROVE  /\ RunKnown(r, runs[r])
           /\ WellFormed(runs[r])
           /\ Phases(runs[r])[runs[r].phase] \in {LastSlot(runs[r]) - 1, LastSlot(runs[r])}
           /\ LastSlot(runs[r]) \in {14, 16}
           /\ HoldsSlots(runs[r], Phases(runs[r])[runs[r].phase], KnownProof(runs[r]))
  <1>1. RunKnown(r, runs[r])
    BY DEF RunsKnown, Finished, Idle, Failed
  <1>2. runs[r].workflow \in {"payment", "credit"} /\ WellFormed(runs[r])
    BY <1>1 DEF RunKnown, RunFixed, WellFormed
  <1>3. /\ LastSlot(runs[r]) \in {14, 16}
        /\ Phases(runs[r])[runs[r].phase] \in {LastSlot(runs[r]) - 1, LastSlot(runs[r])}
    BY <1>2 DEF Finished, Phases, PaymentPhases, CreditPhases, LastSlot
  <1> QED
    BY <1>1, <1>2, <1>3 DEF RunKnown

LEMMA SalvagedIsCertified ==
    ASSUME NEW s, WellFormed(s), NEW r, s.sink.id = r,
           NEW k \in 0 .. LastSlot(s), HoldsSlots(s, k, KnownProof(s)),
           NEW events, Salvaged(r, s.sink, events), NEW threat,
           verify_run_evidence(Spec(s), events, s.contract, threat)
    PROVE  /\ Len(events) = Len(s.sink.events)
           /\ {Said(e) : e \in ToSet(events)} = {Said(e) : e \in ToSet(s.sink.events)}
           /\ (\A e \in ToSet(events) : e.hash[1] # Resigner(r)) => events = s.sink.events
           /\ certify_adapter_run(Spec(s), s.world, events, s.contract, threat)
  <1> DEFINE p == KnownProof(s)
  <1>1. Tell(s, k, p, ToSet(events))
    BY SalvagedIsWhole
  <1>2. /\ Len(events) = Len(s.sink.events)
        /\ {Said(e) : e \in ToSet(events)} = {Said(e) : e \in ToSet(s.sink.events)}
        /\ (\A e \in ToSet(events) : e.hash[1] # Resigner(r)) => events = s.sink.events
    BY SalvagedIsWhole
  <1>3. certify_adapter_run(Spec(s), s.world, events, s.contract, threat)
    BY <1>1, AcceptedIsCertified
  <1> QED
    BY <1>2, <1>3

LEMMA AcceptedIsWhole == ASSUME RunsKnown, EvidenceInv PROVE AcceptedEvidenceIsWhole
  <1> DEFINE Whole(r) ==
                 LET kept == retained[r]
                     emitted == runs[r].sink.events
                 IN /\ Len(kept) = Len(emitted)
                    /\ {Said(e) : e \in ToSet(kept)} = {Said(e) : e \in ToSet(emitted)}
                    /\ (\A e \in ToSet(kept) : e.hash[1] # Resigner(r)) => kept = emitted
                    /\ Certified(r, "cooperative", kept)
  <1> SUFFICES ASSUME NEW r \in Runs, retained[r] # <<>>, Accepted(r, "cooperative", retained[r])
               PROVE  Whole(r)
    BY DEF AcceptedEvidenceIsWhole
  <1> DEFINE s == runs[r]
             events == retained[r]
  <1>1. Finished(r) /\ Salvaged(r, s.sink, events)
    BY DEF EvidenceInv
  <1>2. /\ WellFormed(s) /\ s.sink.id = r
        /\ \E k \in 0 .. LastSlot(s) : HoldsSlots(s, k, KnownProof(s))
    <2>1. /\ RunKnown(r, s) /\ WellFormed(s)
          /\ Phases(s)[s.phase] \in {LastSlot(s) - 1, LastSlot(s)}
          /\ LastSlot(s) \in {14, 16}
          /\ HoldsSlots(s, Phases(s)[s.phase], KnownProof(s))
      BY <1>1, FinishedIsKnown
    <2>2. s.sink.id = r
      BY <2>1 DEF RunKnown, RunFixed
    <2> HIDE DEF s
    <2>3. Phases(s)[s.phase] \in 0 .. LastSlot(s)
      BY <2>1
    <2> QED
      BY <2>1, <2>2, <2>3
  <1>3. verify_run_evidence(Spec(s), events, s.contract, "cooperative")
    BY DEF Accepted
  <1> HIDE DEF s, events
  <1>4. /\ Len(events) = Len(s.sink.events)
        /\ {Said(e) : e \in ToSet(events)} = {Said(e) : e \in ToSet(s.sink.events)}
        /\ (\A e \in ToSet(events) : e.hash[1] # Resigner(r)) => events = s.sink.events
        /\ certify_adapter_run(Spec(s), s.world, events, s.contract, "cooperative")
    BY <1>1, <1>2, <1>3, SalvagedIsCertified
  <1> QED
    BY <1>4 DEF Certified, s, events

(* Until a run is finished nothing is kept of it. *)
LEMMA NothingKept ==
    ASSUME EvidenceInv, DOMAIN runs = Runs, NEW r \in Runs, ~ Finished(r),
           NEW st, runs' = [runs EXCEPT ![r] = st], UNCHANGED retained
    PROVE  EvidenceInv'
  <1>1. retained[r] = <<>>
    BY DEF EvidenceInv
  <1>2. \A q \in Runs : retained[q] # <<>> => runs'[q] = runs[q]
    BY <1>1
  <1>3. \A q \in Runs : retained[q] # <<>> => (Finished(q) <=> Finished(q)')
    BY <1>2 DEF Finished
  <1> QED
    BY <1>2, <1>3 DEF EvidenceInv

(* All the events of a run come from themselves. *)
LEMMA WholeIsSalvaged ==
    ASSUME NEW r, NEW s, s.sink.id = r, NEW k \in Nat, NEW p, HoldsSlots(s, k, p)
    PROVE  Salvaged(r, s.sink, s.sink.events)
  <1> DEFINE old == s.sink.events
             origin == [i \in DOMAIN old |-> i]
             length == Number(s, k)
  <1>1. /\ length \in Nat /\ DOMAIN old = 1 .. length
        /\ \A i \in DOMAIN old : old[i].sequence = i
    BY NumberIsNat, EventBelongs
  <1>2. \A n \in DOMAIN old : old[n] = Filed(r, old[n], n)
    BY EmittedAreFiled
  <1>3. old \in Seq(FiledEvents(r, old))
    <2>1. \A n \in DOMAIN old : n \in Nat /\ old[n] \in FiledEvents(r, old)
      BY <1>1, <1>2 DEF FiledEvents
    <2>2. old = [n \in DOMAIN old |-> old[n]]
      BY DEF HoldsSlots
    <2> HIDE DEF old, length
    <2> QED
      BY <1>1, <2>1, <2>2
  <1> HIDE DEF old, length
  <1>4. ComesFrom(r, old, old, origin)
    BY <1>1, <1>2, <1>3 DEF ComesFrom
  <1>5. origin \in [DOMAIN old -> DOMAIN old] /\ \A i \in DOMAIN old : origin[i] = old[i].sequence
    BY <1>1
  <1> HIDE DEF origin
  <1> QED
    BY <1>4, <1>5 DEF Salvaged, old

(* Some of the events, none twice and in whatever order, are salvaged too. *)
LEMMA RearrangedIsSalvaged ==
    ASSUME NEW r, NEW sink, NEW events, Salvaged(r, sink, events),
           NEW n \in Nat, NEW from \in [1 .. n -> DOMAIN events],
           \A i, l \in 1 .. n : from[i] = from[l] => i = l
    PROVE  Salvaged(r, sink, [i \in 1 .. n |-> events[from[i]]])
  <1> DEFINE old == sink.events
             new == [i \in 1 .. n |-> events[from[i]]]
  <1>1. PICK id \in {r, Resigner(r)}, origin \in [DOMAIN events -> DOMAIN old] :
            /\ ComesFrom(id, old, events, origin)
            /\ \/ id = Resigner(r)
               \/ id = r /\ \A i \in DOMAIN events : origin[i] = events[i].sequence
    BY Zenon DEF Salvaged
  <1> DEFINE other == [i \in 1 .. n |-> origin[from[i]]]
  <1> HIDE DEF old
  <1>2. /\ DOMAIN new = 1 .. n
        /\ \A i \in 1 .. n : /\ from[i] \in DOMAIN events
                             /\ new[i] = events[from[i]]
                             /\ other[i] = origin[from[i]]
    OBVIOUS
  <1>3. new \in Seq(FiledEvents(id, old))
    <2>1. \A i \in 1 .. n : events[from[i]] \in FiledEvents(id, old)
      BY <1>1, <1>2 DEF ComesFrom
    <2> DEFINE S == FiledEvents(id, old)
    <2> HIDE DEF S
    <2>2. new \in [1 .. n -> S]
      BY <2>1 DEF S
    <2> HIDE DEF new
    <2>3. new \in Seq(S)
      BY <2>2
    <2> QED
      BY <2>3 DEF S
  <1>4. other \in [1 .. n -> DOMAIN old]
    BY <1>1, <1>2
  <1> HIDE DEF new, other
  <1>5. ComesFrom(id, old, new, other)
    <2>1. \A i \in 1 .. n : /\ other[i] \in DOMAIN old
                            /\ new[i] = Filed(id, old[other[i]], new[i].sequence)
      BY <1>1, <1>2 DEF ComesFrom
    <2>2. \A i, l \in 1 .. n : other[i] = other[l] => i = l
      BY <1>1, <1>2 DEF ComesFrom
    <2> QED
      BY <1>2, <1>3, <2>1, <2>2 DEF ComesFrom
  <1>6. \/ id = Resigner(r)
        \/ id = r /\ \A i \in DOMAIN new : other[i] = new[i].sequence
    BY <1>1, <1>2
  <1>7. Salvaged(r, sink, new)
    BY <1>2, <1>4, <1>5, <1>6, Zenon DEF Salvaged, old
  <1> QED
    BY <1>7 DEF new

LEMMA SalvagedIsSeq ==
    ASSUME NEW r, NEW sink, NEW events, Salvaged(r, sink, events)
    PROVE  Len(events) \in Nat /\ DOMAIN events = 1 .. Len(events) /\ \E S : events \in Seq(S)
  <1>1. \E S : events \in Seq(S)
    BY Zenon DEF Salvaged, ComesFrom
  <1> QED
    BY <1>1

LEMMA PartIs ==
    ASSUME NEW S, NEW events \in Seq(S), NEW a \in Nat, NEW b \in Nat,
           1 <= a, a <= b + 1, b <= Len(events)
    PROVE  /\ SubSeq(events, a, b) \in Seq(S)
           /\ Len(SubSeq(events, a, b)) = b - a + 1
           /\ \A l \in 1 .. b - a + 1 : SubSeq(events, a, b)[l] = events[a + l - 1]
  <1>1. \A l \in a .. b : events[l] \in S
    <2>1. \A l \in a .. b : l \in 1 .. Len(events)
      OBVIOUS
    <2> QED
      BY <2>1
  <1>2. a \in Int /\ b \in Int
    OBVIOUS
  <1>3. /\ SubSeq(events, a, b) \in Seq(S)
        /\ Len(SubSeq(events, a, b)) = IF a <= b THEN b - a + 1 ELSE 0
        /\ \A l \in 1 .. b - a + 1 : SubSeq(events, a, b)[l] = events[a + l - 1]
    BY <1>1, <1>2, SubSeqProperties
  <1>4. (IF a <= b THEN b - a + 1 ELSE 0) = b - a + 1
    OBVIOUS
  <1> QED
    BY <1>3, <1>4

LEMMA JoinedIs ==
    ASSUME NEW S, NEW first \in Seq(S), NEW second \in Seq(S)
    PROVE  /\ first \o second \in Seq(S)
           /\ DOMAIN (first \o second) = 1 .. Len(first) + Len(second)
           /\ \A l \in 1 .. Len(first) : (first \o second)[l] = first[l]
           /\ \A l \in 1 .. Len(second) : (first \o second)[Len(first) + l] = second[l]
  <1> DEFINE both == first \o second
             a == Len(first)
             b == Len(second)
  <1>1. /\ both \in Seq(S)
        /\ Len(both) = a + b
        /\ \A i \in 1 .. a + b : both[i] = IF i <= a THEN first[i] ELSE second[i - a]
    BY ConcatProperties
  <1>2. a \in Nat /\ b \in Nat
    OBVIOUS
  <1> HIDE DEF both, a, b
  <1>3. DOMAIN both = 1 .. a + b
    <2>1. DOMAIN both = 1 .. Len(both)
      BY <1>1
    <2> QED
      BY <1>1, <2>1
  <1>4. \A l \in 1 .. a : l \in 1 .. a + b /\ l <= a
    BY <1>2
  <1>5. \A l \in 1 .. a : both[l] = first[l]
    BY <1>1, <1>4
  <1>6. ASSUME NEW l \in 1 .. b PROVE both[a + l] = second[l]
    <2> DEFINE i == a + l
    <2>1. i \in 1 .. a + b /\ ~ (i <= a) /\ i - a = l
      BY <1>2
    <2> HIDE DEF i
    <2>2. both[i] = second[i - a]
      BY <1>1, <2>1
    <2>3. both[i] = second[l]
      BY <2>1, <2>2
    <2> QED
      BY <2>3 DEF i
  <1> QED
    BY <1>1, <1>3, <1>5, <1>6 DEF both, a, b

LEMMA RemovedIs ==
    ASSUME NEW S, NEW events \in Seq(S), NEW n \in Nat, Len(events) = n + 1, NEW i \in 1 .. n + 1
    PROVE  RemoveAt(events, i) = [l \in 1 .. n |-> events[IF l < i THEN l ELSE l + 1]]
  <1> DEFINE first == SubSeq(events, 1, i - 1)
             second == SubSeq(events, i + 1, n + 1)
             left == first \o second
  <1>1. /\ first \in Seq(S) /\ Len(first) = i - 1
        /\ \A l \in 1 .. i - 1 : first[l] = events[l]
    <2>1. i - 1 \in Nat /\ 1 <= i - 1 + 1 /\ i - 1 <= Len(events) /\ i - 1 - 1 + 1 = i - 1
      OBVIOUS
    <2>2. /\ SubSeq(events, 1, i - 1) \in Seq(S)
          /\ Len(SubSeq(events, 1, i - 1)) = i - 1 - 1 + 1
          /\ \A l \in 1 .. i - 1 - 1 + 1 : SubSeq(events, 1, i - 1)[l] = events[1 + l - 1]
      BY <2>1, PartIs
    <2>3. \A l \in 1 .. i - 1 : 1 + l - 1 = l
      OBVIOUS
    <2> QED
      BY <2>1, <2>2, <2>3
  <1>2. /\ second \in Seq(S) /\ Len(second) = n + 1 - i
        /\ \A l \in 1 .. n + 1 - i : second[l] = events[l + i]
    <2>1. /\ i + 1 \in Nat /\ n + 1 \in Nat /\ 1 <= i + 1 /\ i + 1 <= n + 1 + 1
          /\ n + 1 <= Len(events) /\ n + 1 - (i + 1) + 1 = n + 1 - i
      OBVIOUS
    <2>2. /\ SubSeq(events, i + 1, n + 1) \in Seq(S)
          /\ Len(SubSeq(events, i + 1, n + 1)) = n + 1 - (i + 1) + 1
          /\ \A l \in 1 .. n + 1 - (i + 1) + 1 :
                SubSeq(events, i + 1, n + 1)[l] = events[i + 1 + l - 1]
      BY <2>1, PartIs
    <2>3. \A l \in 1 .. n + 1 - i : i + 1 + l - 1 = l + i
      OBVIOUS
    <2> QED
      BY <2>1, <2>2, <2>3
  <1> HIDE DEF first, second
  <1>3. /\ left \in Seq(S)
        /\ DOMAIN left = 1 .. n
        /\ \A l \in 1 .. i - 1 : left[l] = first[l]
        /\ \A l \in 1 .. n + 1 - i : left[i - 1 + l] = second[l]
    <2> DEFINE a == i - 1
               b == n + 1 - i
    <2>1. a \in Nat /\ b \in Nat /\ a + b = n /\ Len(first) = a /\ Len(second) = b
      BY <1>1, <1>2
    <2> HIDE DEF a, b
    <2>2. /\ left \in Seq(S)
          /\ DOMAIN left = 1 .. Len(first) + Len(second)
          /\ \A l \in 1 .. Len(first) : left[l] = first[l]
          /\ \A l \in 1 .. Len(second) : left[Len(first) + l] = second[l]
      <3>1. first \in Seq(S) /\ second \in Seq(S)
        BY <1>1, <1>2
      <3> QED
        BY <3>1, JoinedIs
    <2> HIDE DEF left
    <2> QED
      BY <2>1, <2>2 DEF a, b
  <1>4. RemoveAt(events, i) = left
    BY DEF RemoveAt, first, second
  <1> HIDE DEF left
  <1>5. ASSUME NEW l \in 1 .. n PROVE left[l] = events[IF l < i THEN l ELSE l + 1]
    <2>1. CASE l < i
      <3>1. l \in 1 .. i - 1
        BY <2>1
      <3> QED
        BY <1>1, <1>3, <2>1, <3>1
    <2>2. CASE ~ (l < i)
      <3>1. PICK m \in 1 .. n + 1 - i : i - 1 + m = l /\ m + i = l + 1
        <4>1. l - (i - 1) \in 1 .. n + 1 - i
          BY <2>2
        <4> QED
          BY <4>1
      <3>2. left[l] = events[l + 1]
        BY <1>2, <1>3, <3>1
      <3> QED
        BY <2>2, <3>2
    <2> QED
      BY <2>1, <2>2
  <1>6. left = [l \in DOMAIN left |-> left[l]]
    BY <1>3
  <1> QED
    BY <1>3, <1>4, <1>5, <1>6

LEMMA LostIsSalvaged ==
    ASSUME NEW r, NEW sink, NEW events, Salvaged(r, sink, events), NEW i \in DOMAIN events
    PROVE  Salvaged(r, sink, RemoveAt(events, i))
  <1>1. Len(events) \in Nat /\ DOMAIN events = 1 .. Len(events)
    BY SalvagedIsSeq
  <1>2. PICK S : events \in Seq(S)
    BY SalvagedIsSeq
  <1> DEFINE n == Len(events) - 1
  <1>3. n \in Nat /\ Len(events) = n + 1 /\ i \in 1 .. n + 1 /\ DOMAIN events = 1 .. n + 1
    BY <1>1
  <1> HIDE DEF n
  <1> DEFINE from == [l \in 1 .. n |-> IF l < i THEN l ELSE l + 1]
  <1>4. from \in [1 .. n -> DOMAIN events]
    BY <1>3
  <1>5. \A l, m \in 1 .. n : from[l] = from[m] => l = m
    BY <1>3
  <1>6. RemoveAt(events, i) = [l \in 1 .. n |-> events[from[l]]]
    <2>1. RemoveAt(events, i) = [l \in 1 .. n |-> events[IF l < i THEN l ELSE l + 1]]
      BY <1>2, <1>3, RemovedIs
    <2>2. \A l \in 1 .. n : from[l] = IF l < i THEN l ELSE l + 1
      OBVIOUS
    <2> HIDE DEF from
    <2> QED
      BY <2>1, <2>2
  <1> HIDE DEF from
  <1>7. n \in Nat
    BY <1>3
  <1>8. Salvaged(r, sink, [l \in 1 .. n |-> events[from[l]]])
    BY <1>4, <1>5, <1>7, RearrangedIsSalvaged
  <1> QED
    BY <1>6, <1>8

LEMMA SwappedIsSalvaged ==
    ASSUME NEW r, NEW sink, NEW events, Salvaged(r, sink, events), NEW i \in DOMAIN events,
           i + 1 \in DOMAIN events
    PROVE  Salvaged(r, sink, [events EXCEPT ![i] = events[i + 1], ![i + 1] = events[i]])
  <1>1. Len(events) \in Nat /\ DOMAIN events = 1 .. Len(events)
    BY SalvagedIsSeq
  <1>2. PICK S : events \in Seq(S)
    BY SalvagedIsSeq
  <1> DEFINE n == Len(events)
             from == [l \in 1 .. n |-> IF l = i THEN i + 1 ELSE IF l = i + 1 THEN i ELSE l]
  <1>3. n \in Nat /\ from \in [1 .. n -> DOMAIN events]
    BY <1>1
  <1>4. \A l, m \in 1 .. n : from[l] = from[m] => l = m
    BY <1>1
  <1>5. [events EXCEPT ![i] = events[i + 1], ![i + 1] = events[i]]
            = [l \in 1 .. n |-> events[from[l]]]
    BY <1>1, <1>2
  <1> HIDE DEF from, n
  <1>6. Salvaged(r, sink, [l \in 1 .. n |-> events[from[l]]])
    BY <1>3, <1>4, RearrangedIsSalvaged
  <1> QED
    BY <1>5, <1>6

(* Signed again, the events are in a chain of the signature's, from where they were. *)
LEMMA ResignedIsSalvaged ==
    ASSUME NEW r, NEW s, NEW k \in Nat, NEW p, HoldsSlots(s, k, p),
           NEW events, Salvaged(r, s.sink, events), NEW kept \in SUBSET DOMAIN events
    PROVE  Salvaged(r, s.sink, resign_with_filter(Resigner(r), events, kept).events)
  <1> DEFINE old == s.sink.events
             id == Resigner(r)
             sink == resign_with_filter(id, events, kept)
             new == sink.events
  <1>1. Len(events) \in Nat /\ DOMAIN events = 1 .. Len(events)
    BY SalvagedIsSeq
  <1>2. PICK other \in {r, Resigner(r)}, origin \in [DOMAIN events -> DOMAIN old] :
            ComesFrom(other, old, events, origin)
    BY Zenon DEF Salvaged
  <1>3. \A n \in DOMAIN old : old[n].run = s.run
    BY EventBelongs
  <1> HIDE DEF old, id
  <1>4. \A m \in DOMAIN events :
            /\ origin[m] \in DOMAIN old
            /\ events[m] = Filed(other, old[origin[m]], events[m].sequence)
    BY <1>2 DEF ComesFrom
  <1>5. \A m \in 1 .. Len(events) : events[m].run = s.run
    <2>1. \A m \in DOMAIN events : events[m].run = old[origin[m]].run
      <3> SUFFICES ASSUME NEW m \in DOMAIN events PROVE events[m].run = old[origin[m]].run
        OBVIOUS
      <3>1. PICK q : events[m] = Filed(other, old[origin[m]], q)
        BY <1>4
      <3> QED
        BY <3>1, FiledAgain
    <2> QED
      BY <1>1, <1>3, <1>4, <2>1
  <1>6. kept \in SUBSET (1 .. Len(events))
    BY <1>1
  <1>7. HoldsRefiled(sink, id, Signed(events), events, kept, Len(events))
    BY <1>1, <1>5, <1>6, ResignHolds
  <1> HIDE DEF sink
  <1>8. /\ new \in Seq(RefiledEvents(id, events, kept))
        /\ \A i \in DOMAIN new :
              \E m \in kept : Place(kept, m) = i /\ new[i] = Refiled(id, events, kept, m)
    BY <1>7 DEF HoldsRefiled
  <1>9. ASSUME NEW m \in kept
        PROVE  /\ Place(kept, m) \in Nat
               /\ Refiled(id, events, kept, m) = Filed(id, old[origin[m]], Place(kept, m))
    <2>1. Place(kept, m) \in 0 .. m /\ m \in Nat
      <3>1. \A n \in 0 .. Len(events) : Place(kept, n) \in 0 .. n
        BY <1>1, <1>6, PlaceIs
      <3> QED
        BY <1>1, <1>6, <3>1
    <2>2. Refiled(id, events, kept, m) = Filed(id, events[m], Place(kept, m))
      BY DEF Refiled, Filed
    <2>3. Filed(id, events[m], Place(kept, m)) = Filed(id, old[origin[m]], Place(kept, m))
      BY <1>4, FiledAgain
    <2> QED
      BY <2>1, <2>2, <2>3
  <1>10. new \in Seq(FiledEvents(id, old))
    <2>1. RefiledEvents(id, events, kept) \subseteq FiledEvents(id, old)
      BY <1>4, <1>9 DEF RefiledEvents, FiledEvents
    <2> QED
      BY <1>8, <2>1, SeqOfMore
  <1> HIDE DEF new
  <1> DEFINE source == [i \in DOMAIN new |->
                            CHOOSE m \in kept :
                                Place(kept, m) = i /\ new[i] = Refiled(id, events, kept, m)]
             moved == [i \in DOMAIN new |-> origin[source[i]]]
  <1>11. \A i \in DOMAIN new : /\ source[i] \in kept
                               /\ Place(kept, source[i]) = i
                               /\ new[i] = Refiled(id, events, kept, source[i])
    BY <1>8
  <1> HIDE DEF source
  <1>12. \A i \in DOMAIN new : /\ moved[i] \in DOMAIN old
                               /\ new[i] = Filed(id, old[moved[i]], new[i].sequence)
    <2> SUFFICES ASSUME NEW i \in DOMAIN new
                 PROVE  /\ moved[i] \in DOMAIN old
                        /\ new[i] = Filed(id, old[moved[i]], new[i].sequence)
      OBVIOUS
    <2>1. moved[i] = origin[source[i]] /\ source[i] \in kept
      BY <1>11
    <2>2. new[i] = Filed(id, old[moved[i]], Place(kept, source[i]))
      BY <1>9, <1>11, <2>1
    <2>3. new[i].sequence = Place(kept, source[i])
      BY <2>2 DEF Filed
    <2> QED
      BY <1>4, <2>1, <2>2, <2>3
  <1>13. \A i, l \in DOMAIN new : moved[i] = moved[l] => i = l
    BY <1>2, <1>11 DEF ComesFrom
  <1>14. moved \in [DOMAIN new -> DOMAIN old]
    BY <1>12
  <1> HIDE DEF moved
  <1>15. ComesFrom(id, old, new, moved)
    BY <1>10, <1>12, <1>13 DEF ComesFrom
  <1> QED
    BY <1>14, <1>15, Zenon DEF Salvaged, id, old, new, sink

LEMMA DamageKeeps ==
    ASSUME EvidenceInv, NEW r \in Runs, NEW events, Damage(r, events),
           Salvaged(r, runs[r].sink, events)
    PROVE  EvidenceInv'
  <1>1. retained' = [retained EXCEPT ![r] = events] /\ runs' = runs /\ Finished(r)
    BY DEF Damage, EvidenceInv
  <1>2. \A q \in Runs : Finished(q) <=> Finished(q)'
    BY <1>1 DEF Finished
  <1>3. \A q \in Runs : q # r => retained'[q] = retained[q]
    BY <1>1 DEF EvidenceInv
  <1>4. DOMAIN retained' = Runs /\ retained'[r] = events
    BY <1>1 DEF EvidenceInv
  <1> QED
    BY <1>1, <1>2, <1>3, <1>4 DEF EvidenceInv

(* Whatever is kept of runs, and then lost, reordered or signed again in whatever *)
(* order it has come into, is of finished runs and made of their events, none of  *)
(* them twice (write_jsonl, resign_with_filter).                                  *)
THEOREM EvidenceIsSalvaged == RunsSpec => []EvidenceInv
  <1>1. Init => EvidenceInv
    BY DEF Init, EvidenceInv
  <1>2. ASSUME RunsKnown, EvidenceInv, [Next]_vars PROVE EvidenceInv'
    <2>0. DOMAIN runs = Runs
      BY <1>2 DEF RunsKnown
    <2>1. CASE UNCHANGED vars
      BY <1>2, <2>1 DEF vars, EvidenceInv, Finished
    <2>2. ASSUME NEW r \in Runs,
                 ~ Finished(r) /\ (\E st : runs' = [runs EXCEPT ![r] = st]) /\ UNCHANGED retained
          PROVE  EvidenceInv'
      BY <1>2, <2>0, <2>2, NothingKept
    <2>3. ASSUME NEW r \in Runs, NEW scenario \in Scenarios, StartRun(r, scenario)
          PROVE  EvidenceInv'
      <3>1. runs[r] = Idle /\ runs' = [runs EXCEPT ![r] = Started(r, scenario)]
        BY <2>3 DEF StartRun
      <3>2. ~ Finished(r)
        BY <3>1 DEF Idle, Finished
      <3>3. UNCHANGED retained
        BY <2>3 DEF StartRun
      <3> QED
        BY <2>2, <3>1, <3>2, <3>3
    <2>4. ASSUME NEW r \in Runs, NEW answer \in Answers, PlannerFails(r, answer)
          PROVE  EvidenceInv'
      <3>1. runs[r] = Idle /\ runs' = [runs EXCEPT ![r] = Failed] /\ UNCHANGED retained
        BY <2>4 DEF PlannerFails, Failed
      <3>2. ~ Finished(r)
        BY <3>1 DEF Idle, Finished
      <3> QED
        BY <2>2, <3>1, <3>2
    <2>5. ASSUME NEW r \in Runs, NEW workflow, NEW phase, NEW after, Step(r, workflow, phase, after),
                 phase \notin {"reported", "replayed"}
          PROVE  EvidenceInv'
      BY <2>2, <2>5 DEF Step, Finished
    <2>6. ASSUME NEW r \in Runs,
                 \/ Canonicalize(r) \/ Review(r) \/ Approval(r) \/ Authority(r) \/ Policy(r)
                 \/ CountRows(r) \/ Report(r) \/ CanonicalizeApplication(r) \/ Features(r)
                 \/ CreditPolicy(r) \/ Decide(r) \/ Notice(r)
          PROVE  EvidenceInv'
      BY <2>5, <2>6 DEF Canonicalize, Review, Approval, Authority, Policy, CountRows, Report,
                        CanonicalizeApplication, Features, CreditPolicy, Decide, Notice
    <2>7. ASSUME NEW r \in Runs, Commit(r) PROVE EvidenceInv'
      BY <2>2, <2>7 DEF Commit, Finished
    <2>8. ASSUME NEW r \in Runs, OmitToolResponse(r) \/ AblateIncome(r) PROVE EvidenceInv'
      <3>1. \E st : runs' = [runs EXCEPT ![r] = st]
        BY <2>8 DEF OmitToolResponse, AblateIncome
      <3>2. ~ Finished(r) /\ UNCHANGED retained
        BY <2>8 DEF OmitToolResponse, AblateIncome, Finished
      <3> QED
        BY <2>2, <3>1, <3>2
    <2>9. ASSUME NEW r \in Runs, Abort(r) PROVE EvidenceInv'
      BY <2>2, <2>9 DEF Abort, Finished
    <2>10. ASSUME NEW r \in Runs, Keep(r) PROVE EvidenceInv'
      <3>1. Salvaged(r, runs[r].sink, runs[r].sink.events)
        <4>1. /\ runs[r].sink.id = r
              /\ Phases(runs[r])[runs[r].phase] \in Nat
              /\ HoldsSlots(runs[r], Phases(runs[r])[runs[r].phase], KnownProof(runs[r]))
          <5>1. Finished(r)
            BY <2>10 DEF Keep
          <5>2. RunKnown(r, runs[r])
            BY <1>2, <5>1, FinishedIsKnown
          <5>3. runs[r].sink.id = r
            BY <5>2 DEF RunKnown, RunFixed
          <5>4. /\ Phases(runs[r])[runs[r].phase] \in {LastSlot(runs[r]) - 1, LastSlot(runs[r])}
                /\ LastSlot(runs[r]) \in {14, 16}
                /\ HoldsSlots(runs[r], Phases(runs[r])[runs[r].phase], KnownProof(runs[r]))
            BY <1>2, <5>1, FinishedIsKnown
          <5> QED
            BY <5>3, <5>4
        <4> QED
          BY <4>1, WholeIsSalvaged
      <3>2. /\ retained' = [retained EXCEPT ![r] = runs[r].sink.events]
            /\ runs' = runs /\ Finished(r)
        BY <2>10 DEF Keep
      <3>3. \A q \in Runs : Finished(q) <=> Finished(q)'
        BY <3>2 DEF Finished
      <3>4. /\ \A q \in Runs : q # r => retained'[q] = retained[q]
            /\ DOMAIN retained' = Runs /\ retained'[r] = runs[r].sink.events
        BY <1>2, <3>2 DEF EvidenceInv
      <3> QED
        BY <1>2, <3>1, <3>2, <3>3, <3>4 DEF EvidenceInv
    <2>11. ASSUME NEW r \in Runs,
                  NEW i \in DOMAIN retained[r], LoseEvent(r, i) \/ SwapEvents(r, i)
           PROVE  EvidenceInv'
      <3>1. retained[r] # <<>> /\ Salvaged(r, runs[r].sink, retained[r])
        BY <1>2, <2>11 DEF LoseEvent, SwapEvents, Damage, EvidenceInv
      <3>2. CASE LoseEvent(r, i)
        BY <1>2, <3>1, <3>2, LostIsSalvaged, DamageKeeps DEF LoseEvent
      <3>3. CASE SwapEvents(r, i)
        BY <1>2, <3>1, <3>3, SwappedIsSalvaged, DamageKeeps DEF SwapEvents
      <3> QED
        BY <2>11, <3>2, <3>3
    <2>12. ASSUME NEW r \in Runs, NEW kept \in SUBSET DOMAIN retained[r], Resign(r, kept)
           PROVE  EvidenceInv'
      <3>1. Finished(r) /\ Salvaged(r, runs[r].sink, retained[r])
        BY <1>2, <2>12 DEF Resign, Damage, EvidenceInv
      <3>2. /\ Phases(runs[r])[runs[r].phase] \in Nat
            /\ HoldsSlots(runs[r], Phases(runs[r])[runs[r].phase], KnownProof(runs[r]))
        BY <1>2, <3>1, FinishedIsKnown
      <3>3. Salvaged(r, runs[r].sink,
                     resign_with_filter(Resigner(r), retained[r], kept).events)
        BY <3>1, <3>2, ResignedIsSalvaged
      <3> QED
        BY <1>2, <2>12, <3>3, DamageKeeps DEF Resign
    <2> QED
      BY <1>2, <2>1, <2>3, <2>4, <2>6, <2>7, <2>8, <2>9, <2>10, <2>11, <2>12 DEF Next
  <1> QED
    BY <1>1, <1>2, RunsAreKnown, PTL DEF RunsSpec

(* Kept evidence that the verifier without the world accepts says everything the  *)
(* run emitted, nothing twice and nothing else, in the run's own chain event for  *)
(* event, and the oracle that knows the world certifies it, after any losses,     *)
(* reorderings and signing again: of none of them is there a bound                *)
(* (verify_run_evidence, certify_adapter_run).                                    *)
THEOREM AcceptedEvidenceHolds == RunsSpec => []AcceptedEvidenceIsWhole
  BY RunsAreKnown, EvidenceIsSalvaged, AcceptedIsWhole, PTL

===============================================================================
