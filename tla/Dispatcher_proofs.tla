-------------------------- MODULE Dispatcher_proofs --------------------------
(***************************************************************************)
(* The dispatcher for any number of calls, tools and requestors.  First    *)
(* what the write receipts say about the durable state, in which the       *)
(* dispositions play no part; then what the two coverage receipts say of   *)
(* each other, which is about nothing else.                                *)
(***************************************************************************)
EXTENDS Dispatcher, FiniteSetTheorems, TLAPS

LedgerTypes ==
    /\ request_ledger \in Seq(Request)
    /\ interaction_ledger \in Seq(Result)
    /\ write_ledger \in Seq(Write)
    /\ effects \in Seq(CallIds)

\* A call id stands for one request: Recordable refuses any other.
OneRequestPerCall ==
    \A i, j \in DOMAIN request_ledger :
        request_ledger[i].call_id = request_ledger[j].call_id =>
            request_ledger[i] = request_ledger[j]

\* No receipt ends beyond the durable state.
ReceiptsAreOfThePast ==
    \A i \in DOMAIN write_ledger :
        /\ write_ledger[i].pre_state_root <= write_ledger[i].post_state_root
        /\ write_ledger[i].post_state_root <= Len(effects)

\* Whoever has an effect asked for it.
EffectsWereRequested ==
    \A k \in DOMAIN effects : effects[k] \in CallsIn(request_ledger)

ReceiptInv ==
    /\ LedgerTypes
    /\ OneRequestPerCall
    /\ EffectsWereRequested
    /\ ReceiptsAreOfThePast
    /\ ReceiptsBracketTheirCall
    /\ ReceiptsAreOrdered
    /\ UnreceiptedMeansFault

\* An execution adds at most one effect, its own, at the end.
LEMMA OneEffect ==
    ASSUME LedgerTypes, NEW call \in CallIds, NEW tool, effects' \in EffectsOfExecuting(call, tool)
    PROVE  /\ effects' \in Seq(CallIds)
           /\ Len(effects) <= Len(effects')
           /\ \A k \in DOMAIN effects : k \in DOMAIN effects' /\ effects'[k] = effects[k]
           /\ \A k \in DOMAIN effects' : k \notin DOMAIN effects => effects'[k] = call
           /\ ~is_mutating(tool) => effects' = effects
  <1>1. effects' = effects \/ (is_mutating(tool) /\ effects' = Append(effects, call))
    BY DEF EffectsOfExecuting
  <1>2. CASE effects' = effects
    BY <1>2 DEF LedgerTypes
  <1>3. CASE is_mutating(tool) /\ effects' = Append(effects, call)
    BY <1>3 DEF LedgerTypes
  <1> QED BY <1>1, <1>2, <1>3

\* Recording keeps every request, adds the one named, and stays functional.
LEMMA RecordKeeps ==
    ASSUME LedgerTypes, OneRequestPerCall, ToolsAssumption,
           NEW call \in CallIds, NEW tool \in Tools, NEW who \in Requestors,
           Record(call, tool, who)
    PROVE  /\ request_ledger' \in Seq(Request)
           /\ \A i \in DOMAIN request_ledger :
                  i \in DOMAIN request_ledger' /\ request_ledger'[i] = request_ledger[i]
           /\ \E i \in DOMAIN request_ledger' : request_ledger'[i] = Candidate(call, tool, who)
           /\ \A i \in DOMAIN request_ledger' :
                  i \notin DOMAIN request_ledger => request_ledger'[i] = Candidate(call, tool, who)
           /\ OneRequestPerCall'
  <1>1. Candidate(call, tool, who) \in Request
    BY DEF Candidate, Request, is_mutating
  <1>2. Candidate(call, tool, who).call_id = call
    BY DEF Candidate
  <1>3. CASE call \in CallsIn(request_ledger)
    BY <1>3, <1>2 DEF Record, Recordable, CallsIn, LedgerTypes, OneRequestPerCall
  <1>4. CASE call \notin CallsIn(request_ledger)
    <2>1. request_ledger' = Append(request_ledger, Candidate(call, tool, who))
      BY <1>4 DEF Record
    <2>2. \A i \in DOMAIN request_ledger : request_ledger[i].call_id # call
      BY <1>4 DEF CallsIn
    <2>3. /\ request_ledger' \in Seq(Request)
          /\ \A i \in DOMAIN request_ledger :
                 i \in DOMAIN request_ledger' /\ request_ledger'[i] = request_ledger[i]
          /\ \A i \in DOMAIN request_ledger' :
                 i \notin DOMAIN request_ledger => request_ledger'[i] = Candidate(call, tool, who)
          /\ Len(request_ledger) + 1 \in DOMAIN request_ledger'
          /\ request_ledger'[Len(request_ledger) + 1] = Candidate(call, tool, who)
      BY <2>1, <1>1 DEF LedgerTypes
    <2>4. OneRequestPerCall'
      BY <2>2, <2>3, <1>2 DEF OneRequestPerCall
    <2> QED BY <2>3, <2>4
  <1> QED BY <1>3, <1>4

\* Who asked for a call does not change, and the call just recorded has the
\* requestor of this request only.
LEMMA RequestorsStay ==
    ASSUME LedgerTypes, OneRequestPerCall, ToolsAssumption,
           NEW call \in CallIds, NEW tool \in Tools, NEW who \in Requestors,
           Record(call, tool, who)
    PROVE  /\ \A c \in CallsIn(request_ledger) :
                  c \in CallsIn(request_ledger') /\ ByAgent(c)' = ByAgent(c)
           /\ call \in CallsIn(request_ledger')
           /\ ByAgent(call)' <=> who = Agent
  <1> USE RecordKeeps
  <1>1. Candidate(call, tool, who).call_id = call /\ Candidate(call, tool, who).requestor = who
    BY DEF Candidate
  <1>2. call \in CallsIn(request_ledger')
    BY <1>1 DEF CallsIn
  <1>3. ByAgent(call)' <=> who = Agent
    BY <1>1 DEF ByAgent, OneRequestPerCall
  <1>4. ASSUME NEW c \in CallsIn(request_ledger)
        PROVE  c \in CallsIn(request_ledger') /\ ByAgent(c)' = ByAgent(c)
    <2>1. PICK i \in DOMAIN request_ledger : request_ledger[i].call_id = c
      BY DEF CallsIn
    <2>2. i \in DOMAIN request_ledger' /\ request_ledger'[i] = request_ledger[i]
      OBVIOUS
    <2>3. ByAgent(c) <=> request_ledger[i].requestor = Agent
      BY <2>1 DEF ByAgent, OneRequestPerCall
    <2>4. ByAgent(c)' <=> request_ledger'[i].requestor = Agent
      BY <2>1, <2>2 DEF ByAgent, OneRequestPerCall
    <2> QED BY <2>1, <2>2, <2>3, <2>4 DEF CallsIn, ByAgent
  <1> QED BY <1>2, <1>3, <1>4

\* A step that executes a call and keeps the write ledger, or appends to it
\* the entry whose bracket is what the execution added.
Executes(call, tool, who) ==
    /\ Record(call, tool, who)
    /\ effects' \in EffectsOfExecuting(call, tool)

LEMMA BracketsSurvive ==
    ASSUME ReceiptInv, ToolsAssumption,
           NEW call \in CallIds, NEW tool \in Tools, NEW who \in Requestors,
           Executes(call, tool, who),
           \/ write_ledger' = write_ledger
           \/ write_ledger' = Append(write_ledger, WriteEntry(call, state_root, state_root'))
    PROVE  /\ write_ledger' \in Seq(Write)
           /\ ReceiptsAreOfThePast'
           /\ ReceiptsBracketTheirCall'
           /\ ReceiptsAreOrdered'
           /\ EffectsWereRequested'
  <1>0. LedgerTypes /\ OneRequestPerCall
    BY DEF ReceiptInv
  <1>1. /\ effects' \in Seq(CallIds)
        /\ Len(effects) <= Len(effects')
        /\ \A k \in DOMAIN effects : k \in DOMAIN effects' /\ effects'[k] = effects[k]
        /\ \A k \in DOMAIN effects' : k \notin DOMAIN effects => effects'[k] = call
    BY <1>0, OneEffect DEF Executes
  <1>2. effects \in Seq(CallIds) /\ write_ledger \in Seq(Write) /\ interaction_ledger \in Seq(Result)
    BY <1>0 DEF LedgerTypes
  <1>3. EffectsWereRequested'
    BY <1>0, <1>1, RequestorsStay DEF Executes, EffectsWereRequested, ReceiptInv
  <1>6. /\ Len(effects) \in Nat /\ Len(effects') \in Nat
        /\ \A i \in DOMAIN write_ledger : /\ write_ledger[i].pre_state_root \in Nat
                                         /\ write_ledger[i].post_state_root \in Nat
    <2>1. \A i \in DOMAIN write_ledger : write_ledger[i] \in Write
      BY <1>2
    <2>2. \A e \in Write : e.pre_state_root \in Nat /\ e.post_state_root \in Nat
      BY DEF Write
    <2> QED BY <1>1, <1>2, <2>1, <2>2
  <1>7. ReceiptsAreOfThePast /\ ReceiptsAreOrdered
    BY DEF ReceiptInv
  <1>4. CASE write_ledger' = write_ledger
    <2>1. ReceiptsAreOfThePast'
      BY <1>1, <1>4, <1>6, <1>7 DEF ReceiptsAreOfThePast
    <2>2. ReceiptsBracketTheirCall'
      BY <1>1, <1>4 DEF ReceiptsBracketTheirCall, ReceiptInv, Bracket
    <2>3. ReceiptsAreOrdered'
      BY <1>4 DEF ReceiptsAreOrdered, ReceiptInv
    <2> QED BY <1>2, <1>3, <1>4, <2>1, <2>2, <2>3
  <1>5. CASE write_ledger' = Append(write_ledger, WriteEntry(call, state_root, state_root'))
    <2> DEFINE entry == WriteEntry(call, state_root, state_root')
    <2>1. /\ entry \in Write
          /\ entry.call_id = call
          /\ entry.pre_state_root = Len(effects)
          /\ entry.post_state_root = Len(effects')
      BY <1>1, <1>2 DEF WriteEntry, Write, state_root
    <2> HIDE DEF entry
    <2>2. /\ write_ledger' \in Seq(Write)
          /\ DOMAIN write_ledger' = DOMAIN write_ledger \cup {Len(write_ledger) + 1}
          /\ \A i \in DOMAIN write_ledger : write_ledger'[i] = write_ledger[i] /\ i <= Len(write_ledger)
          /\ write_ledger'[Len(write_ledger) + 1] = entry
      BY <1>2, <1>5, <2>1 DEF entry
    <2>3. ReceiptsAreOfThePast'
      BY <1>1, <1>6, <1>7, <2>1, <2>2 DEF ReceiptsAreOfThePast
    <2>4. ReceiptsBracketTheirCall'
      <3> SUFFICES ASSUME NEW i \in DOMAIN write_ledger'
                   PROVE  /\ Bracket(write_ledger'[i]) \subseteq DOMAIN effects'
                          /\ \A k \in Bracket(write_ledger'[i]) : effects'[k] = write_ledger'[i].call_id
        BY DEF ReceiptsBracketTheirCall, Bracket
      <3>1. CASE i \in DOMAIN write_ledger
        BY <3>1, <1>1, <2>2 DEF ReceiptsBracketTheirCall, ReceiptInv, Bracket
      <3>2. CASE i = Len(write_ledger) + 1
        <4>1. Bracket(write_ledger'[i]) = (Len(effects) + 1)..Len(effects')
          BY <3>2, <2>1, <2>2 DEF Bracket
        <4>2. \A k \in (Len(effects) + 1)..Len(effects') : k \in DOMAIN effects' /\ k \notin DOMAIN effects
          BY <1>1, <1>2
        <4> QED BY <3>2, <4>1, <4>2, <1>1, <2>1, <2>2
      <3> QED BY <3>1, <3>2, <2>2
    <2>5. ReceiptsAreOrdered'
      BY <1>1, <1>2, <1>6, <1>7, <2>1, <2>2 DEF ReceiptsAreOrdered, ReceiptsAreOfThePast
    <2> QED BY <1>3, <2>2, <2>3, <2>4, <2>5
  <1> QED BY <1>4, <1>5

\* What is receipted stays so, and the requestor of an effect does not change.
LEMMA OldEffects ==
    ASSUME ReceiptInv, ToolsAssumption,
           NEW call \in CallIds, NEW tool \in Tools, NEW who \in Requestors,
           Executes(call, tool, who),
           \/ write_ledger' = write_ledger
           \/ write_ledger' = Append(write_ledger, WriteEntry(call, state_root, state_root')),
           faulty \subseteq faulty'
    PROVE  \A k \in DOMAIN effects, c \in CallIds :
               c = effects[k] /\ ByAgent(c)' /\ ~Receipted(k)' => c \in faulty'
  <1>0. LedgerTypes /\ OneRequestPerCall /\ write_ledger \in Seq(Write)
    BY DEF ReceiptInv, LedgerTypes
  <1> SUFFICES ASSUME NEW k \in DOMAIN effects, NEW c \in CallIds,
                      c = effects[k], ByAgent(c)', ~Receipted(k)'
               PROVE  c \in faulty'
    OBVIOUS
  <1>1. c \in CallsIn(request_ledger)
    BY DEF ReceiptInv, EffectsWereRequested
  <1>2. ByAgent(c)
    BY <1>0, <1>1, RequestorsStay DEF Executes
  <1>3. ASSUME NEW i \in DOMAIN write_ledger
        PROVE  i \in DOMAIN write_ledger' /\ write_ledger'[i] = write_ledger[i]
    <2>1. CASE write_ledger' = write_ledger
      BY <2>1
    <2>2. CASE write_ledger' = Append(write_ledger, WriteEntry(call, state_root, state_root'))
      BY <1>0, <2>2
    <2> QED BY <2>1, <2>2
  <1>4. ~Receipted(k)
    BY <1>3 DEF Receipted, Bracket
  <1> QED BY <1>2, <1>4 DEF ReceiptInv, UnreceiptedMeansFault

LEMMA ReceiptInit == Init => ReceiptInv
  BY DEF Init, ReceiptInv, LedgerTypes, OneRequestPerCall, EffectsWereRequested,
         ReceiptsAreOfThePast, ReceiptsBracketTheirCall, ReceiptsAreOrdered,
         UnreceiptedMeansFault, CallsIn, Result, Write

\* An execution that is not receipted and is not the agent's, or failed.
LEMMA UnreceiptedExecution ==
    ASSUME ReceiptInv, ToolsAssumption,
           NEW call \in CallIds, NEW tool \in Tools, NEW who \in Requestors,
           Executes(call, tool, who),
           \/ write_ledger' = write_ledger
           \/ write_ledger' = Append(write_ledger, WriteEntry(call, state_root, state_root')),
           faulty \subseteq faulty',
           \/ ~is_mutating(tool)
           \/ who # Agent
           \/ call \in faulty'
           \/ write_ledger' = Append(write_ledger, WriteEntry(call, state_root, state_root'))
    PROVE  UnreceiptedMeansFault'
  <1>0. LedgerTypes /\ OneRequestPerCall /\ write_ledger \in Seq(Write)
    BY DEF ReceiptInv, LedgerTypes
  <1>1. /\ effects' \in Seq(CallIds)
        /\ \A k \in DOMAIN effects : effects'[k] = effects[k]
        /\ \A k \in DOMAIN effects' : k \notin DOMAIN effects => effects'[k] = call
        /\ ~is_mutating(tool) => effects' = effects
    BY <1>0, OneEffect DEF Executes
  <1>2. \A k \in DOMAIN effects', c \in CallIds :
            c = effects'[k] /\ ByAgent(c)' /\ ~Receipted(k)' => c \in faulty'
    <2> SUFFICES ASSUME NEW k \in DOMAIN effects', NEW c \in CallIds,
                        c = effects'[k], ByAgent(c)', ~Receipted(k)'
                 PROVE  c \in faulty'
      OBVIOUS
    <2>1. CASE k \in DOMAIN effects
      BY <2>1, <1>1, OldEffects
    <2>2. CASE k \notin DOMAIN effects
      <3>1. c = call /\ is_mutating(tool)
        BY <2>2, <1>1
      <3>2. who = Agent
        BY <3>1, <1>0, RequestorsStay DEF Executes
      <3>3. CASE write_ledger' = Append(write_ledger, WriteEntry(call, state_root, state_root'))
        <4>1. k \in (Len(effects) + 1)..Len(effects')
          BY <2>2, <1>0, <1>1 DEF LedgerTypes
        <4>2. /\ Len(write_ledger) + 1 \in DOMAIN write_ledger'
              /\ write_ledger'[Len(write_ledger) + 1] = WriteEntry(call, state_root, state_root')
          <5>1. WriteEntry(call, state_root, state_root') \in Write
            BY <1>0, <1>1 DEF WriteEntry, Write, state_root, LedgerTypes
          <5> QED BY <3>3, <5>1, <1>0
        <4>3. k \in Bracket(write_ledger'[Len(write_ledger) + 1])
          BY <4>1, <4>2 DEF Bracket, WriteEntry, state_root
        <4>4. Receipted(k)'
          BY <4>2, <4>3 DEF Receipted, Bracket
        <4> QED BY <4>4
      <3> QED BY <3>1, <3>2, <3>3
    <2> QED BY <2>1, <2>2
  <1>3. \A k \in DOMAIN effects' : effects'[k] \in CallIds
    BY <1>1
  <1>4. \A k \in DOMAIN effects' : ByAgent(effects[k])' /\ ~Receipted(k)' => effects'[k] \in faulty'
    BY <1>2, <1>3 DEF ByAgent
  <1> QED BY <1>4 DEF UnreceiptedMeansFault

LEMMA ReceiptStep == ReceiptInv /\ [Next]_vars => ReceiptInv'
  <1> SUFFICES ASSUME ReceiptInv, [Next]_vars
               PROVE  ReceiptInv'
    OBVIOUS
  <1> USE ToolsAssumption, AgentAssumption
  <1>0. LedgerTypes /\ OneRequestPerCall
    BY DEF ReceiptInv
  <1>1. CASE UNCHANGED <<request_ledger, interaction_ledger, write_ledger, effects, faulty>>
    BY <1>1 DEF ReceiptInv, LedgerTypes, OneRequestPerCall, EffectsWereRequested,
                ReceiptsAreOfThePast, ReceiptsBracketTheirCall, ReceiptsAreOrdered,
                UnreceiptedMeansFault, CallsIn, Bracket, Receipted, ByAgent
  <1>2. CASE CloseRequests
    BY <1>1, <1>2 DEF CloseRequests
  <1>3. CASE UNCHANGED vars
    BY <1>1, <1>3 DEF vars, ledgers
  <1>4. ASSUME NEW call \in CallIds, NEW tool \in Tools, NEW who \in Requestors,
               \/ RecordRequest(call, tool, who)
               \/ ExecutionRaises(call, tool, who)
               \/ ExecuteCall(call, tool, who)
               \/ PostRootRaises(call, tool, who)
        PROVE  ReceiptInv'
    <2>0. Record(call, tool, who)
      BY <1>4 DEF RecordRequest, ExecutionRaises, ExecuteCall, PostRootRaises
    <2>1. request_ledger' \in Seq(Request) /\ OneRequestPerCall'
      BY <1>0, <2>0, RecordKeeps
    <2>2. interaction_ledger' \in Seq(Result)
      <3>1. [call_id |-> call, requestor |-> who] \in Result
        BY DEF Result
      <3>2. \/ interaction_ledger' = interaction_ledger
            \/ interaction_ledger' = Append(interaction_ledger, [call_id |-> call, requestor |-> who])
        BY <1>4 DEF RecordRequest, ExecutionRaises, ExecuteCall, PostRootRaises, CaptureResult
      <3>3. interaction_ledger \in Seq(Result)
        BY <1>0 DEF LedgerTypes
      <3> QED BY <3>1, <3>2, <3>3
    <2>3. CASE RecordRequest(call, tool, who)
      <3>1. UNCHANGED <<write_ledger, effects, faulty>>
        BY <2>3 DEF RecordRequest
      <3>2. EffectsWereRequested'
        BY <1>0, <2>0, <3>1, RequestorsStay DEF EffectsWereRequested, ReceiptInv
      <3>3. ReceiptsAreOfThePast' /\ ReceiptsBracketTheirCall' /\ ReceiptsAreOrdered'
        BY <3>1 DEF ReceiptInv, ReceiptsAreOfThePast, ReceiptsBracketTheirCall,
                    ReceiptsAreOrdered, Bracket
      <3>4. \A c \in CallsIn(request_ledger) : ByAgent(c)' = ByAgent(c)
        BY <1>0, <2>0, RequestorsStay
      <3>5. \A k \in DOMAIN effects : ByAgent(effects[k])' <=> ByAgent(effects[k])
        BY <3>1, <3>4 DEF EffectsWereRequested, ReceiptInv, ByAgent
      <3>6. UnreceiptedMeansFault'
        BY <3>1, <3>5 DEF ReceiptInv, UnreceiptedMeansFault, Receipted, Bracket
      <3> QED BY <1>0, <2>1, <2>2, <3>1, <3>2, <3>3, <3>6 DEF ReceiptInv, LedgerTypes
    <2>4. CASE \/ ExecutionRaises(call, tool, who)
               \/ ExecuteCall(call, tool, who)
               \/ PostRootRaises(call, tool, who)
      <3>1. Executes(call, tool, who)
        BY <2>4 DEF Executes, ExecutionRaises, ExecuteCall, PostRootRaises
      <3>2. /\ \/ write_ledger' = write_ledger
               \/ write_ledger' = Append(write_ledger, WriteEntry(call, state_root, state_root'))
            /\ faulty \subseteq faulty'
            /\ \/ ~is_mutating(tool)
               \/ who # Agent
               \/ call \in faulty'
               \/ write_ledger' = Append(write_ledger, WriteEntry(call, state_root, state_root'))
        BY <2>4 DEF ExecutionRaises, ExecuteCall, PostRootRaises
      <3>3. effects' \in Seq(CallIds)
        BY <1>0, <3>1, OneEffect DEF Executes
      <3>4. /\ write_ledger' \in Seq(Write)
            /\ ReceiptsAreOfThePast'
            /\ ReceiptsBracketTheirCall'
            /\ ReceiptsAreOrdered'
            /\ EffectsWereRequested'
        BY <3>1, <3>2, BracketsSurvive
      <3>5. UnreceiptedMeansFault'
        BY <3>1, <3>2, UnreceiptedExecution
      <3> QED BY <2>1, <2>2, <3>3, <3>4, <3>5 DEF ReceiptInv, LedgerTypes
    <2> QED BY <1>4, <2>3, <2>4
  <1> QED BY <1>2, <1>3, <1>4 DEF Next

\* A write receipt blames nobody else, in every run of every instance.
THEOREM ReceiptsAreAttributed == Spec => []ReceiptsBracketTheirCall
  <1>1. ReceiptInv => ReceiptsBracketTheirCall
    BY DEF ReceiptInv
  <1> QED BY ReceiptInit, ReceiptStep, <1>1, PTL DEF Spec

\* No durable effect is receipted twice.
THEOREM NothingReceiptedTwice == Spec => []ReceiptsAreOrdered
  <1>1. ReceiptInv => ReceiptsAreOrdered
    BY DEF ReceiptInv
  <1> QED BY ReceiptInit, ReceiptStep, <1>1, PTL DEF Spec

\* An effect of the agent goes without a receipt only after a host failure.
THEOREM OnlyFaultsLoseReceipts == Spec => []UnreceiptedMeansFault
  <1>1. ReceiptInv => UnreceiptedMeansFault
    BY DEF ReceiptInv
  <1> QED BY ReceiptInit, ReceiptStep, <1>1, PTL DEF Spec

(***************************************************************************)
(* The coverage receipts                                                   *)
(***************************************************************************)

\* Each result answers a request, with its requestor.
ResultsWereRequested ==
    \A i \in DOMAIN interaction_ledger :
        \E j \in DOMAIN request_ledger :
            /\ request_ledger[j].call_id = interaction_ledger[i].call_id
            /\ request_ledger[j].requestor = interaction_ledger[i].requestor

\* Each receipted write is an answered, mutating request of the agent.
WritesWereAnswered ==
    \A i \in DOMAIN write_ledger :
        /\ write_ledger[i].call_id \in CallsIn(interaction_ledger)
        /\ \E j \in DOMAIN request_ledger :
               /\ request_ledger[j].call_id = write_ledger[i].call_id
               /\ request_ledger[j].requestor = Agent
               /\ request_ledger[j].mutating

\* An answered write of the agent has no receipt only if a root was not read.
UnwrittenMeansFault ==
    \A j \in DOMAIN request_ledger :
        /\ request_ledger[j].requestor = Agent
        /\ request_ledger[j].mutating
        /\ request_ledger[j].call_id \in CallsIn(interaction_ledger)
        /\ request_ledger[j].call_id \notin CallsIn(write_ledger)
        => request_ledger[j].call_id \in faulty

\* Each disposition is a copy of a request.
DispositionsCopyRequests ==
    \A i \in DOMAIN terminal_dispositions :
        \E j \in DOMAIN request_ledger : terminal_dispositions[i] = Dispose(request_ledger[j])

CoverageInv ==
    /\ terminal_dispositions \in Seq(Disposition)
    /\ NoRepeats(request_ledger)
    /\ NoRepeats(interaction_ledger)
    /\ NoRepeats(write_ledger)
    /\ ResultsWereRequested
    /\ WritesWereAnswered
    /\ UnwrittenMeansFault
    /\ DispositionsCopyRequests

\* What appending an entry does to a ledger.
LEMMA Appending ==
    ASSUME NEW S, NEW s \in Seq(S), NEW e \in S
    PROVE  /\ Append(s, e) \in Seq(S)
           /\ DOMAIN Append(s, e) = DOMAIN s \cup {Len(s) + 1}
           /\ Len(s) + 1 \notin DOMAIN s
           /\ \A i \in DOMAIN s : Append(s, e)[i] = s[i]
           /\ Append(s, e)[Len(s) + 1] = e
           /\ CallsIn(Append(s, e)) = CallsIn(s) \cup {e.call_id}
  <1>1. /\ Append(s, e) \in Seq(S)
        /\ DOMAIN Append(s, e) = DOMAIN s \cup {Len(s) + 1}
        /\ Len(s) + 1 \notin DOMAIN s
        /\ \A i \in DOMAIN s : Append(s, e)[i] = s[i]
        /\ Append(s, e)[Len(s) + 1] = e
    OBVIOUS
  <1>2. CallsIn(Append(s, e)) = CallsIn(s) \cup {e.call_id}
    BY <1>1, Zenon DEF CallsIn
  <1> QED BY <1>1, <1>2

\* An entry for a call that has none yet keeps the ledger free of repeats.
LEMMA FreshEntry ==
    ASSUME NEW S, NEW s \in Seq(S), NEW e \in S, NoRepeats(s), e.call_id \notin CallsIn(s)
    PROVE  NoRepeats(Append(s, e))
  BY Appending DEF NoRepeats, CallsIn

\* The initial ledgers are empty.
LEMMA CoverageInit == Init => CoverageInv
  BY DEF Init, CoverageInv, NoRepeats, ResultsWereRequested, WritesWereAnswered,
         UnwrittenMeansFault, DispositionsCopyRequests, Disposition

\* Recording a request repeats none, and a call that has a request keeps it.
LEMMA RecordRepeatsNone ==
    ASSUME LedgerTypes, ToolsAssumption, NoRepeats(request_ledger),
           NEW call \in CallIds, NEW tool \in Tools, NEW who \in Requestors,
           Record(call, tool, who)
    PROVE  /\ NoRepeats(request_ledger')
           /\ \A i \in DOMAIN request_ledger :
                  i \in DOMAIN request_ledger' /\ request_ledger'[i] = request_ledger[i]
           /\ \E i \in DOMAIN request_ledger' : request_ledger'[i] = Candidate(call, tool, who)
           /\ \A i \in DOMAIN request_ledger' :
                  request_ledger'[i].call_id # call
                  => i \in DOMAIN request_ledger /\ request_ledger'[i] = request_ledger[i]
  <1>1. Candidate(call, tool, who) \in Request /\ Candidate(call, tool, who).call_id = call
    BY DEF Candidate, Request, is_mutating
  <1>2. OneRequestPerCall
    BY DEF NoRepeats, OneRequestPerCall
  <1>3. NoRepeats(request_ledger')
    <2>1. CASE call \in CallsIn(request_ledger)
      BY <2>1 DEF Record
    <2>2. CASE call \notin CallsIn(request_ledger)
      BY <2>2, <1>1, FreshEntry DEF Record, LedgerTypes
    <2> QED BY <2>1, <2>2
  <1> QED BY <1>1, <1>2, <1>3, RecordKeeps

\* A run is closed with copies of requests.
LEMMA ClosingCopies ==
    ASSUME LedgerTypes, CoverageInv, CloseRequests
    PROVE  /\ terminal_dispositions' \in Seq(Disposition)
           /\ DispositionsCopyRequests'
           /\ \A i \in DOMAIN terminal_dispositions :
                  /\ i \in DOMAIN terminal_dispositions'
                  /\ terminal_dispositions'[i] = terminal_dispositions[i]
  <1> DEFINE settled == CallsIn(interaction_ledger) \cup CallsIn(terminal_dispositions)
             pending == {i \in DOMAIN request_ledger : request_ledger[i].call_id \notin settled}
  <1>1. PICK order \in [1..Cardinality(pending) -> pending] :
            terminal_dispositions' = terminal_dispositions \o
                [k \in DOMAIN order |-> Dispose(request_ledger[order[k]])]
    BY Zenon DEF CloseRequests
  <1> DEFINE added == [k \in DOMAIN order |-> Dispose(request_ledger[order[k]])]
  <1>2. \A k \in DOMAIN order : order[k] \in DOMAIN request_ledger
    OBVIOUS
  <1>3. added \in Seq(Disposition)
    <2>1. \A r \in Request : Dispose(r) \in Disposition
      BY DEF Request, Dispose, Disposition
    <2>2. \A k \in DOMAIN order : request_ledger[order[k]] \in Request
      BY <1>2 DEF LedgerTypes
    <2>3. \A k \in DOMAIN order : added[k] \in Disposition
      BY <2>1, <2>2
    <2>4. CASE Cardinality(pending) \in Nat
      BY <2>3, <2>4
    <2>5. Cardinality(pending) \in Nat
      <3>1. IsFiniteSet(1..Len(request_ledger))
        BY FS_Interval DEF LedgerTypes
      <3>2. DOMAIN request_ledger = 1..Len(request_ledger)
        BY DEF LedgerTypes
      <3> HIDE DEF settled
      <3>3. IsFiniteSet(pending)
        BY <3>1, <3>2, FS_Subset
      <3> QED BY <3>3, FS_CardinalityType
    <2> QED BY <2>4, <2>5
  <1>4. terminal_dispositions \in Seq(Disposition)
    BY DEF CoverageInv
  <1>5. \A i \in DOMAIN added : \E j \in DOMAIN request_ledger : added[i] = Dispose(request_ledger[j])
    BY <1>2
  <1> HIDE DEF added
  <1>6. terminal_dispositions' = terminal_dispositions \o added
    BY <1>1 DEF added
  <1>7. /\ terminal_dispositions' \in Seq(Disposition)
        /\ \A i \in DOMAIN terminal_dispositions :
               /\ i \in DOMAIN terminal_dispositions'
               /\ terminal_dispositions'[i] = terminal_dispositions[i]
        /\ \A i \in DOMAIN terminal_dispositions' :
               i \notin DOMAIN terminal_dispositions =>
                   /\ i - Len(terminal_dispositions) \in DOMAIN added
                   /\ terminal_dispositions'[i] = added[i - Len(terminal_dispositions)]
    BY <1>3, <1>4, <1>6
  <1>8. request_ledger' = request_ledger
    BY DEF CloseRequests
  <1>9. \A i \in DOMAIN terminal_dispositions' :
            \E j \in DOMAIN request_ledger : terminal_dispositions'[i] = Dispose(request_ledger[j])
    BY <1>5, <1>7 DEF CoverageInv, DispositionsCopyRequests
  <1> QED BY <1>7, <1>8, <1>9 DEF DispositionsCopyRequests

\* What a call leaves in the ledgers: nothing, a result, or a result and the
\* receipt of a write of the agent.
Captures(call, tool, who) ==
    \/ UNCHANGED <<interaction_ledger, write_ledger>>
    \/ /\ call \notin CallsIn(interaction_ledger)
       /\ CaptureResult(call, who)
       /\ \/ /\ write_ledger' = Append(write_ledger, WriteEntry(call, state_root, state_root'))
             /\ is_mutating(tool)
             /\ who = Agent
          \/ /\ write_ledger' = write_ledger
             /\ is_mutating(tool) /\ who = Agent => call \in faulty'

LEMMA CallsCapture ==
    ASSUME NEW call, NEW tool, NEW who,
           \/ RecordRequest(call, tool, who)
           \/ ExecutionRaises(call, tool, who)
           \/ ExecuteCall(call, tool, who)
           \/ PostRootRaises(call, tool, who)
    PROVE  /\ Record(call, tool, who)
           /\ Captures(call, tool, who)
           /\ faulty \subseteq faulty'
           /\ UNCHANGED terminal_dispositions
  BY DEF RecordRequest, ExecutionRaises, ExecuteCall, PostRootRaises, Captures, Dispatchable

\* The parts of the invariant about results and writes survive a call.
LEMMA CapturesKeep ==
    ASSUME ReceiptInv, ReceiptInv', CoverageInv, ToolsAssumption,
           NEW call \in CallIds, NEW tool \in Tools, NEW who \in Requestors,
           Record(call, tool, who), Captures(call, tool, who), faulty \subseteq faulty'
    PROVE  /\ NoRepeats(interaction_ledger')
           /\ NoRepeats(write_ledger')
           /\ ResultsWereRequested'
           /\ WritesWereAnswered'
           /\ UnwrittenMeansFault'
  <1> DEFINE result == [call_id |-> call, requestor |-> who]
             entry == WriteEntry(call, state_root, state_root')
  <1>1. /\ LedgerTypes
        /\ interaction_ledger \in Seq(Result)
        /\ write_ledger \in Seq(Write)
    BY DEF ReceiptInv, LedgerTypes
  <1>2. /\ \A i \in DOMAIN request_ledger :
               i \in DOMAIN request_ledger' /\ request_ledger'[i] = request_ledger[i]
        /\ \A i \in DOMAIN request_ledger' :
               request_ledger'[i].call_id # call
               => i \in DOMAIN request_ledger /\ request_ledger'[i] = request_ledger[i]
        /\ NoRepeats(request_ledger')
    BY <1>1, RecordRepeatsNone DEF CoverageInv
  <1>3. PICK r \in DOMAIN request_ledger' : request_ledger'[r] = Candidate(call, tool, who)
    BY <1>1, RecordRepeatsNone DEF CoverageInv
  <1>4. /\ request_ledger'[r].call_id = call
        /\ request_ledger'[r].requestor = who
        /\ request_ledger'[r].mutating = is_mutating(tool)
    BY <1>3 DEF Candidate
  <1>5. result \in Result /\ result.call_id = call /\ result.requestor = who
    BY DEF Result
  <1>6. entry \in Write /\ entry.call_id = call
    <2>1. state_root \in Nat /\ state_root' \in Nat
      BY DEF ReceiptInv, LedgerTypes, state_root
    <2>2. Len(interaction_ledger) \in Nat
      BY <1>1
    <2> QED BY <2>1, <2>2 DEF WriteEntry, Write
  <1> HIDE DEF result, entry
  <1>7. CASE UNCHANGED <<interaction_ledger, write_ledger>>
    <2>1. CallsIn(interaction_ledger') = CallsIn(interaction_ledger) /\ CallsIn(write_ledger') = CallsIn(write_ledger)
      BY <1>7
    <2>2. NoRepeats(interaction_ledger') /\ NoRepeats(write_ledger')
      BY <1>7 DEF CoverageInv
    <2>3. ResultsWereRequested'
      BY <1>2, <1>7 DEF CoverageInv, ResultsWereRequested
    <2>4. WritesWereAnswered'
      BY <1>2, <1>7, <2>1 DEF CoverageInv, WritesWereAnswered
    <2>5. UnwrittenMeansFault'
      <3> SUFFICES ASSUME NEW j \in DOMAIN request_ledger',
                          request_ledger'[j].requestor = Agent,
                          request_ledger'[j].mutating,
                          request_ledger'[j].call_id \in CallsIn(interaction_ledger),
                          request_ledger'[j].call_id \notin CallsIn(write_ledger)
                   PROVE  request_ledger'[j].call_id \in faulty
        BY <2>1 DEF UnwrittenMeansFault
      <3>1. PICK i \in DOMAIN interaction_ledger :
                interaction_ledger[i].call_id = request_ledger'[j].call_id
        BY DEF CallsIn
      <3>2. PICK k \in DOMAIN request_ledger :
                request_ledger[k].call_id = request_ledger'[j].call_id
        BY <3>1 DEF CoverageInv, ResultsWereRequested
      <3>3. k = j
        BY <3>2, <1>2 DEF NoRepeats
      <3> QED BY <3>2, <3>3, <1>2 DEF CoverageInv, UnwrittenMeansFault
    <2> QED BY <2>2, <2>3, <2>4, <2>5
  <1>8. CASE /\ call \notin CallsIn(interaction_ledger)
             /\ CaptureResult(call, who)
    <2>1. interaction_ledger' = Append(interaction_ledger, result)
      BY <1>8 DEF CaptureResult, result
    <2>2. /\ NoRepeats(interaction_ledger')
          /\ CallsIn(interaction_ledger') = CallsIn(interaction_ledger) \cup {call}
          /\ DOMAIN interaction_ledger' = DOMAIN interaction_ledger \cup {Len(interaction_ledger) + 1}
          /\ \A i \in DOMAIN interaction_ledger : interaction_ledger'[i] = interaction_ledger[i]
          /\ interaction_ledger'[Len(interaction_ledger) + 1] = result
      BY <1>1, <1>5, <1>8, <2>1, Appending, FreshEntry DEF CoverageInv
    <2>3. ResultsWereRequested'
      <3>1. ASSUME NEW i \in DOMAIN interaction_ledger
            PROVE  \E j \in DOMAIN request_ledger' :
                       /\ request_ledger'[j].call_id = interaction_ledger'[i].call_id
                       /\ request_ledger'[j].requestor = interaction_ledger'[i].requestor
        BY <1>2, <2>2 DEF CoverageInv, ResultsWereRequested
      <3>2. \E j \in DOMAIN request_ledger' :
                /\ request_ledger'[j].call_id = result.call_id
                /\ request_ledger'[j].requestor = result.requestor
        BY <1>4, <1>5
      <3> QED BY <2>2, <3>1, <3>2 DEF ResultsWereRequested
    <2>4. call \notin CallsIn(write_ledger)
      BY <1>8 DEF CoverageInv, WritesWereAnswered, CallsIn
    <2>5. CASE /\ write_ledger' = Append(write_ledger, WriteEntry(call, state_root, state_root'))
               /\ is_mutating(tool)
               /\ who = Agent
      <3>1. /\ NoRepeats(write_ledger')
            /\ CallsIn(write_ledger') = CallsIn(write_ledger) \cup {call}
            /\ DOMAIN write_ledger' = DOMAIN write_ledger \cup {Len(write_ledger) + 1}
            /\ \A i \in DOMAIN write_ledger : write_ledger'[i] = write_ledger[i]
            /\ write_ledger'[Len(write_ledger) + 1] = entry
        BY <1>1, <1>6, <2>4, <2>5, Appending, FreshEntry DEF CoverageInv, entry
      <3>2. WritesWereAnswered'
        <4>1. ASSUME NEW i \in DOMAIN write_ledger
              PROVE  /\ write_ledger'[i].call_id \in CallsIn(interaction_ledger')
                     /\ \E j \in DOMAIN request_ledger' :
                            /\ request_ledger'[j].call_id = write_ledger'[i].call_id
                            /\ request_ledger'[j].requestor = Agent
                            /\ request_ledger'[j].mutating
          BY <1>2, <2>2, <3>1 DEF CoverageInv, WritesWereAnswered
        <4>2. /\ entry.call_id \in CallsIn(interaction_ledger')
              /\ \E j \in DOMAIN request_ledger' :
                     /\ request_ledger'[j].call_id = entry.call_id
                     /\ request_ledger'[j].requestor = Agent
                     /\ request_ledger'[j].mutating
          BY <1>4, <1>6, <2>2, <2>5
        <4> QED BY <3>1, <4>1, <4>2 DEF WritesWereAnswered
      <3>3. UnwrittenMeansFault'
        BY <1>2, <2>2, <3>1 DEF CoverageInv, UnwrittenMeansFault
      <3> QED BY <2>2, <2>3, <3>1, <3>2, <3>3
    <2>6. CASE /\ write_ledger' = write_ledger
               /\ is_mutating(tool) /\ who = Agent => call \in faulty'
      <3>1. NoRepeats(write_ledger') /\ CallsIn(write_ledger') = CallsIn(write_ledger)
        BY <2>6 DEF CoverageInv
      <3>2. WritesWereAnswered'
        BY <1>2, <2>2, <2>6 DEF CoverageInv, WritesWereAnswered
      <3>3. UnwrittenMeansFault'
        <4> SUFFICES ASSUME NEW j \in DOMAIN request_ledger',
                            request_ledger'[j].requestor = Agent,
                            request_ledger'[j].mutating,
                            request_ledger'[j].call_id \in CallsIn(interaction_ledger'),
                            request_ledger'[j].call_id \notin CallsIn(write_ledger')
                     PROVE  request_ledger'[j].call_id \in faulty'
          BY DEF UnwrittenMeansFault
        <4>1. CASE request_ledger'[j].call_id = call
          <5>1. j = r
            BY <4>1, <1>2, <1>3, <1>4 DEF NoRepeats
          <5> QED BY <5>1, <1>4, <2>6
        <4>2. CASE request_ledger'[j].call_id # call
          BY <4>2, <1>2, <2>2, <3>1 DEF CoverageInv, UnwrittenMeansFault
        <4> QED BY <4>1, <4>2
      <3> QED BY <2>2, <2>3, <3>1, <3>2, <3>3
    <2> QED BY <1>7, <1>8, <2>5, <2>6 DEF Captures
  <1> QED BY <1>7, <1>8 DEF Captures

LEMMA CoverageStep == ReceiptInv /\ ReceiptInv' /\ CoverageInv /\ [Next]_vars => CoverageInv'
  <1> SUFFICES ASSUME ReceiptInv, ReceiptInv', CoverageInv, [Next]_vars
               PROVE  CoverageInv'
    OBVIOUS
  <1>0. LedgerTypes
    BY DEF ReceiptInv
  <1>1. ASSUME UNCHANGED <<request_ledger, interaction_ledger, write_ledger, faulty>>,
               terminal_dispositions' \in Seq(Disposition),
               DispositionsCopyRequests'
        PROVE  CoverageInv'
    BY <1>1 DEF CoverageInv, ResultsWereRequested, WritesWereAnswered, UnwrittenMeansFault
  <1>2. CASE CloseRequests
    BY <1>0, <1>1, <1>2, ClosingCopies DEF CloseRequests
  <1>3. CASE UNCHANGED vars
    <2>1. DispositionsCopyRequests'
      BY <1>3 DEF CoverageInv, DispositionsCopyRequests, vars, ledgers
    <2> QED BY <1>1, <1>3, <2>1 DEF vars, ledgers, CoverageInv
  <1>4. ASSUME NEW call \in CallIds, NEW tool \in Tools, NEW who \in Requestors,
               \/ RecordRequest(call, tool, who)
               \/ ExecutionRaises(call, tool, who)
               \/ ExecuteCall(call, tool, who)
               \/ PostRootRaises(call, tool, who)
        PROVE  CoverageInv'
    <2>1. /\ Record(call, tool, who)
          /\ Captures(call, tool, who)
          /\ faulty \subseteq faulty'
          /\ UNCHANGED terminal_dispositions
      BY <1>4, CallsCapture
    <2>2. NoRepeats(request_ledger')
      BY <1>0, <2>1, ToolsAssumption, RecordRepeatsNone DEF CoverageInv
    <2>3. DispositionsCopyRequests'
      <3>1. \A i \in DOMAIN request_ledger :
                i \in DOMAIN request_ledger' /\ request_ledger'[i] = request_ledger[i]
        BY <1>0, <2>1, ToolsAssumption, RecordRepeatsNone DEF CoverageInv
      <3> QED BY <2>1, <3>1 DEF CoverageInv, DispositionsCopyRequests
    <2>4. /\ NoRepeats(interaction_ledger')
          /\ NoRepeats(write_ledger')
          /\ ResultsWereRequested'
          /\ WritesWereAnswered'
          /\ UnwrittenMeansFault'
      BY <2>1, ToolsAssumption, CapturesKeep
    <2> QED BY <2>1, <2>2, <2>3, <2>4 DEF CoverageInv
  <1> QED BY <1>2, <1>3, <1>4 DEF Next

\* The calls in a part of a ledger.
LEMMA CallsOfAgent ==
    ASSUME NEW ledger
    PROVE  CallsIn(OfAgent(ledger)) =
               {ledger[i].call_id : i \in {k \in DOMAIN ledger : ledger[k].requestor = Agent}}
  BY DEF CallsIn, OfAgent, At

LEMMA MutatingOfAgent ==
    ASSUME NEW ledger
    PROVE  /\ CallsIn(Mutating(OfAgent(ledger))) =
                  {ledger[i].call_id : i \in {k \in DOMAIN ledger :
                                                 ledger[k].requestor = Agent /\ ledger[k].mutating}}
           /\ NoRepeats(OfAgent(ledger)) => NoRepeats(Mutating(OfAgent(ledger)))
           /\ NoRepeats(ledger) => NoRepeats(OfAgent(ledger))
  <1> DEFINE mine == {k \in DOMAIN ledger : ledger[k].requestor = Agent}
             writes == {k \in DOMAIN ledger : ledger[k].requestor = Agent /\ ledger[k].mutating}
  <1>1. DOMAIN OfAgent(ledger) = mine /\ \A k \in mine : OfAgent(ledger)[k] = ledger[k]
    BY DEF OfAgent, At
  <1>2. /\ DOMAIN Mutating(OfAgent(ledger)) = writes
        /\ \A k \in writes : Mutating(OfAgent(ledger))[k] = ledger[k]
    BY <1>1 DEF Mutating, At
  <1>3. CallsIn(Mutating(OfAgent(ledger))) = {ledger[i].call_id : i \in writes}
    BY <1>2 DEF CallsIn
  <1>4. NoRepeats(OfAgent(ledger)) => NoRepeats(Mutating(OfAgent(ledger)))
    BY <1>1, <1>2 DEF NoRepeats
  <1>5. NoRepeats(ledger) => NoRepeats(OfAgent(ledger))
    BY <1>1 DEF NoRepeats
  <1> QED BY <1>3, <1>4, <1>5

\* The core of the agreement: what makes the results complete makes the
\* writes complete, since every write was answered and every disposition is
\* the copy of one request.
LEMMA CompleteResultsMeanCompleteWrites ==
    ASSUME CoverageInv, tool_result_coverage,
           \A call \in faulty : ~(call \in CallsIn(interaction_ledger) /\ ByAgent(call))
    PROVE  write_coverage
  <1> DEFINE requests == Mutating(OfAgent(request_ledger))
             disposed == Mutating(OfAgent(terminal_dispositions))
  <1>1. NoRepeats(requests) /\ NoRepeats(write_ledger) /\ NoRepeats(disposed)
    BY MutatingOfAgent DEF CoverageInv, tool_result_coverage, Closed
  <1>2. ASSUME NEW j \in DOMAIN request_ledger, NEW k \in DOMAIN request_ledger,
               request_ledger[j].call_id = request_ledger[k].call_id
        PROVE  j = k
    BY <1>2 DEF CoverageInv, NoRepeats
  <1>3. \A i \in DOMAIN terminal_dispositions :
            \E j \in DOMAIN request_ledger :
                /\ terminal_dispositions[i].call_id = request_ledger[j].call_id
                /\ terminal_dispositions[i].requestor = request_ledger[j].requestor
                /\ terminal_dispositions[i].mutating = request_ledger[j].mutating
    BY DEF CoverageInv, DispositionsCopyRequests, Dispose
  <1>4. ASSUME NEW call \in CallsIn(write_ledger)
        PROVE  /\ call \in CallsIn(requests)
               /\ call \in CallsIn(OfAgent(interaction_ledger))
    <2>1. PICK i \in DOMAIN write_ledger : write_ledger[i].call_id = call
      BY DEF CallsIn
    <2>2. PICK j \in DOMAIN request_ledger :
              /\ request_ledger[j].call_id = call
              /\ request_ledger[j].requestor = Agent
              /\ request_ledger[j].mutating
      BY <2>1 DEF CoverageInv, WritesWereAnswered
    <2>3. PICK a \in DOMAIN interaction_ledger : interaction_ledger[a].call_id = call
      BY <2>1 DEF CoverageInv, WritesWereAnswered, CallsIn
    <2>4. PICK k \in DOMAIN request_ledger :
              /\ request_ledger[k].call_id = call
              /\ request_ledger[k].requestor = interaction_ledger[a].requestor
      BY <2>3 DEF CoverageInv, ResultsWereRequested
    <2>5. k = j
      BY <1>2, <2>2, <2>4
    <2> QED BY <2>2, <2>3, <2>4, <2>5, CallsOfAgent, MutatingOfAgent
  <1>5. CallsIn(disposed) \subseteq CallsIn(OfAgent(terminal_dispositions))
    BY CallsOfAgent, MutatingOfAgent
  <1>6. CallsIn(disposed) \subseteq CallsIn(requests)
    BY <1>3, MutatingOfAgent
  <1>7. ASSUME NEW call \in CallsIn(requests)
        PROVE  call \in CallsIn(write_ledger) \cup CallsIn(disposed)
    <2>1. PICK j \in DOMAIN request_ledger :
              /\ request_ledger[j].call_id = call
              /\ request_ledger[j].requestor = Agent
              /\ request_ledger[j].mutating
      BY MutatingOfAgent
    <2>2. call \in CallsIn(OfAgent(request_ledger)) /\ ByAgent(call)
      BY <2>1, CallsOfAgent DEF ByAgent
    <2>3. CASE call \in CallsIn(OfAgent(interaction_ledger))
      <3>0. PICK i \in DOMAIN interaction_ledger : call = interaction_ledger[i].call_id
        BY <2>3, CallsOfAgent
      <3>1. call \in CallsIn(interaction_ledger)
        BY <3>0 DEF CallsIn
      <3>2. call \notin faulty
        BY <2>2, <3>1
      <3> QED BY <2>1, <3>1, <3>2 DEF CoverageInv, UnwrittenMeansFault
    <2>4. CASE call \in CallsIn(OfAgent(terminal_dispositions))
      <3>1. PICK i \in DOMAIN terminal_dispositions :
                /\ terminal_dispositions[i].call_id = call
                /\ terminal_dispositions[i].requestor = Agent
        BY <2>4, CallsOfAgent
      <3>2. terminal_dispositions[i].mutating
        BY <1>2, <1>3, <2>1, <3>1
      <3> QED BY <3>1, <3>2, MutatingOfAgent
    <2> QED BY <2>2, <2>3, <2>4 DEF tool_result_coverage, Closed
  <1>8. CallsIn(write_ledger) \cap CallsIn(disposed) = {}
    BY <1>4, <1>5 DEF tool_result_coverage, Closed
  <1>9. CallsIn(requests) = CallsIn(write_ledger) \cup CallsIn(disposed)
    BY <1>4, <1>6, <1>7
  <1> QED BY <1>1, <1>8, <1>9 DEF write_coverage, Closed

\* The ledgers of results and dispositions only grow.
LEMMA LedgersGrow ==
    ASSUME ReceiptInv, CoverageInv, [Next]_vars
    PROVE  /\ \A i \in DOMAIN interaction_ledger :
                  /\ i \in DOMAIN interaction_ledger'
                  /\ interaction_ledger'[i] = interaction_ledger[i]
           /\ \A i \in DOMAIN terminal_dispositions :
                  /\ i \in DOMAIN terminal_dispositions'
                  /\ terminal_dispositions'[i] = terminal_dispositions[i]
  <1>0. LedgerTypes /\ interaction_ledger \in Seq(Result)
    BY DEF ReceiptInv, LedgerTypes
  <1>1. CASE CloseRequests
    BY <1>0, <1>1, ClosingCopies DEF CloseRequests
  <1>2. CASE UNCHANGED vars
    BY <1>2 DEF vars, ledgers
  <1>3. ASSUME NEW call \in CallIds, NEW tool \in Tools, NEW who \in Requestors,
               \/ RecordRequest(call, tool, who)
               \/ ExecutionRaises(call, tool, who)
               \/ ExecuteCall(call, tool, who)
               \/ PostRootRaises(call, tool, who)
        PROVE  /\ \A i \in DOMAIN interaction_ledger :
                      /\ i \in DOMAIN interaction_ledger'
                      /\ interaction_ledger'[i] = interaction_ledger[i]
               /\ UNCHANGED terminal_dispositions
    <2>1. Captures(call, tool, who) /\ UNCHANGED terminal_dispositions
      BY <1>3, CallsCapture
    <2>2. [call_id |-> call, requestor |-> who] \in Result
      BY DEF Result
    <2> QED BY <1>0, <2>1, <2>2, Appending DEF Captures, CaptureResult
  <1> QED BY <1>1, <1>2, <1>3 DEF Next

\* With the results of the agent's calls complete, its writes are complete
\* too, unless a root could not be read after a result was captured.
THEOREM CoverageReceiptsAgree == Spec => []ReceiptsAgree
  <1>1. CoverageInv => ReceiptsAgree
    BY CompleteResultsMeanCompleteWrites DEF ReceiptsAgree
  <1> QED
    BY ReceiptInit, ReceiptStep, CoverageInit, CoverageStep, <1>1, PTL DEF Spec

\* A call with two answers keeps the run from ever being complete again.
THEOREM ContradictionsStay == Spec => ContradictionsAreFinal
  <1>1. ASSUME ReceiptInv, CoverageInv, [Next]_vars,
               NEW call \in CallsIn(interaction_ledger) \cap CallsIn(terminal_dispositions),
               ByAgent(call)
        PROVE  ~tool_result_coverage'
    <2>1. PICK i \in DOMAIN interaction_ledger : interaction_ledger[i].call_id = call
      BY DEF CallsIn
    <2>2. PICK d \in DOMAIN terminal_dispositions : terminal_dispositions[d].call_id = call
      BY DEF CallsIn
    <2>3. PICK j \in DOMAIN request_ledger :
              request_ledger[j].call_id = call /\ request_ledger[j].requestor = Agent
      BY <1>1 DEF ByAgent
    <2>4. interaction_ledger[i].requestor = Agent
      BY <1>1, <2>1, <2>3 DEF CoverageInv, ResultsWereRequested, NoRepeats
    <2>5. terminal_dispositions[d].requestor = Agent
      BY <1>1, <2>2, <2>3 DEF CoverageInv, DispositionsCopyRequests, Dispose, NoRepeats
    <2>6. /\ i \in DOMAIN interaction_ledger'
          /\ interaction_ledger'[i] = interaction_ledger[i]
          /\ d \in DOMAIN terminal_dispositions'
          /\ terminal_dispositions'[d] = terminal_dispositions[d]
      BY <1>1, LedgersGrow
    <2>7. /\ call \in CallsIn(OfAgent(interaction_ledger'))
          /\ call \in CallsIn(OfAgent(terminal_dispositions'))
      BY <2>1, <2>2, <2>4, <2>5, <2>6, CallsOfAgent
    <2> QED BY <2>7 DEF tool_result_coverage, Closed
  <1>2. ReceiptInv /\ CoverageInv /\ [Next]_vars =>
            [(\E call \in CallsIn(interaction_ledger) \cap CallsIn(terminal_dispositions) :
                  ByAgent(call)) => ~tool_result_coverage']_vars
    BY <1>1
  <1> QED
    BY ReceiptInit, ReceiptStep, CoverageInit, CoverageStep, <1>2, PTL
       DEF Spec, ContradictionsAreFinal

=============================================================================
