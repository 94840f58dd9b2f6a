----------------------------- MODULE Dispatcher -----------------------------
(***************************************************************************)
(* The instrumented dispatch boundary (adapters/instrumented.py) and the   *)
(* two coverage receipts computed from its ledgers (adapters/receipts.py). *)
(*                                                                         *)
(* The dispatcher keeps four append-only ledgers in memory and calls a     *)
(* host-supplied ToolExecutor.  The executor is external: it may raise     *)
(* before or after the tool took effect, answer for another call, or fail  *)
(* to commit to the state after an effect.  A caller that sees such an     *)
(* exception may dispatch the same call id again, or close the run.        *)
(*                                                                         *)
(* Arguments and result contents are abstracted: they matter only through  *)
(* the equality of two requests, for which the tool name stands.  A state  *)
(* root is the number of effects the durable state has absorbed.           *)
(***************************************************************************)
EXTENDS Integers, Sequences, FiniteSets

CONSTANTS
    CallIds,        \* identifiers the orchestrator gives to calls
    Tools,          \* tool names
    MutatingTools,  \* those the executor classifies as mutating
    Requestors,     \* who may ask for a call
    Agent,          \* the requestor whose calls the receipts are about
    MaxEffects      \* bound of the model: durable effects explored

ASSUME ToolsAssumption == MutatingTools \subseteq Tools
ASSUME AgentAssumption == Agent \in Requestors
ASSUME EffectsAssumption == MaxEffects \in Nat

VARIABLES
    request_ledger,         \* requests captured before dispatch
    interaction_ledger,     \* results captured after dispatch
    write_ledger,           \* the agent's writes, with roots before and after
    terminal_dispositions,  \* "not_dispatched" entries committed at the end
    effects,                \* the durable state: call ids in order of effect
    faulty                  \* calls on which a host capability failed (history)

ledgers == <<request_ledger, interaction_ledger, write_ledger, terminal_dispositions>>
vars == <<ledgers, effects, faulty>>

Request == [call_id : CallIds, tool_name : Tools, requestor : Requestors, mutating : BOOLEAN]
Result == [call_id : CallIds, requestor : Requestors]
Write == [sequence : Nat, call_id : CallIds, pre_state_root : Nat, post_state_root : Nat]
Disposition == [call_id : CallIds, requestor : Requestors, mutating : BOOLEAN]

CallsIn(ledger) == {ledger[i].call_id : i \in DOMAIN ledger}

\* A part of a ledger: its entries at some of the positions, which they keep.
At(ledger, positions) == [i \in positions |-> ledger[i]]

OfAgent(ledger) == At(ledger, {i \in DOMAIN ledger : ledger[i].requestor = Agent})

(***************************************************************************)
(* The external executor                                                   *)
(***************************************************************************)

is_mutating(tool) == tool \in MutatingTools

state_root == Len(effects)

\* The durable states one execution can leave: a mutating tool may change it.
EffectsOfExecuting(call, tool) ==
    IF is_mutating(tool) /\ Len(effects) < MaxEffects
    THEN {effects, Append(effects, call)}
    ELSE {effects}

(***************************************************************************)
(* The dispatcher                                                          *)
(***************************************************************************)

Init ==
    /\ request_ledger = <<>>
    /\ interaction_ledger = <<>>
    /\ write_ledger = <<>>
    /\ terminal_dispositions = <<>>
    /\ effects = <<>>
    /\ faulty = {}

Candidate(call, tool, who) ==
    [call_id |-> call, tool_name |-> tool, requestor |-> who, mutating |-> is_mutating(tool)]

\* An entry that exists must be the very request; a conflicting reuse raises.
Recordable(call, tool, who) ==
    \A i \in DOMAIN request_ledger :
        request_ledger[i].call_id = call => request_ledger[i] = Candidate(call, tool, who)

Record(call, tool, who) ==
    /\ Recordable(call, tool, who)
    /\ request_ledger' = IF call \in CallsIn(request_ledger)
                         THEN request_ledger
                         ELSE Append(request_ledger, Candidate(call, tool, who))

RecordRequest(call, tool, who) ==
    /\ Record(call, tool, who)
    /\ UNCHANGED <<interaction_ledger, write_ledger, terminal_dispositions, effects, faulty>>

Dispose(request) == [call_id |-> request.call_id, requestor |-> request.requestor,
                     mutating |-> request.mutating]

\* Requests with neither a result nor a disposition, in the order captured.
CloseRequests ==
    LET settled == CallsIn(interaction_ledger) \cup CallsIn(terminal_dispositions)
        pending == {i \in DOMAIN request_ledger : request_ledger[i].call_id \notin settled}
    IN  /\ \E order \in [1..Cardinality(pending) -> pending] :
               /\ \A j, k \in DOMAIN order : j < k => order[j] < order[k]
               /\ terminal_dispositions' =
                      terminal_dispositions \o
                      [k \in DOMAIN order |-> Dispose(request_ledger[order[k]])]
        /\ UNCHANGED <<request_ledger, interaction_ledger, write_ledger, effects, faulty>>

\* execute_call up to the executor: a call that has a result is refused.
Dispatchable(call) == call \notin CallsIn(interaction_ledger)

\* The executor raises, or answers for another call id: whatever it did to the
\* durable state, the dispatcher keeps the request and nothing else.
ExecutionRaises(call, tool, who) ==
    /\ Record(call, tool, who)
    /\ Dispatchable(call)
    /\ effects' \in EffectsOfExecuting(call, tool)
    /\ faulty' = faulty \cup {call}
    /\ UNCHANGED <<interaction_ledger, write_ledger, terminal_dispositions>>

CaptureResult(call, who) ==
    interaction_ledger' = Append(interaction_ledger, [call_id |-> call, requestor |-> who])

\* Mutant: the root before a write is the one the last receipt ended with.
ChainedEntry(call, pre, post) ==
    [sequence |-> Len(interaction_ledger), call_id |-> call, post_state_root |-> post,
     pre_state_root |-> IF write_ledger = <<>> THEN 0
                        ELSE write_ledger[Len(write_ledger)].post_state_root]

\* Mutant: the root before a write is the one of the start of the run.
EntrySinceStart(call, pre, post) ==
    [sequence |-> Len(interaction_ledger), call_id |-> call,
     pre_state_root |-> 0, post_state_root |-> post]

WriteEntry(call, pre, post) ==
    [sequence |-> Len(interaction_ledger), call_id |-> call,
     pre_state_root |-> pre, post_state_root |-> post]

\* Mutant: the write is receipted only if this call captured the request.
ExecuteFirstSight(call, tool, who) ==
    /\ Record(call, tool, who)
    /\ Dispatchable(call)
    /\ effects' \in EffectsOfExecuting(call, tool)
    /\ CaptureResult(call, who)
    /\ write_ledger' = IF is_mutating(tool) /\ who = Agent /\ call \notin CallsIn(request_ledger)
                       THEN Append(write_ledger, WriteEntry(call, state_root, state_root'))
                       ELSE write_ledger
    /\ UNCHANGED <<terminal_dispositions, faulty>>

\* The executor answers and, for a mutating tool, the root is read again.
ExecuteCall(call, tool, who) ==
    /\ Record(call, tool, who)
    /\ Dispatchable(call)
    /\ effects' \in EffectsOfExecuting(call, tool)
    /\ CaptureResult(call, who)
    /\ write_ledger' = IF is_mutating(tool) /\ who = Agent
                       THEN Append(write_ledger, WriteEntry(call, state_root, state_root'))
                       ELSE write_ledger
    /\ UNCHANGED <<terminal_dispositions, faulty>>

\* The second reading of the root fails: the result is captured, the write not.
PostRootRaises(call, tool, who) ==
    /\ Record(call, tool, who)
    /\ Dispatchable(call)
    /\ is_mutating(tool)
    /\ effects' \in EffectsOfExecuting(call, tool)
    /\ CaptureResult(call, who)
    /\ faulty' = faulty \cup {call}
    /\ UNCHANGED <<write_ledger, terminal_dispositions>>

Next ==
    \/ CloseRequests
    \/ \E call \in CallIds, tool \in Tools, who \in Requestors :
           \/ RecordRequest(call, tool, who)
           \/ ExecutionRaises(call, tool, who)
           \/ ExecuteCall(call, tool, who)
           \/ PostRootRaises(call, tool, who)

Spec == Init /\ [][Next]_vars

(***************************************************************************)
(* The receipts                                                            *)
(***************************************************************************)

NoRepeats(ledger) ==
    \A i, j \in DOMAIN ledger : ledger[i].call_id = ledger[j].call_id => i = j

\* Mutant: the two kinds of answer need not be disjoint.
Covered(requests, answers, dispositions) ==
    /\ NoRepeats(requests) /\ NoRepeats(answers) /\ NoRepeats(dispositions)
    /\ CallsIn(requests) = CallsIn(answers) \cup CallsIn(dispositions)

\* Each request has exactly one result or one disposition.
Closed(requests, answers, dispositions) ==
    /\ NoRepeats(requests) /\ NoRepeats(answers) /\ NoRepeats(dispositions)
    /\ CallsIn(answers) \cap CallsIn(dispositions) = {}
    /\ CallsIn(requests) = CallsIn(answers) \cup CallsIn(dispositions)

tool_result_coverage ==
    Closed(OfAgent(request_ledger), OfAgent(interaction_ledger), OfAgent(terminal_dispositions))

\* Mutant: the write receipt closes over every request of the agent.
MutatingOrNot(ledger) == ledger

Mutating(ledger) == At(ledger, {i \in DOMAIN ledger : ledger[i].mutating})

write_coverage ==
    Closed(Mutating(OfAgent(request_ledger)), write_ledger,
           Mutating(OfAgent(terminal_dispositions)))

(***************************************************************************)
(* Properties                                                              *)
(***************************************************************************)

\* The ledgers hold entries of their kind and roots are counted from zero.
TypeOK ==
    /\ request_ledger \in Seq(Request)
    /\ interaction_ledger \in Seq(Result)
    /\ write_ledger \in Seq(Write)
    /\ terminal_dispositions \in Seq(Disposition)
    /\ effects \in Seq(CallIds)
    /\ faulty \subseteq CallIds

\* The positions of the durable log that a write receipt brackets.
Bracket(e) == (e.pre_state_root + 1)..e.post_state_root

\* A write receipt blames nobody else: every durable effect between its two
\* roots is one of the call it names, whatever failed and was tried again.
ReceiptsBracketTheirCall ==
    \A i \in DOMAIN write_ledger :
        /\ Bracket(write_ledger[i]) \subseteq DOMAIN effects
        /\ \A k \in Bracket(write_ledger[i]) : effects[k] = write_ledger[i].call_id

\* Receipts of later writes start where earlier ones ended or later, so no
\* durable effect is receipted twice.
ReceiptsAreOrdered ==
    \A i, j \in DOMAIN write_ledger :
        i < j => write_ledger[i].post_state_root <= write_ledger[j].pre_state_root

Receipted(k) == \E i \in DOMAIN write_ledger : k \in Bracket(write_ledger[i])

ByAgent(call) ==
    \E i \in DOMAIN request_ledger :
        request_ledger[i].call_id = call /\ request_ledger[i].requestor = Agent

\* An effect of the agent that no write receipt brackets comes from a call on
\* which the executor or the reading of the root failed.
UnreceiptedMeansFault ==
    \A k \in DOMAIN effects :
        ByAgent(effects[k]) /\ ~Receipted(k) => effects[k] \in faulty

\* The two receipts cannot disagree silently: with the results of the agent's
\* calls complete, the writes are complete too unless a root was not read.
ReceiptsAgree ==
    tool_result_coverage /\ ~write_coverage =>
        \E call \in faulty : call \in CallsIn(interaction_ledger) /\ ByAgent(call)

\* Dispatching a request after the run was closed leaves it with two answers,
\* and from then on the run can never be reported as completely covered.
ContradictionsAreFinal ==
    [][(\E call \in CallsIn(interaction_ledger) \cap CallsIn(terminal_dispositions) :
            ByAgent(call)) => ~tool_result_coverage']_vars

\* "Trusted terminal disposition for a request that was never dispatched":
\* nothing disposed of as not_dispatched has changed the durable state.
NotDispatchedHadNoEffect ==
    \A call \in CallsIn(terminal_dispositions) :
        call \notin CallsIn(interaction_ledger) =>
            \A k \in DOMAIN effects : effects[k] # call

=============================================================================
