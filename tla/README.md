# A verification project for AuditSpec

AuditSpec compiles *claims* about a run of an agentic system into the evidence
that must be captured to decide them, checks captured evidence, and archives it
so that the claims can be verified again later. This directory holds TLA+
modules of the parts of it whose correctness depends on order, failure or
exhaustive search, the TLC configurations that check them on small instances,
and TLAPS proofs of the most important results for every instance. Paths below
are relative to the repository; `core/`, `adapters/` and so on are under
`src/auditspec/`. `PROJECT.json` is the index: components, runs, mutants, the
lines each definition models, hazards, findings and theorems.

## 1. The system

### 1.1 Components

| Component | State it keeps | Operations | Why it is hard, and what makes it correct |
|---|---|---|---|
| Evidence vault, writers (`core/evidence_vault.py`) | a directory: signed journal `events/`, content-addressed store `objects/sha256/`, `.lock`; per handle a signing key | archive and retire components, append evidence, seal bundles, place and release holds, two-stage deletion, rotation of the journal authority, recovery at every lock acquisition | crashes between any two file effects, several processes, stale handles, objects shared by several ids. Nothing needed is lost, nothing deleted is claimed too early, holds win, the journal stays replayable |
| Evidence vault, readers (same file) | a snapshot of the journal, gathered rows and gaps | read-only open with root pin, `retrieve_for_audit`, `reverify_json_predicate` | they take no lock. What they report lost really was deleted, what they report ready is one snapshot |
| Rust vault consumer (`rust/auditspec/src/vault.rs` and others) | the same directory | the same operations, with an unlocked check at open and its own recovery | two programs, one protocol. Together they keep the promises of one |
| Vault command line (`core/vault_cli.py`) | none | one call per command | none of its own |
| Contract compiler (`compiler.py`, `information.py`, `baselines.py`, `symbolic.py`) | constraint set, current selection, attempt | counterexample-guided synthesis, exact hitting-set search, twins and certificates | it stops after a few counterexamples and claims an optimum. The contract is auditable, least-cost, a refusal is final, certificates verify |
| Information-order calculus (`core/information_order.py`, `information_order.rs`) | none; its callers hold contracts, evidence and certificates | minimum contracts, lifecycle and migration certificates, audit horizon | one criterion written three times in two programs, with search limits. The answer is exact and witnessed, a lost claim stays lost, both programs agree |
| Model, specification, catalogue (`model.py`, `spec.py`, `expr.py`, `topology.py`, `catalog.py`, `model_adequacy.py`) | none | parsing, world enumeration, mediation proofs, adequacy of the finite abstraction | pure. Twins found are twins, adequacy is monotone |
| Core design pipeline (`core/pipeline.py`, `state_machine.py` and their IRs) | lifecycle state and its transition records | scope, validate, synthesize, plan; typed failure or limit at each gate | gates in order. No state is reached past a failed gate |
| Assurance gate (`assurance.py`), official gate (`official_gate.py`, `official_evaluator.py`) | trace of layers | six layers Q, A, D, R, M, V; re-execution by one of four profiles | ordered early returns with several sources of verdict. Success means every layer, failure blames the right layer |
| Premise minimality (`minimality.py`) | the certificate between two calls | make and verify a certificate that one removed premise explains a failure; both run the gate on a base and an extension | the gate and the premises are different code over one configuration, and its verifier may answer differently next time. A certificate names the cause and verifies again |
| Inventory authority (`inventory_authority.py`) | none | statements over declared inventories, schedule closure | binding of every field that is signed |
| Verifier registry (`verifier_registry.py`) | fuel | bounded in-process verifiers | fuel exhausted is never an answer |
| Isolated verifier (`isolated_verifier.py`, `verifier_worker.py`) | a worker process, a temporary directory | launch, wait, kill, read the result, receipt | timeout against late answer, crash, oversized output |
| Adapter registry, extension manifest (`adapter_registry.py`, `extension_manifest.py`) | none | static validation of manifests and structural deltas | pure |
| Local trust authority (`core/trust_keys.py`) | a set of child processes | start, sign, shut down | partial start and shutdown. The worker program, `core/trust_worker.py`, is not in the repository |
| Instrumented dispatcher and receipts (`adapters/`) | four in-memory ledgers | record a request, dispatch it, close the run, compute coverage | lost answers and retries over a host-supplied executor. A receipt names the right call, complete means complete |
| Runtime (`runtime/`) | per-run chain of events, a SQLite ledger that runs of one action share, traces of the planner | the nodes of the payment and the credit graph, emission, replay without a tool response or a feature, two verifiers of a run's events | two runs between commit and count; lost, reordered or re-signed events; a verifier that does not know the world. Accepted evidence is whole, honest evidence is accepted, counts and counterfactuals are true |
| External evidence (`external/`) | none | projection, attestation, layered verification | every check that the verdict depends on is made |
| Command line (`cli.py`) | none | argument parsing and printing | none of its own |

### 1.2 Interactions

The compiler reads a catalogue and yields a contract; the core pipeline does
the same over content-addressed records and adds a plan; the calculus does it
over tables of rows. They share no code. A dispatcher (or one
of the runtime fixtures) captures what the contract names. External evidence
and run verification check the captured packet; the assurance gate orders
those checks into layers and may re-execute a registered, isolated or official
verifier. The vault archives packets, schemas, keys, verifiers and policies,
and re-verifies predicates from the archive. Shared state exists at two places
only: the vault directory (several processes, one `flock`, readers without
it), and the durable state behind the dispatcher's executor. Processes are
started by the isolated verifier and by the local authorities.

### 1.3 Where it is hard

`PROJECT.json` lists the hazards with the lines where they bite and the
properties that cover them. In short: crash points inside vault mutations and
what recovery makes of them; deletion of objects that several ids share; a
handle that outlives a rotation of its key; readers that race with deletions;
two implementations of one on-disk protocol; a lost answer followed by a retry
at the dispatcher; a compiler that declares an optimum from a handful of
counterexamples, and two other engines that answer the same question with other
algorithms and limits; a ledger that another run writes between a commit and the
count of it; events that storage loses or reorders, judged by a verifier that
does not know what happened; and layered verdicts that must blame the right
layer.

## 2. Modules

| Module | What it is |
|---|---|
| `EvidenceVault` | the writers of the vault, one step per file effect |
| `VaultLifecycle` | the abstract vault: atomic operations, no files and no processes |
| `EvidenceVaultRefinement` | the mapping under which the former implements the latter |
| `VaultAudit` | extends `EvidenceVault` with lock-free readers |
| `VaultRuntimes` | extends `EvidenceVaultRefinement` with Rust writers and temporary files |
| `Dispatcher` | the dispatch boundary and its coverage receipts |
| `FiniteAudit` | worlds and mechanisms, as all three engines have them |
| `AuditCompiler` | the synthesis loop, its solver and its certificates |
| `DesignLifecycle` | the lifecycle's states, allowed edges and transition records |
| `DesignPipeline` | extends both: the core pipeline with its gates and its exact backend, called on the catalogue the compiler was called on |
| `InformationOrder` | the calculus, in Python and in Rust |
| `AuditEngines` | the composition: compiler, calculus and pipeline asked about one catalogue |
| `AssuranceGate` | the assurance gate and the premises, as operators over configurations |
| `PremiseMinimality` | extends it with the calls that make and verify certificates, and the isolated verifier's process |
| `RunEvidence` | the event sink, the two catalogues, the mediation proof and the two verifiers of a run, as operators |
| `AuditedRuns` | extends it with runs of the two workflows, their replays and the storage of their events |
| `EvidenceVault_proofs`, `VaultExtensions_proofs` | theorems about the vault: one program's writers; its readers and two programs' writers |
| `FiniteAudit_proofs`, `InformationOrder_proofs`, `AuditEngines_proofs` | theorems about the engines: sums and orders of finite sets, the calculus, the compiler and the pipeline and all three together |
| `Dispatcher_proofs`, `PremiseMinimality_proofs`, `AuditedRuns_proofs` | theorems about the modules of those names |
| `MC...` | constants, catalogues and symmetry sets for TLC |

Each module carries its mutants: a definition marked `Mutant:` is a plausible
wrong version of the definition that follows it, and the index names the
property that must fail when it takes the place of the original.

### 2.1 `EvidenceVault`

| Variable | In the code |
|---|---|
| `journal` | the files of `events/` in order; an event is `[signer, body]`. Digests and previous-event links are left out: a sequence already has them |
| `objects` | the files under `objects/sha256`; an object is its own digest |
| `lock` | holder of the `flock` on `.lock` |
| `handle` | the key of the `EvidenceVault` object of each process |
| `pc`, `todo` | where a process is inside a `_locked_mutation` method, and the event it still has to write |

A mutation is `Begin` (the lock), the `Recover...` and `Collect` steps of
`_recover_locked`, `Recovered`, then the body. `archive_component` and
`append_evidence` are an object write followed by `AppendPrepared`;
`delete_evidence` is `DeleteIntent`, `DeleteUnlink`, `AppendPrepared`; the
others publish one event. `Publish` contains the comparison of the handle's key
with the active authority that `_append_event` makes after its own replay.
`Crash` and `IOError` may happen at each of these points. `Replayable` is what
`replay()` demands of a journal, and `Open` is the constructor with a signer.
`create()` is the initial state.

Abstractions. The code asks for a schema, a key, a verifier and a policy and
permits a bridge; `DependencyKinds` and `BridgeKind` are constants and the
instances use one dependency kind, since the kinds are treated alike.
Timestamps are the caller's declarations, as in the code; they are integers
without a spelling. An event file appears at once (`os.link`); the temporary
file it is linked from matters to Rust only and is modelled in
`VaultRuntimes`. A crash is the death of a process: nothing that was linked is
lost.

### 2.2 `VaultLifecycle` and the refinement

The abstract vault knows components, evidence in the stages absent, live,
deleting and deleted, bundles, holds, and the keys used so far. While a
deletion is in progress nothing else can happen, and the bytes of live evidence
are always readable. It is the counterpart of the repository's own executable
reference, `tests/reference_models/vault_model.py`, but it is stated
independently of files. The mapping reads each abstract variable off the
journal, and `readable` off the object store.

### 2.3 `VaultAudit`

A reader lists the directory, and a listing that overlaps with writes may
contain any prefix that ends after its start, or fail its sequence check.
`SnapshotTaken` fixes the snapshot; each row of the bundle is then looked up
with one step for `is_file` and another for `read_bytes`, and each dependency
with its own step; `Result` compares the root pin. `reverify_json_predicate`
continues with a second replay (`ReplayAgain`, `Execute`). In the code that
second replay is not compared with the pin, and neither is it here.

Three consequences of reading without a lock are visible in the model and are
worth knowing: an audit that overlaps with a lawful deletion reports
`RETENTION_NONCOMPLIANCE` for it, or raises `FileNotFoundError` between its two
looks at the file; and a listing taken while writers are active may raise a
sequence error. `LossHasIntent` says how far this can go: what a reader misses has
a signed intent later than the reader's snapshot. `HeldEvidenceIsFound` follows:
it never goes as far as evidence under a hold.

### 2.4 `VaultRuntimes`

The Rust operations have the guards and effects of the Python ones, each
wrapped with what differs: `RustCheckSigner` runs before the lock is taken, and
every replay also fails when a temporary file of a dead writer lies in
`events/` (`residue`), because `vault.rs` numbers all directory entries while
Python selects `*.json`. `DieBeforeLink` and `DieAfterLink` leave such files.
A temporary file of a *living* writer has the same effect on a Rust open or
reader that runs at that moment; that transient error is left out.

### 2.5 `Dispatcher`

`request_ledger`, `interaction_ledger`, `write_ledger` and
`terminal_dispositions` are the lists of `InstrumentedDispatcher`. The executor
is external. `effects` is the durable state behind it: the list of effects it
has absorbed, of which the state root is the length. (Real roots are hashes;
an effect that restores an earlier state would repeat a root, which the model
does not show.) `ExecuteCall` is the normal path; `ExecutionRaises` the executor
that raises, or answers for another call, before or after its effect;
`PostRootRaises` the failure of the second reading of the root; a failure of
the first reading is `RecordRequest` and nothing more. The arguments of a call
matter only for the equality of repeated requests, and the tool name stands for
them.

### 2.6 `AuditCompiler`

A behaviour compiles one catalogue, chosen in `Init`. `Begin` builds the
structural constraints, `Select` runs the exact solver, `Conclude`, `Separate`,
`Inseparable` and `LimitReached` are the four ways through the loop body, and
`Return` contains the second attempt of mode `auto`. The solver is a recursive
*function* (`Leaves`) over the same branching as the code: `Unhit` are the
constraints that remain, `Pivot` the one that is branched on, and `Branches` the
closures of the choice with each of its members. Pruning by cost is left out,
since a pruned branch cannot hold a best set. `FirstTwin` is the
pair of worlds that the scan of `check_contract` meets first. Costs are natural
numbers where the code has floats. `BLOCKED` stands for the two refusals
`NOT_AUDITABLE_UNDER_CURRENT_TCB` and `UNREALIZABLE_INTERVENTION`, which are
reached the same way and differ in whether the catalogue has an active mechanism
(compiler.py:454-469).

### 2.7 `AssuranceGate` and `PremiseMinimality`

`AssuranceGate` has no variables. A configuration is a profile, the outcome of
the adequacy check, and the set of defects that the checks can see; the header
of the module lists them. `Checks` is the gate: its checks, each with its place in
`run_exact_assurance_gate`, its layer, its verdict and the number of
layers that the trace counts as passed when it fails. `first_failed_layer` and
`packet_errors` are the packet verifier of `external/evidence.py`, which the
gate consults at four places. `PremiseErrors` and `evaluate_premise` are the
premises of `minimality.py`, which look at the same configuration by different
calls; `rebound` holds the premises whose arguments name digests of another
configuration. An exception of the adequacy check, the packet verifier or the
authority statement is a defect of its own, because the gate catches it and the
premises do not. A verifier witness that is missing, one whose declared value is
no Boolean (`value`) and one without a replay id (`replay`) are three defects,
because four pieces of code look at different parts of it: the packet verifier
stops at the first two, premise V and the invocation checks ask for the first and
the third. An exception of the determinacy check or of the adapter checks
is left out.

`PremiseMinimality` gives the calls a state: `step` is the place in
`make_minimality_certificate` or `verify_p_minimality_certificate`, `gates` the
gate results of the present pass over base and extension, `certificate` what
`make` has issued. A gate run that needs no process is one step. Under the
isolated profile it is `Launch`, the steps of the worker (open the result file,
write it, exit, or die at any point), and `Collect` or `Expire` and `Kill`.
Between `Expire` and `Kill` the worker goes on, so it may finish just too late.
`Receipt` keeps what matters of a receipt: status, return code, and one of two
durations, which differ between executions. The premise set is the one of all
atoms, one for each mechanism in layer R. The digest of a gate result is the
result itself.

### 2.8 `DesignLifecycle` and `DesignPipeline`

`DesignLifecycle` is `core/state_machine.py`: an `attempt` on an allowed edge
keeps a record whatever its outcome and moves only when it passes; any other edge
raises. `DesignPipeline` adds `compile_overlay_data`, one action per gate:
`Crosswalk` (which raises for a claim that is not Boolean or a catalogue that does
not close), `Scope` with the errors of `validate_and_scope`, `Model` with the
adequacy check over row populations, `SetBudget`, and then the exact backend:
`Examine` decides one closed set of mechanisms in the order of
`itertools.combinations` and pays for the worlds it observed, `Synthesized` takes
the preferred one and issues a minimality witness for each of its members,
`Plan` compares it with the adapters. `packages` holds what the pipeline
registered, without digests. The crosswalk's own computations (commitments, world
scope, intervention target) are not inputs and therefore not varied. Expressions
and predicates are their values, one per world.

### 2.9 `InformationOrder` and `AuditEngines`

`InformationOrder` translates the calculus by its criteria. Each criterion is
stated the way the code looks for it: `_first_twin` compares a row with the
*first* row of the same evidence, `rust_deterministic` with the *latest*. What
the calculus is called with is kept in variables: the certificate, the evidence
as it is at present, its timeline and one migration bundle. `NextPoint` changes
the evidence in any way (redaction, re-encoding, other evidence), and `Migrate`
migrates the schema with losses: its metadata hold nothing, null, a list of
certificates, or a bundle, whose certificates may be filed under any claim, speak of
any claim and any evidence, and state any status. Both readers rebuild a certificate
from its own claim and rows, and so do the operators: one of another claim, filed
under the claim that is asked for, is accepted by both programs, although
docs/VAULT_TRUST_MODEL.md:84 says that a mismatched bundle fails closed. Rows are
numbered in the order of their ids.
The code compares claim values with `==` and evidence as canonical JSON; the
tables hold no values, such as `1` and `true`, on which these differ
(information_order.py:774). Ties are exact: costs are integers. `FiniteAudit` has
what the calculus and the compiler compute alike: the sum of the costs of a set
and the order of sorted names. The limit of the calculus is compared with the
number of subsets, since the code counts each subset that it looks at.

`AuditEngines` runs the three engines on one catalogue: the compiler first, then
`Ask` the calculus, whose tables are read off the catalogue (`TableOf`), then
either `Follow` the evidence or `Design` with the pipeline.

### 2.10 `RunEvidence` and `AuditedRuns`

`RunEvidence` holds what needs no state: the mechanisms of `examples/payment.yaml`
and `examples/credit.yaml` (what each observes, its entity, producer, integrity and
dependencies), their threat models (`PaymentThreats`, all six; `CreditThreats`, all
four; `mechanism_allowed` evaluates them as `model.py` does), observation, the sink,
the mediation proof, and the two verifiers.
A digest is the value it is a digest of; an event's hash is the sink, run and
number it was made with, since no event is forged. `verify_run_evidence` and
`certify_adapter_run` are conjunctions in the order of the code. Their error
codes are left out.

`AuditedRuns` gives each run a record with the phase of its graph, its world, its
sink and its contract, and has one action per node. `execute` is two actions,
`Commit` and `CountRows`, because it counts the rows of its action after the
transaction is over, and another run of the same action on the same ledger may
have written in between. `OmitToolResponse` and `AblateIncome` are the harnesses,
with the second run inside the action since it has a database of its own.
`PlannerFails` has the answers of an endpoint after which no graph starts.
`Abort` is a node that raises. `Keep` is `write_jsonl`, after which events are
lost, swapped, or emitted again, some or all of them and in the order storage has
brought them into, with a whole chain (`Resign`): the damage of
`runtime/attacks.py`. Of the two replays of the payment catalogue one has a harness;
the adapter of the other, `irreversible_wire_replay`, is a mere schema, and its
contracts are refused (`validate_mechanism_adapter`). The facts of a world that no
event carries are left out.

Observations that no property states, for the reader of the code. A response of
the planner's endpoint whose usage is null, or one that is no object, raises after
the call and before its trace is kept (planner.py:348). A truthful approval of another action is
refused by `verify_run_evidence`, whose receipts must all carry the action's
digest, and certified by `certify_adapter_run`. The replay proof of a payment
passes only when the original run was duplicated. The credit replay records the
decisions of the human reviewer as the model's output.


## 3. What is model-checked

Every configuration is a file named after its run. All passing runs are
exhaustive. Deadlock is checked in all of them except `vault_retirement_claims`,
where a vault whose journal no longer replays really can do nothing more, and
`run_evidence`, where all runs may have ended and all faults have happened.

| Run | Question | Instance |
|---|---|---|
| `vault_deletion` | Can a crash, an I/O error or another id that shares the bytes make deletion lose something needed, or claim a loss that did not happen? Do captures, bridges and retirements keep dependencies sound, and is every journal one that replay accepts? | one writer, two evidence ids, two objects, two schemas and a bridge, one hold, times 0 and 1 (retention over or not) |
| `vault_writers` | Do two processes with their own, possibly outdated handles release the lock, whatever happens in between? | two writers, two keys, one evidence id, bundle and hold |
| `vault_audit` | What can a reader without a lock conclude while a writer works? Is a ready retrieval of several members one snapshot? | one writer, one auditor, two objects; either an empty vault and one evidence id, bundle and hold, or a sealed bundle of two evidence ids, retention over or not, on a component that is usable or not |
| `vault_runtimes` | Do a Python and a Rust writer together keep to one authority chain and implement the atomic lifecycle? | one of each, two keys, one evidence id, two objects |
| `dispatcher` | Are receipts attributed, ordered, and complete when they say so, whatever the executor does? | three calls, a reading and a mutating tool, agent and user, at most two durable effects |
| `compiler` | Is the compiler's contract auditable and of least weight, is a refusal final? Does the pipeline skip no gate, search everything and report its limit honestly? Does the calculus decode the claim, are its witnesses there, does evidence over time keep its meaning in both programs? Do the three engines agree? | three worlds, three mechanisms, a family of catalogues; three claims, budgets below, at and above the work; timelines of three points, every bundle over two claims |
| `run_evidence` | Do both verifiers accept what an honest run leaves and nothing less, are settlements counted, are replays faithful? | two runs, sixteen scenarios of both workflows, two faults of storage, all threat models of both catalogues |
| `minimality` | Is a supported verdict warranted, is the right layer blamed, do certificates name the cause and verify again, whatever the isolated process does? | two mechanisms; bases and extensions with one defect, extensions with two; every premise removed |
| `vault_retirement_claims`, `vault_runtimes_recovery`, `dispatcher_dispositions`, `compiler_certificates` | the four findings of section 3.3 | the smallest instance that shows each |

### 3.1 Bounds, and why they are enough

The vault is bounded by its identifiers alone: every operation consumes an id
(a component is archived and retired once, an evidence id captured and deleted
once, a hold placed and released once, a key is authority once), so a finite
set of ids makes the journal finite and no counter needs a cap. Sharing of
objects needs two evidence ids, or one and a component, over two objects; a
crashed deletion needs one intent and one other writer's or reopened handle's
recovery; a stale handle needs two keys. A second writer changes nothing in
`vault_deletion` that one writer who crashes and opens again cannot do, since
the lock admits one at a time and a handle differs only in its key, which is
what `vault_writers` varies. Times are the caller's own declarations in the
code, so two values, one for each side of a retention period, suffice.

Once a second component is archived, `vault_deletion` follows one object, one
capture and one moment without holds only (`ManyComponentsFewObjects`): whether a
shared object is still needed and whether a dependency is still active are
decided from different events, and either question gets its own instance.

In `vault_audit` the reader takes its snapshot at any point of every writer
history and each of its file accesses is a separate step, so one auditor sees
all there is: auditors change nothing that another could see.

Two members are the least for one to be deleted while the other is read, and too
many to reach from an empty vault. `vault_audit` therefore has two beginnings: the
empty vault, from which one piece of evidence is captured and any call is made
(`NewLife`), and one in the middle (`SealedInit`), where one component was archived,
both members were captured on it and sealed in one bundle, and the vault was closed;
a writer that is left alone reaches each of these states by four calls. Their
objects and their ends of retention are any; on the unusable component, on which no
retrieval is ready, no retention is over. Members, not holds, are the question here, and a
retention period that is not over leaves a member alone as well as a hold does, so
there are none. `SealedLife` also leaves out what the other beginning has: pins,
reverification, retirements, further components, and deletions at the earlier moment,
which differ at most in their basis. That the state space contains a
ready retrieval one of whose members has been deleted and unlinked meanwhile was
confirmed by a run that forbids it.

`MaxEffects` bounds the log behind the dispatcher's executor; two effects are
the least that can fall to different calls, or twice to one call. The three
calls of the instance are enough for a write of the agent with another
requestor's effect before and after it.

The catalogues of `compiler` combine views that tell one world apart with views
that tell all, costs with ties and zeros, dependency chains and cycles, an
inadmissible mechanism, a provider requirement, and an active mechanism or
none. `MaxIterations = 2` is small on purpose: some catalogues converge before
it and some run into it, in the passive attempt of mode `auto` as well as in
the second one.

The same catalogues are put to the calculus and the pipeline after a compilation
in mode `all`, the one in which the three questions coincide. `StateLimits` lies
below and at the number of subsets; `StateCaps` is invalid, too small, and more
than enough for all closed sets of three mechanisms over three worlds. The
evidence of passive catalogues with one cost, whose third mechanism sees every
world apart, is followed over time (`MCFollowed`), so that there is always a contract.
A channel is a
partition of the worlds, so the six channels are all there are for three worlds,
with a second name for the finest; three points are the least for a claim to be
lost and decided again. A bundle holds certificates of either claim, under either or
both of the two keys.

The scenarios of `run_evidence` take every mechanism of both catalogues (`Coarse` the
coarse channels and tokens, `Rerun` the replay that has no harness), every
commit policy, both replays with each outcome, an approval of something else, an
unknown policy, and a contract that is not closed. Every contract is judged under each
threat model of its catalogue. Two runs are enough for one to
write between the other's commit and its count. Two faults undo or hide each
other (a swap and a loss), and two are needed to reorder a stream and sign it again.
Kept evidence is damaged while the other run is idle
(`OneExamined`), since runs share no evidence.

The pairs of `minimality` contain every configuration with at most one defect
as a base and as an extension under isolation, and every extension with two
defects. Each property relates two checks (the one that fails and one that does
not look, or looks differently), so a third defect adds no new pair. Two
mechanisms are the least for a registry defect to touch more than one premise
of layer R.

Symmetry is declared for evidence ids, objects, calls and runs, which no
definition tells apart. The liveness run declares none.

### 3.2 What the runs show

*Deletion and components* (`vault_deletion`). The object of live evidence and of
every archived component is always in the store (`LiveObjectsRetained`); a
tombstone claims physical deletion only when the bytes are gone
(`TombstoneAfterBytes`); bytes go only after each id that had them has a signed
intent (`NoUnexplainedLoss`); evidence under a hold has no intent
(`HoldsBlockDeletion`); every method body starts on a clean vault
(`CleanBeforeBody`): the residue of a failed call never outlives the next
successful lock acquisition. A capture names components that were active when
its event was written, not merely when the caller looked them up
(`CapturesUseActiveComponents`); following replacements ends (`ReplacementsEnd`);
every journal the writers produce is accepted by `replay()`, provided claim ids
are well formed (`JournalReplays`, section 3.3).

*Writers* (`vault_writers`). With two processes, one of which may hold a key that
is no longer the authority and fails in recovery, the lock is always released
(`LockIsReleased`).

*Readers* (`vault_audit`). Evidence under a hold is found (`HeldEvidenceIsFound`),
and components do not vanish under a reader (`DependenciesSurvive`).
A ready retrieval holds every member of its bundle,
each of them live and not overdue in one snapshot, although the members are read one
after the other and some may be gone by the time it is ready; whatever they depend on
is usable and still there (`ReadyIsOneSnapshot`).

*Two programs* (`vault_runtimes`). No event is signed by a key that is not the
authority at its place (`AuthorityChain`): a handle left open across a rotation
cannot write. The pair refines `VaultLifecycle` (`ImplementsLifecycle`): nothing
comes between an intent and its tombstone, and the bytes of live evidence are
always readable. Both hold although Rust looks at the signer before it has the
lock. What fails is recovery in one direction (section 3.3).

*Dispatch* (`dispatcher`). A write receipt brackets effects of its own call
only; no effect has two receipts; an effect of the agent without a receipt
belongs to a call whose execution or root reading failed; the two coverage
receipts disagree only over such a call; a run with contradictory answers for one
request is never complete.

*Compilation* (`compiler`). The exact solver returns a dependency-closed hitting
set of least weight (`SelectionIsLeast`); the contract is auditable and of
least weight among all that are (`LeastAuditable`) although the loop has seen
few twins; a refusal leaves no auditable set (`RefusalsAreFinal`);
`ACTIVE_AUDIT_REQUIRED` means that no passive contract exists
(`ActiveOnlyWhenNeeded`), with one exemption the code forces: when the passive
attempt was cut off by the iteration limit, the status and its note
(compiler.py:286-290) are issued all the same. A least *weight* contract may
keep a mechanism of weight zero that it does not need; ties go by name.

*Design* (the same run). A claim in a state has a passing record for every gate
behind that state (`NoGateSkipped`). The pipeline's contract is preferred to every
other determinate closed set, and `EVIDENCE_GAP` means that there is none
(`SearchIsExhaustive`). `ANALYSIS_INCOMPLETE` is answered exactly when the budget is
less than the work of the whole search, so a larger budget never changes a decided
answer (`LimitsAreHonest`). The
adequacy check passes over executions whose abstraction is not among the released
worlds (finite_model.py:191-194), and so does the model: they are not admitted, and
they cannot make the check fail.

*Calculus* (the same run). Hitting the critical pairs is the same as decoding the
claim: the contract does, and every other that does is less preferred
(`ContractFactors`); every witness promised exists, so that the `next()` without a
default at information_order.py:259 never raises, and the same holds of the
pipeline's minimality witnesses (`WitnessesExist`); without new evidence a lost
claim stays lost and the horizon never raises (`HorizonIsPrefixClosed`); the two
programs report one gap for any migration bundle, and it is what the certificate's own
rows say (`RuntimesAgree`). Whether the certificate is about the claim asked for is
another matter (section 3.3). Null and a list of certificates are exempt: Python takes
null for no bundle and raises on a list, Rust calls both invalid
(evidence_vault.py:1039-1044, vault.rs:1249).

*Together* (`EnginesAgree`). Asked the same question, pipeline and calculus return
the very same contract, or both find that there is none, and the compiler
succeeds with one of the same weight.

*Runs* (`run_evidence`). A finished run's whole evidence is accepted exactly under
the conditions listed in `Acceptable` (`HonestEvidenceVerifies`). Whatever storage
loses, reorders or signs again, evidence that `verify_run_evidence` accepts says all
that the run emitted, nothing twice and nothing else, and the oracle that knows the
world certifies it; in the chain of the run's own sink it is what was emitted, event
for event (`AcceptedEvidenceIsWhole`). The order is not protected beyond the chain:
events that were reordered and then signed again are accepted in their new order, by
both verifiers, as long as each mechanism still has its own. The loss of the tail of
a chain is caught by the completeness of the contract's observations, as the chain alone would not. The
largest settlement receipt of an action counts every row that the runs with a
receipt wrote, and no receipt counts a row that is not there
(`SettlementsAreReported`); between a commit and its count one of two receipts may
count the other's rows as well, which the property allows and the code does. A
replay's outcome is what the workflow does without the tool response or the
feature, whatever else settles meanwhile (`ReplayIsFaithful`).

*Assurance* (`minimality`). A supported verdict leaves no premise unsatisfied, and
a verifier that was run again answered what was declared, in time and by itself
(`SupportIsWarranted`). No layer is blamed while an earlier one has an
unsatisfied premise (`BlamedLayerIsFirst`). Once the removed premise of a
certificate is repaired, the extension would be supported
(`CertificatesNameTheCause`). A certificate that verified once fails later only
because the isolated verifier of the base did not get to its answer
(`CertificatesStand`): a failure found by running a verifier again is never
certified, so no duration gets into a certificate. Every call returns
(`EveryCallReturns`) even if the worker does nothing for ever.

Two exemptions are forced by the code. A packet that the packet verifier raises
on is blamed on layer V before D, R and M have been looked at, with a trace of
three layers only (assurance.py:879-890). And the packet verifier returns at once for
an unregistered claim, and for a witness that declares no Boolean
(external/evidence.py:827, 841), while the premises M and V find nothing in its result
(minimality.py:252, 268) and premise V asks only that the witness is a mapping: a
certificate that removes premise Q or D may then hide a defect of M or V that the packet
has as well, and the value that is no Boolean is itself a defect that no premise asks
about. `CertificatesNameTheCause` exempts extensions with either of the two.

### 3.3 Disagreements between the code and its documents

| Run | What happens |
|---|---|
| `vault_retirement_claims` | `retire_component` signs claim ids it has not validated; replay validates them. One malformed id and the append-only journal never replays again, against docs/VAULT_TRUST_MODEL.md:53. |
| `vault_runtimes_recovery` | A process that dies inside an event write leaves a temporary file in `events/`. Python ignores it, the Rust replay numbers it and fails, so the pending deletion that Rust is asked to recover stays pending. |
| `dispatcher_dispositions` | A call whose executor raised after the tool took effect is closed as `not_dispatched`, and the run is reported as completely covered. |
| `compiler_certificates` | A certificate from the passive attempt lists passive separators; `verify_certificate` recomputes them over both modes and refuses it if an active mechanism separates too. |

The quoted lines are in the `findings` of the index.

## 4. Fairness

`FairSpec` assumes weak fairness of the next step of a process that is inside a
method: the methods are straight-line code without waits after the lock is
taken, so a process that runs reaches the end of its method, raises or dies.
Nothing is assumed about callers: no process has to open the vault, call a
method, recover after a crash, or crash. `LockIsReleased` is therefore the only
liveness claim; that a pending deletion is eventually committed is *not*
claimed, since in the code it happens only when somebody mutates the vault
again. The dispatcher and the engines are sequential, and the loop of the compiler ends by
its own iteration limit, which is a bound of the model as well. Runs of the
workflows are caller-driven; nothing there waits for anything.

In `PremiseMinimality`, `FairSpec` assumes that the caller, straight-line code
as well, goes on when it can, and that time passes: a wait that lasts comes to
its end (`Expire`), since `communicate` is called with a timeout
(isolated_verifier.py:980). Nothing is assumed about the worker. That a killed
process is reaped at once is part of the step `Kill`; the code waits for it
without a limit, after SIGKILL to its whole process group.

## 5. What is proved

The theorems hold for every number of writers, readers, keys, identifiers,
objects, calls, worlds and mechanisms. The assumptions are those named in the
modules (for example that the initial key is a key, that the agent is a requestor,
that weights are natural numbers, that there are finitely many mechanisms); where
a theorem needs one more, it is said below.

**Vault, writers** (`EvidenceVault_proofs`). `TypeCorrect` is inductive as it
stands, because `TypeOK` contains the control invariant: a writer is inside a
method exactly while it holds the lock, and owes an event exactly at the labels
that publish one. `RetainedForever` needs more. A step that removes an object must
know why that is safe, and the reason lies in an earlier step of the same
writer; `RetentionInv` adds `EffectsInOrder`, which ties each label to the
state it was reached in: at "unlink" and in recovery the object about to go has
no live reference, and at "append" the object of the event to come is in the
store. The lock makes these facts stable, since no other process can take an
effect meanwhile. `TombstonesTellTheTruth` follows from the same invariant as an
action property. `HoldsAreRespected` rests on one lemma, `StepAppends`: every
step leaves the journal alone or appends one event, whose guard has just been
evaluated under the lock.

`BodiesRunClean` adds who moves (`StepMoves`): a method body is entered only from a
finished recovery, and the lock keeps everybody else away from the disk until it is
left. `LossIsExplained` needs that every tombstone, published or still owed, has its
intent in the journal (`DeletionsIntended`): evidence that is no longer live has one,
and nothing is ever unlinked that is still retained.

*The journal* (the second half of the same module). `JournalInv` joins all of these
with `OwedEvents`: the checks that a body has made before it writes an object still
hold when it appends the event, although two steps and any number of other processes'
attempts lie between. `OriginChecked` and `OriginAlone` then say of the next event,
wherever it comes from, what `replay()` will ask of it, and `JournalGrows` that the
prefixes before earlier events stay as they are. `AuthorityIsLinear`,
`CapturesAreCurrent`, `ReplacementsTerminate` and `JournalsReplay` follow by
induction on steps. `JournalsReplay` assumes that callers pass valid claim ids
(`Claims \subseteq ValidClaims`), the assumption whose failure section 3.3
describes.

**Vault, readers** (`VaultExtensions_proofs`). `ReadersOnlyRead` shows that readers do
not disturb the writers, so that everything above holds beside them. A reader
works on a snapshot that the writers leave behind, and the invariant of a reader
(`ReaderInv`) says what remains true of it: the rest of the bundle, the row in
hand, the material and the gaps make up the bundle exactly (`LoopInv`), and what is
missing now and was live then has been deleted since, with an intent signed after
the snapshot (`LostAfter`). The latter is `LossesAreIntended`, the strongest thing
that can be said of a reader without a lock; `HeldEvidenceIsRead` follows from it,
because no intent is signed under a hold and a hold stands until its release.
`DependenciesAreThere` rests on `CapturesAreCurrent` and `RetainedForever`.
`ReadyRetrievalsAreWhole` needs one more invariant, `Scanned`: what is overdue or
depends on an unusable component has left a gap by the time the reader has looked at it.
It speaks of the snapshot and of the reader's own record, so no writer disturbs it, and
a ready retrieval has no gap.

**Two programs** (same module). A Rust process compares its signer before
it has the lock, so the composition does *not* implement the specification of the
Python writers step by step. What holds is that each step is one of theirs, or one of
two others (`RustSteps`): `StaleOpen`, which takes the lock with a key that may have
been rotated out since, and `LastWords`, a process that dies after its event was
linked. `JournalInv` survives both, since it never relied on the key of a handle but
on the comparison inside the append. From this `RuntimesShareAuthority`,
`RuntimesRetain` and `RuntimesReplay`: both programs accept every journal they write
together, Rust as long as no temporary file is left in `events/` (the finding
`vault_runtimes_recovery`) and both provided that claim ids are valid.
`RuntimesCaptureCurrent` follows in the same way. For what concerns the bytes,
`RuntimeSteps` reduces the two extra steps to what they are: a stale open touches
neither objects nor journal, and last words may be a tombstone, but one that was owed
only after its bytes were gone (`LastTombstone`). Hence `RuntimesDeleteInOrder`.
`RuntimesStartClean` is a conjunct of `JournalInv`.

`VaultImplementsLifecycle` and `RuntimesImplementLifecycle` are the step simulations
of the abstract lifecycle, by one program and by two: each event is one operation,
all other steps are invisible (`OperationOf`, `UnseenStep`), and neither of the two
extra steps is an exception. They assume that there is a dependency kind, as there
are four in the code.

**Dispatcher** (`Dispatcher_proofs`). `ReceiptInv` joins three properties of the
write receipts with what they need of the past: the first request of a call is the
only one (`OneRequestPerCall`), effects come from requested calls
(`EffectsWereRequested`), and receipts end within the present log
(`ReceiptsAreOfThePast`). The first three theorems are its conjuncts. The coverage
receipts compare lists, not sets, so `CoverageReceiptsAgree` needs that no call is
twice in a ledger, that each result was requested and each write answered, and that
an answered write without a receipt means that its root could not be read
(`CoverageInv`); the parts of a ledger that the two receipts select then have the
same length. `ContradictionsStay` is an action property: ledgers only grow, so a
second answer for one call never goes away.

**Compiler** (`AuditEngines_proofs`, `FiniteAudit_proofs`). `SelectionsAreLeast`
says that the exact solver is exact, for any catalogue. The solver is a recursion
over sets of mechanisms, and induction schemes are out of reach here; the proofs
take the *largest counterexample* instead, a choice from which the claim fails such
that it holds from every larger one. A branch makes the choice larger
(`BranchesGrow`), so it may be used there; that the recursion defines a function
at all is proved in the same way (`LeavesExist`). `LeavesAreSound`: each leaf is closed and
meets every constraint. `LeavesAreComplete`: for each closed set that meets them
there is a leaf inside it, because the set has a member of the pivot and the closure
with that member is still inside. `FiniteAudit_proofs` supplies that a part weighs
no more than the whole, and that both orders are total and have least members.
`CheapestContract` needs no assumption about the solver any more: each constraint
that the loop has learnt is *necessary* (every auditable set hits it,
`ConstraintsAreNecessary`), so a least hitting set is no heavier than the best
auditable set, and it is returned only when it is auditable itself. The same
invariant (`CompilerInv`) yields `RefusalsAreJust` (constraints that no closed set
meets, or a twin that nothing separates, leave no auditable set) and, with the
memory of what the passive attempt found (`PassiveIsSettled`), `ActiveIsNeeded`.

**Design** (same module). `LifecycleSkipsNoGate` holds for whoever drives
the lifecycle: each edge adds at most the one gate it enters, and it is taken with
a passing record only. `StepsAreAttempts` shows that every step of the pipeline is
an attempt or leaves the lifecycle alone, so `PipelineSkipsNoGate` follows without
looking at the pipeline again. `PlansAreBest` is `SearchIsExhaustive`: `SearchInv` says
that a budget was given before the search began and that the conclusion was drawn
from all closed sets, and the rest is that the catalogue never changes.
`BudgetsAreHonest` adds that what is spent is the work of the sets examined
(`BudgetInv`), and that work only grows with the sets (`WorkGrows`), so a search that
gives up would have needed more than its budget. `MinimalityHasWitnesses`: a contract
preferred to all others has a witness for each member, and the third kind of
witness is never issued.

**Calculus** (`InformationOrder_proofs`). The lemmas reduce every criterion of both
programs to one relation, *equal evidence implies equal values* (`Refines`).
`FirstRowsDecide` and `LatestRowsDecide` need that each group of equal evidence has
a first row, and that a latest predecessor exists, both from least elements of the
natural numbers. `ContractsDecode`, `HorizonsOnlyShrink` and
`RuntimesReportOneGap` follow for any tables, channels, timelines and bundles;
the second one by an invariant that ties each point of the timeline to the
transformations up to it (`HorizonInv`). `CertificatesAreWitnessed` needs tables
with integer costs (`Tabled`): a contract of positive costs that is preferred to
all others cannot do without any of its members, so the removal of one breaks a
dependency or leaves a pair unseparated, and `next()` never raises; and an answer
that was computed within a limit is the answer without one, so it verifies.

**Engines** (`AuditEngines_proofs`). `EnginesRunTheCompiler`, `EnginesRunThePipeline`
and `EnginesRunTheCalculus` show that in the composition each engine behaves as its
own module says, by step simulation under the mapping `TableOf`. With them the
theorems of the calculus become theorems of the composition (`EnginesContractsDecode`,
`EnginesHorizonsShrink`, `EnginesReportOneGap`, `EnginesWitnesses`, for which
`Tabled` is not assumed but shown). `FrontEndsConverge` and `EnginesConverge` are the
agreement of the three: a set is auditable for the compiler if and only if it is
closed and determinate for the pipeline (`SameContracts`), and if and only if it is a
sufficient contract of the calculus (`SameSufficientSets`); pipeline and calculus
prefer by the same strict order (`SameOrder`), in which there is one best set only.

**Assurance** (`PremiseMinimality_proofs`). All four theorems hold for any mechanisms
and any set of configurations, not only those with few defects.
`VerdictsAreWarranted` is `SupportIsWarranted`. The core is
`SupportLeavesNoPremiseError`, a case analysis that no check of the gate can be
passed while a premise is unsatisfied; it is where the two pieces of code meet. The
invariant, `WarrantInv`, adds only that the arguments are configurations and that
`gates` is a sequence; each kind of return then shows that its receipt fits its
verdict, and `Kill` and every rejection can never be a support. `BlameIsOrdered`
compares, for each check of the gate, what the earlier checks have seen with what
the premises of earlier layers look at. `CertificatesAreCausal` and
`CertificatesLast` follow a certificate through its calls with `CallInv`: where the
call is, what each gate so far has decided, and, once a certificate exists, that its
premises are right and that the extension fails before a verifier would be run again
(`Certified`), so that nothing in the certificate depends on the isolated process.
The former theorem assumes that the contract has a mechanism: the gate examines the
registry snapshot in any case, and no premise does when there are no mechanisms.

**Runs** (`AuditedRuns_proofs`). The four properties of `run_evidence` for any
number of runs, any scenarios of the two workflows and any number of faults. The
scenarios are assumed to have the facts of their workflow (`ScenariosAssumption`,
from the types in `PaymentState` and `CreditState`), and no run to be called as
the shared ledger is (`SharedAssumption`: a harness has a file of its own). The
contract is any set of mechanisms, also one not closed under its dependencies.

*What a run has emitted* is known in closed form. A workflow emits its slots in a
fixed order (`PaymentSlots`, `CreditSlots`); the event of a slot has the number of
contracted slots up to it, continues the hash before it, and its attributes are a
function of the run's world (`SlotEvent`). `HoldsSlots` says that a sink holds
exactly these events; `EmitContracted` and `EmitUncontracted` that an emission adds
the next slot. A world may change after it was observed (`settle`, `decide`), so
what each slot looks at has to be compared with what changes (`Ignores`,
`NewWorldHolds`). `RunsAreKnown` is the invariant that every run is at a node of its
graph with the slots up to there, and that a concluded replay has the proof its
world says (`KnownProof`). That the prefixes of a replay and its original agree is
part of the step (`SamePaymentPrefix`, `SameCreditPrefix`): the slots before the
effect do not look at what the replay leaves out.

*Ledgers.* `LedgerInv` says who wrote each row, that a receipt counts rows that are
there, that a harness meets no rows but its own, and, for *every* set of settled
runs of one action on one ledger, that one of them counts the rows of all
(`OneCountsAll`). The last is inductive where the property itself is not: the run
that settles last among any of them has seen the rows of the others, while rows of a
run that died count for no set. `SettlementsHold` takes the set of all settled runs,
and `ReplaysAreFaithful` follows from both invariants.

*Verifiers.* `HonestEvidenceIsVerified` evaluates `verify_run_evidence` on the closed
form, condition by condition, in both directions: the chain (`VerifyIs`), the complete
observations of a mechanism, one of which speaks in two slots (`ToldMechanism`), the
mediation proof (`MediatedIs`, by the sets of nodes closed under the edges), the
policy roots (`PolicyEventIs`), the joins across services (`CrossReceiptsAre`, where
the approval of another action is refused) and the replay proof (`ReplayIsValid`).

*Damaged evidence.* `EvidenceIsSalvaged` is the invariant of the storage: what is kept
says what events of the run said, no event of it twice (`ComesFrom`), and unless it was
signed again it is made of the run's own events; losses and swaps preserve it
(`LostIsSalvaged`, `SwappedIsSalvaged`), and so does signing again whatever is kept by
then (`ResignedIsSalvaged`). From there `AcceptedEvidenceHolds` needs no
further step of the system. An accepted chain numbers its events without a gap
(`ChainedNumbers`); complete observations need an event of each slot of the contract,
also of the mechanism with two (`CompleteTellsAll`); no event speaks for two slots
(`SayOneSlot`); so the evidence has as many events as the contract has slots and says
what each of them said, and in the run's own chain each is where it was
(`SalvagedIsWhole`). What such evidence says of the world is then true, in whatever
order, and the oracle agrees (`SalvagedIsCertified`).

Recursive definitions are reasoned about here, in the solver and in
`resign_with_filter`, through a least or a largest counterexample (`LeastNumber`,
`SinksExist`): the theorem that natural numbers are well founded, which takes no
operator, stands in for an induction scheme.

Only model-checked:

* `LockIsReleased` and `EveryCallReturns`: liveness and `ENABLED`.
* The properties that the four violation runs refute; they are false.

## 6. What is not modelled

* Encodings, digests, signatures and paths. Signatures verify exactly what was
  signed, digests identify contents.
* Power failure. A crash is the death of a process. The shard directory of a new
  object is not synced (evidence_vault.py:1157), which would matter then.
* `create()`. It is the initial state. Dying inside it leaves a directory that
  can be neither created nor opened (evidence_vault.py:250).
* Spellings of timestamps. Python accepts more forms than Rust does, so one
  program can write an event that the other cannot parse
  (evidence_vault.py:1552).
* A temporary file of a *living* writer, seen by a Rust process without the lock.
* Readers of the Rust program, its key documents and its command line.
* In the assurance gate: the two official profiles. In the isolated verifier:
  `run_isolated_worker`, which nothing in the package calls, and how policies and
  sandboxes are built. In the registered one: the count of fuel.
* In the pipeline: parsing, digests and the remaining fields of the registered
  records, `predicate.py`, `expression.py` beyond the value of an expression in a
  world. In the calculus: canonical JSON.
* In the runtime: the text of prompts, the model back ends, and error codes.
* In the compiler: ambiguity metrics, sampled weights, the baselines and the
  symbolic finder.
* The other components of section 1.1, in the order of the plan below. The
  command lines have no state of their own. The worker program of the local
  authorities is not in the repository and would be external.

## 7. Plan

What would be taken next, in this order.

1. **Local authorities.** Partial start and shutdown of a set of child processes
   (`core/trust_keys.py`), with the worker program as an external part.
2. **Assurance, continued.** The two official profiles of the gate, and the
   strong-V deletion certificates of `extension_manifest.py` composed with it.
3. **Vault, continued.** `create()`, a writer that audits through its own pinned
   handle, and the readers of the Rust program.
4. **Pure algorithms.** `inventory_authority.py` and the symbolic finder as
   operators checked against reference definitions.
