--------------------------- MODULE VaultRuntimes ---------------------------
(***************************************************************************)
(* One vault directory written by two programs: the Python package and the *)
(* Rust consumer of rust/auditspec/src/vault.rs.                           *)
(*                                                                         *)
(* The operations of the two have the same guards and effects.  They       *)
(* differ where this module says so: Rust checks its signer before it has  *)
(* the lock, and its replay() takes every file under events/ for an event.     *)
(***************************************************************************)
EXTENDS EvidenceVaultRefinement

CONSTANTS
    RustWriters    \* the writers that are Rust processes

ASSUME RuntimesAssumption == RustWriters \subseteq Writers

VARIABLES
    probe,    \* the key with which a Rust open passed its unlocked check, or None
    residue   \* a temporary file of a dead writer lies in events/

runtimeVars == <<vars, probe, residue>>

RuntimeInit ==
    /\ Init
    /\ probe = [w \in RustWriters |-> None]
    /\ residue = FALSE

-----------------------------------------------------------------------------
(***************************************************************************)
(* Whether replay() reads the directory.  Python looks at *.json only; Rust *)
(* numbers all directory entries, so a leftover breaks the sequence.       *)
(***************************************************************************)
PythonReplays == Replayable(journal)

RustReplays == ~residue /\ Replayable(journal)

Replays(w) == IF w \in RustWriters THEN RustReplays ELSE PythonReplays

Does(w, action) == Replays(w) /\ action /\ UNCHANGED <<probe, residue>>

-----------------------------------------------------------------------------
(***************************************************************************)
(* vault.rs: open_internal replays and compares the signer without the     *)
(* lock; then it takes the lock and recovers.                              *)
(***************************************************************************)
RustCheckSigner(w, k) ==
    /\ pc[w] = "closed"
    /\ probe[w] = None
    /\ RustReplays
    /\ k = ActiveKey(journal)
    /\ probe' = [probe EXCEPT ![w] = k]
    /\ UNCHANGED <<vars, residue>>

RustOpenLocked(w) ==
    /\ probe[w] # None
    /\ lock = None
    /\ lock' = w
    /\ handle' = [handle EXCEPT ![w] = probe[w]]
    /\ probe' = [probe EXCEPT ![w] = None]
    /\ Goto(w, "opening")
    /\ UNCHANGED <<journal, objects, todo, residue>>

RustDieProbing(w) ==
    /\ probe[w] # None
    /\ probe' = [probe EXCEPT ![w] = None]
    /\ UNCHANGED <<vars, residue>>

\* Mutant: with_transaction takes the lock and does not recover.
RustBeginBare(w) == BeginWithoutRecovery(w) /\ UNCHANGED <<probe, residue>>

\* Mutant: append_event_locked trusts the signer check of the open.
RustAppendUnchecked(w) ==
    Does(w, /\ pc[w] = "append"
            /\ journal' = Signed(w, todo[w])
            /\ Return(w)
            /\ UNCHANGED objects)

RustBegin(w)            == Begin(w) /\ UNCHANGED <<probe, residue>>
RustRecover(w)          == Does(w, RecoverUnlink(w) \/ RecoverCommit(w) \/ RecoverFail(w))
RustCollect(w)          == Does(w, Collect(w) \/ Recovered(w))
RustAppendPrepared(w)   == Does(w, AppendPrepared(w))
RustArchiveComponent(w) == Does(w, ArchiveComponent(w))
RustAppendEvidence(w)   == Does(w, AppendEvidence(w))
RustCreateBundle(w)     == Does(w, CreateBundle(w))
RustPlaceLegalHold(w)   == Does(w, PlaceLegalHold(w))
RustReleaseLegalHold(w) == Does(w, ReleaseLegalHold(w))
RustRetireComponent(w)  == Does(w, RetireComponent(w))
RustRotate(w)           == Does(w, RotateJournalAuthority(w))
RustDeleteEvidence(w)   == Does(w, DeleteIntent(w) \/ DeleteUnlink(w))
RustReject(w)           == Does(w, Reject(w))

PythonOpen(w, k)  == Does(w, Open(w, k))
PythonBegin(w)    == Begin(w) /\ UNCHANGED <<probe, residue>>
PythonMethod(w)   == Does(w, Recover(w) \/ MethodBody(w))

\* replay() raises inside the locked region of either program.
Unreadable(w) ==
    /\ InMethod(w)
    /\ ~Replays(w)
    /\ Raise(w)
    /\ UNCHANGED <<journal, objects, probe, residue>>

-----------------------------------------------------------------------------
Dies(w) ==
    /\ lock' = None
    /\ handle' = [handle EXCEPT ![w] = None]
    /\ todo' = [todo EXCEPT ![w] = None]
    /\ Goto(w, "closed")
    /\ residue' = TRUE
    /\ UNCHANGED <<objects, probe>>

\* w has an event to write: a prepared one, the tombstone of a deletion it
\* recovers, or a rotation.  (The other operations leave the same residue.)
Writing(w) ==
    /\ Replays(w)
    /\ MaySign(w)
    /\ \/ pc[w] = "append"
       \/ pc[w] = "body" /\ Keys # KeyHistory(journal)
       \/ /\ Recovering(w)
          /\ \E intent \in Pending(journal) :
                intent.physical => intent.object \notin objects

\* exclusive_write of either program: death after the temporary file has been
\* created in events/ and before it is linked to its name.
DieBeforeLink(w) ==
    /\ Writing(w)
    /\ Dies(w)
    /\ UNCHANGED journal

\* Python unlinks the temporary name only after it has linked the final one;
\* Rust renames.
DieAfterLink(w) ==
    /\ pc[w] = "append"
    /\ w \notin RustWriters
    /\ Replays(w)
    /\ MaySign(w)
    /\ Dies(w)
    /\ journal' = Signed(w, todo[w])

RustStep(w) ==
    \/ \E k \in Keys : RustCheckSigner(w, k)
    \/ RustOpenLocked(w) \/ RustDieProbing(w) \/ RustBegin(w)
    \/ RustRecover(w) \/ RustCollect(w) \/ RustAppendPrepared(w)
    \/ RustArchiveComponent(w) \/ RustAppendEvidence(w) \/ RustCreateBundle(w)
    \/ RustPlaceLegalHold(w) \/ RustReleaseLegalHold(w)
    \/ RustRetireComponent(w) \/ RustRotate(w) \/ RustDeleteEvidence(w)
    \/ RustReject(w)

PythonStep(w) ==
    \/ \E k \in Keys : PythonOpen(w, k)
    \/ PythonBegin(w) \/ PythonMethod(w) \/ DieAfterLink(w)

RuntimeNext ==
    \/ \E w \in RustWriters : RustStep(w)
    \/ \E w \in Writers \ RustWriters : PythonStep(w)
    \/ \E w \in Writers :
          \/ Unreadable(w) \/ DieBeforeLink(w)
          \/ (IOError(w) \/ Crash(w)) /\ UNCHANGED <<probe, residue>>

RuntimeSpec == RuntimeInit /\ [][RuntimeNext]_runtimeVars

-----------------------------------------------------------------------------
\* Types of what this module adds; a writer probes only before it has a handle.
RuntimeTypeOK ==
    /\ TypeOK
    /\ probe \in [RustWriters -> Keys \cup {None}]
    /\ residue \in BOOLEAN
    /\ \A w \in RustWriters : probe[w] # None => pc[w] = "closed"

\* Crash recovery is in scope (THREAT_MODEL.md): a deletion that a dead writer
\* has left pending can be finished by a writable open of either program.
PendingCanBeRecovered ==
    lock = None /\ Pending(journal) # {} => PythonReplays /\ RustReplays
=============================================================================
