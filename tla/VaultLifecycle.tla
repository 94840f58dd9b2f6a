--------------------------- MODULE VaultLifecycle ---------------------------
(***************************************************************************)
(* What an evidence vault promises its callers, without journal, lock,     *)
(* objects or processes: the counterpart of the executable reference model *)
(* tests/reference_models/vault_model.py.  Operations are atomic; only a   *)
(* deletion is seen in two stages, and nothing else happens in between.    *)
(* Bytes may be forgotten at any time, but never those of live evidence.   *)
(***************************************************************************)
CONSTANTS Keys, InitialKey, Components, Evidence, Bundles, Holds

VARIABLES
    archived,   \* components ever archived
    retired,    \* those of them that are retired
    stage,      \* the stage of each evidence id
    sealed,     \* the evidence of each bundle, {} until it is sealed
    held,       \* the evidence under each hold, {} before and after it is active
    spent,      \* holds that have been released
    authority,  \* keys that are or have been the journal authority
    readable    \* evidence ids whose bytes can be read back

lifecycle == <<archived, retired, stage, sealed, held, spent, authority>>
lvars == <<archived, retired, stage, sealed, held, spent, authority, readable>>

In(s) == {e \in Evidence : stage[e] = s}

Init ==
    /\ archived = {}
    /\ retired = {}
    /\ stage = [e \in Evidence |-> "absent"]
    /\ sealed = [b \in Bundles |-> {}]
    /\ held = [h \in Holds |-> {}]
    /\ spent = {}
    /\ authority = {InitialKey}
    /\ readable = {}

Archive == \E c \in Components \ archived :
    /\ archived' = archived \cup {c}
    /\ UNCHANGED <<retired, stage, sealed, held, spent, authority>>

Retire == \E c \in archived \ retired :
    /\ retired' = retired \cup {c}
    /\ UNCHANGED <<archived, stage, sealed, held, spent, authority>>

Capture == \E e \in In("absent") :
    /\ archived \ retired # {}
    /\ stage' = [stage EXCEPT ![e] = "live"]
    /\ UNCHANGED <<archived, retired, sealed, held, spent, authority>>

Seal == \E b \in Bundles, ids \in (SUBSET In("live")) \ {{}} :
    /\ sealed[b] = {}
    /\ sealed' = [sealed EXCEPT ![b] = ids]
    /\ UNCHANGED <<archived, retired, stage, held, spent, authority>>

PlaceHold == \E h \in Holds \ spent, ids \in (SUBSET In("live")) \ {{}} :
    /\ held[h] = {}
    /\ held' = [held EXCEPT ![h] = ids]
    /\ UNCHANGED <<archived, retired, stage, sealed, spent, authority>>

ReleaseHold == \E h \in Holds :
    /\ held[h] # {}
    /\ held' = [held EXCEPT ![h] = {}]
    /\ spent' = spent \cup {h}
    /\ UNCHANGED <<archived, retired, stage, sealed, authority>>

Rotate == \E k \in Keys \ authority :
    /\ authority' = authority \cup {k}
    /\ UNCHANGED <<archived, retired, stage, sealed, held, spent>>

BeginDeletion == \E e \in In("live") :
    /\ \A h \in Holds : e \notin held[h]
    /\ stage' = [stage EXCEPT ![e] = "deleting"]
    /\ UNCHANGED <<archived, retired, sealed, held, spent, authority>>

FinishDeletion == \E e \in In("deleting") :
    /\ stage' = [stage EXCEPT ![e] = "deleted"]
    /\ UNCHANGED <<archived, retired, sealed, held, spent, authority>>

Operation ==
    IF In("deleting") # {} THEN FinishDeletion
    ELSE \/ Archive \/ Retire \/ Capture \/ Seal \/ PlaceHold
         \/ ReleaseHold \/ Rotate \/ BeginDeletion

LiveReadable == In("live") \subseteq readable

Next == (Operation \/ UNCHANGED lifecycle) /\ LiveReadable'

Spec == Init /\ [][Next]_lvars
=============================================================================
