---------------------------- MODULE MCDispatcher ----------------------------
(***************************************************************************)
(* Small instances of the dispatcher: call ids are interchangeable.        *)
(***************************************************************************)
EXTENDS Dispatcher, TLC

CallSymmetry == Permutations(CallIds)

=============================================================================
