------------------------------ MODULE FiniteAudit ------------------------------
(***************************************************************************)
(* What the engines have in common: a finite list of worlds, which the     *)
(* code walks through in its order (model.py, core/information_order.py),  *)
(* and mechanisms, whose identifiers it sorts.                             *)
(***************************************************************************)
EXTENDS Integers, FiniteSets, FiniteSetsExt

CONSTANTS
    Worlds,        \* positions in the list of worlds
    Mechanisms     \* mechanism ids, numbered as sorted

ASSUME WorldsAssumption == Worlds \subseteq Nat
ASSUME MechanismsAssumption == Mechanisms \subseteq Nat /\ IsFiniteSet(Mechanisms)

TotalCost(cost, set) == MapThenSumSet(LAMBDA k : cost[k], set)

\* Tuples of sorted names compare at the first name that is not common; the
\* set that ends there, or has the larger name there, is the other one.
LexicallyBefore(s, t) ==
    LET differing == (s \ t) \cup (t \ s)
        d == CHOOSE x \in differing : \A y \in differing : x <= y
    IN  /\ s # t
        /\ IF d \in s THEN \E x \in t : x > d ELSE ~\E x \in s : x > d

=============================================================================
