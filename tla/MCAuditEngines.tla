--------------------------- MODULE MCAuditEngines ---------------------------
(***************************************************************************)
(* Catalogues of three mechanisms over three worlds.  A mechanism sees one *)
(* of the worlds apart, or all of them; with three different answers, two  *)
(* narrow mechanisms are needed or a wide one.  Some cost nothing, some    *)
(* need others, one may be inadmissible, and one or none may be active.    *)
(* The worlds are payments with 0, 1 and 2 committed rows; 3 rows are in   *)
(* the declared domain and excluded by a constraint.                       *)
(***************************************************************************)
EXTENDS AuditEngines

MCWorlds == 1..3
MCMechanisms == 1..3

Views == {[w \in MCWorlds |-> IF w = apart THEN 1 ELSE 0] : apart \in MCWorlds}
         \cup {[w \in MCWorlds |-> w]}

Costs == {<<1, 1, 2>>, <<0, 0, 1>>, <<2, 1, 0>>}

Dependencies == {<<{}, {}, {}>>, <<{2}, {}, {}>>, <<{}, {3}, {2}>>}

Active == {{}, {3}}

Answers == {<<1, 2, 3>>, <<0, 0, 1>>, <<0, 1, 0>>}

MCCatalogues ==
    {[trusted |-> t,
      mode |-> [k \in MCMechanisms |-> IF k \in a THEN "active" ELSE "passive"],
      observe |-> o, cost |-> c, requires |-> r,
      provides |-> [k \in MCMechanisms |-> IF k = 2 THEN {"bound"} ELSE {}],
      needs |-> n, answer |-> q] :
        t \in {{1, 2, 3}, {1, 3}}, a \in Active, o \in [MCMechanisms -> Views],
        c \in Costs, r \in Dependencies, n \in {{}, {"bound"}}, q \in Answers}

MCBaseOf == [w \in MCWorlds |-> "settled"]
MCRowCount == [w \in MCWorlds |-> w - 1]
MCStateCaps == {-1, 7, 24}

Formed ==
    [domain |-> "effect", kind |-> "fact", entities |-> {"payment"}, anchor |-> "payment",
     quantifier |-> "forall", assurance |-> "passive", from |-> 0, to |-> 1, deadline |-> 1,
     schedule |-> "on_demand", grace |-> 1]

MCClaims ==
    {Formed,
     [Formed EXCEPT !.kind = "causality", !.quantifier = "counterfactual", !.assurance = "active"],
     [Formed EXCEPT !.from = 2, !.to = 2]}

\* Evidence as a partition of the worlds, with two names for the finest.
MCChannels ==
    {<<1, 1, 1>>, <<1, 1, 2>>, <<1, 2, 1>>, <<2, 1, 1>>, <<1, 2, 3>>, <<3, 1, 2>>}

MCOtherClaims == {<<0, 1, 1>>}

\* The third mechanism sees every world apart, so that there is always a contract.
MCFollowed ==
    {[trusted |-> MCMechanisms, mode |-> [k \in MCMechanisms |-> "passive"],
      observe |-> o, cost |-> <<1, 1, 2>>, requires |-> <<{}, {}, {}>>,
      provides |-> [k \in MCMechanisms |-> IF k = 2 THEN {"bound"} ELSE {}],
      needs |-> {}, answer |-> q] :
        o \in {v \in [MCMechanisms -> Views] : v[3] = [w \in MCWorlds |-> w]}, q \in Answers}

=============================================================================
