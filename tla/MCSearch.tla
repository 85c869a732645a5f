------------------------------ MODULE MCSearch ------------------------------
(***************************************************************************)
(* A small instance of Search: a first round of one or two providers, two  *)
(* pages of one domain and one of another, so that two pages may reach the *)
(* minimum coverage only or the target too, and a deadline in which two    *)
(* calls that time out fit and a retry of the second one does not.         *)
(***************************************************************************)
EXTENDS SearchDispatch

CONSTANTS p1, p2, p3, g1, g2, g3

MCProviders == {p1, p2, p3}
MCRank      == [p \in MCProviders |-> CASE p = p1 -> 1 [] p = p2 -> 2 [] p = p3 -> 3]
MCPages     == {g1, g2, g3}
MCDomainOf  == [g \in MCPages |-> IF g = g3 THEN 2 ELSE 1]
MCAnswers   == {{}, {g1}, {g2}, {g1, g3}}
============================================================================
