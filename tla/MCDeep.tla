------------------------------- MODULE MCDeep -------------------------------
(* Two hosts: one with two pages that link to each other, also through a    *)
(* fragment, and another that the first may redirect to, with a page that   *)
(* links and redirects to an unsafe one.                                    *)
EXTENDS Deep, TLC

CONSTANTS a, b, c, d, near, far

MCHost == (a :> near @@ b :> near @@ c :> far @@ d :> far)
MCLinks == (a :> <<<<b, "">>, <<b, "#">>, <<b, "">>, <<c, "">>, <<d, "">>>>
            @@ b :> <<<<a, "">>>> @@ c :> <<<<c, "#">>, <<d, "">>>> @@ d :> <<>>)
MCMoves == (a :> {c} @@ b :> {c} @@ c :> {d} @@ d :> {})
MCCandidates == <<a, c>>

Group(delay, rules) == [state |-> "read", touched |-> TRUE, delay |-> delay, rules |-> rules]
Rule(pages, length, allow) == [pages |-> pages, length |-> length, allow |-> allow]
\* A short delay, a delay too long, and a group of AMATL's own that a longer
\* Allow opens again.
MCFiles ==
  {[specific |-> AllowAll, wildcard |-> Group(1, {})],
   [specific |-> AllowAll, wildcard |-> Group(9, {})],
   [specific |-> Group(0, {Rule(Pages, 1, FALSE), Rule({b}, 2, TRUE)}),
    wildcard |-> Group(0, {Rule(Pages, 1, TRUE)})]}
=============================================================================
