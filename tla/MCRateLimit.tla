---------------------------- MODULE MCRateLimit ----------------------------
(***************************************************************************)
(* A small instance of RateLimit: two addresses, two requests in flight.   *)
(***************************************************************************)
EXTENDS RateLimit, TLC

\* Arrivals in flight are interchangeable, and so are addresses.
Interchangeable == Permutations(Arrivals) \cup Permutations(Ips)
=============================================================================
