------------------------------ MODULE MCStore -------------------------------
(***************************************************************************)
(* A small database for TLC: one query and one page with three contents,   *)
(* two of which fit the cache at a time; one day of retention, one second  *)
(* long.                                                                   *)
(***************************************************************************)
EXTENDS Store, TLC

CONSTANTS h1, h2, h3, t1, t2

MCSearchPolicy == [ttl |-> 1, entries |-> 1, bytes |-> 2]
MCDocumentPolicy == [ttl |-> 2, entries |-> 2, bytes |-> 3]
MCRetention ==
  [telemetry |-> 1, history |-> 1, search |-> 0, documents |-> 1, audit |-> 1]
MCCost ==
  [cache |-> 2, telemetry |-> 4, log |-> 4, copy |-> 3, restore |-> 2, downgrade |-> 6]
MCPages == {"page"}
Symmetry == Permutations(Hashes) \cup Permutations(Tasks)
=============================================================================
