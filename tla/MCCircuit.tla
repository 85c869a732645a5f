----------------------------- MODULE MCCircuit -----------------------------
(***************************************************************************)
(* Small instances of Circuit.  MaxCount (2) stands for u32::MAX, so that  *)
(* the saturation of the failure counter is reached.                       *)
(***************************************************************************)
EXTENDS CircuitBreaker, TLC

\* A reload may change the threshold and the cooldown, and switch the breaker
\* off or on.
MCPolicies ==
  {[enabled |-> TRUE, failureThreshold |-> 2, openSeconds |-> 1],
   [enabled |-> FALSE, failureThreshold |-> 1, openSeconds |-> 1]}

\* One enabled policy, for the runs without a reload.
MCOnePolicy == {[enabled |-> TRUE, failureThreshold |-> 1, openSeconds |-> 1]}

Symmetry == Permutations(Searches)
============================================================================
