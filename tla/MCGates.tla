------------------------------ MODULE MCGates -------------------------------
(***************************************************************************)
(* The two gates that calls pass, checked side by side: the breaker in     *)
(* front of the providers and the rate limiter in front of the server.     *)
(* Each explores its own behaviours while the other rests in its initial   *)
(* state; they share no variable.                                          *)
(***************************************************************************)
EXTENDS MCCircuit, MCRateLimit

VARIABLE gate  \* the gate that moves

GatesInit ==
  /\ gate \in {"circuit", "rate"}
  /\ Init /\ RateInit /\ (gate = "circuit" => \A n \in Limits : limit <= n)

GatesNext ==
  \/ gate = "circuit" /\ Next /\ UNCHANGED <<gate, rateVars>>
  \/ gate = "rate" /\ RateNext /\ UNCHANGED <<gate, vars>>

Gates == GatesInit /\ [][GatesNext]_<<gate, vars, rateVars>>

Symmetric == Permutations(Searches) \cup Permutations(Ips)
=============================================================================
