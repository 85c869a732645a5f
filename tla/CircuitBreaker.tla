--------------------------- MODULE CircuitBreaker ---------------------------
(***************************************************************************)
(* The circuit breaker as an implementation of Breaker: the times are the  *)
(* deadlines in the live instance, the sources kept are those whose row is *)
(* settled, and a request may report about what it was admitted to and,    *)
(* once it has returned, about what it has not recorded yet.               *)
(***************************************************************************)
EXTENDS Circuit

Blocked == [p \in Providers |-> mem[live][p].openUntil]
Kept == {p \in Providers : ~Unsettled(p)}
Outstanding == [s \in Searches |-> req[s].admitted \cup req[s].used \cup req[s].failed]

B == INSTANCE Breaker WITH
       Sources <- Providers, Callers <- Searches,
       Cooldowns <- {q.openSeconds : q \in Policies},
       clock <- now, on <- policy[live].enabled, until <- Blocked, kept <- Kept,
       calls <- Outstanding

\* The breaker keeps the promise of Breaker: however requests, their late
\* records, lost and overlapping writes, resets, reloads and crashes interleave,
\* a request is admitted exactly to the providers that are not in a cooldown,
\* only its outcomes and a reset move a deadline, never beyond a cooldown from
\* now, and a settled provider's deadline comes through every rebuild that can
\* read the table (select_providers, record, reset, restored).
ImplementsBreaker == B!BreakerSpec
=============================================================================
