------------------------------ MODULE Breaker ------------------------------
(***************************************************************************)
(* What the circuit breaker promises, without rows, instances, stamps and  *)
(* counters: a source is refused until some time, or it is not.  A caller  *)
(* is admitted to the sources that are not refused when it asks.  But for  *)
(* resets and rebuilds, only a report of a caller about a source it was    *)
(* admitted to moves that source's time, and never beyond a cooldown from  *)
(* now.  Sources that are kept come through a rebuild with their time; a   *)
(* move of a source's time leaves it unkept until it is settled again.     *)
(***************************************************************************)
EXTENDS Integers

CONSTANTS
  Sources, Callers,
  Cooldowns  \* how long a source may be refused

VARIABLES
  clock,
  on,     \* the breaker is in use
  until,  \* until[p]: p is refused before this time, or None
  kept,   \* the sources whose time a rebuild restores
  calls   \* calls[s]: the sources caller s may still report about

breakerVars == <<clock, on, until, kept, calls>>

None == -1

\* The times at which a cooldown that has begun may end.
Deadlines == {begun + length : begun \in 0 .. clock, length \in Cooldowns}

Refused(p) == on /\ clock < until[p]

BreakerInit ==
  /\ clock = 0 /\ on \in BOOLEAN
  /\ until = [p \in Sources |-> None] /\ kept = Sources
  /\ calls = [s \in Callers |-> {}]

Advance ==
  /\ clock' = clock + 1
  /\ UNCHANGED <<on, until, kept, calls>>

Admit(s) ==
  /\ calls[s] = {}
  /\ calls' = [calls EXCEPT ![s] = {p \in Sources : ~Refused(p)}]
  /\ UNCHANGED <<clock, on, until, kept>>

\* Some sources were not called, or the caller is gone.
Withdraw(s) ==
  /\ \E rest \in SUBSET calls[s] : calls' = [calls EXCEPT ![s] = rest]
  /\ UNCHANGED <<clock, on, until, kept>>

\* The caller reports about p, whose time becomes t.
Report(s, p, t) ==
  /\ p \in calls[s]
  /\ calls' = [calls EXCEPT ![s] = @ \ {p}]
  /\ until' = [until EXCEPT ![p] = t]
  /\ kept' \in {kept, kept \ {p}}
  /\ t # until[p] => on /\ p \notin kept'
  /\ UNCHANGED <<clock, on>>

\* A good report may end the cooldown, a bad one may begin another.
Succeed(s, p) == \E t \in {until[p], None} : Report(s, p, t)
Fail(s, p) == \E t \in {until[p]} \cup Deadlines : Report(s, p, t)

Settle ==
  /\ kept \subseteq kept' /\ kept' \subseteq Sources
  /\ UNCHANGED <<clock, on, until, calls>>

Reset ==
  /\ until' = [p \in Sources |-> None] /\ kept' = {}
  /\ UNCHANGED <<clock, on, calls>>

\* A new breaker has what was kept of the old one and perhaps older times of the
\* others, or begins anew; the callers of the old one go on or are gone.
Rebuild ==
  /\ on' \in BOOLEAN
  /\ calls' \in {calls, [s \in Callers |-> {}]}
  /\ \/ /\ until' \in [Sources -> Deadlines \cup {None}]
        /\ \A p \in kept : until'[p] = until[p]
        /\ kept \subseteq kept' /\ kept' \subseteq Sources
     \/ until' = [p \in Sources |-> None] /\ kept' = {}
  /\ UNCHANGED clock

BreakerNext ==
  \/ Advance \/ Settle \/ Reset \/ Rebuild
  \/ \E s \in Callers : Admit(s) \/ Withdraw(s)
  \/ \E s \in Callers, p \in Sources : Succeed(s, p) \/ Fail(s, p)

BreakerSpec == BreakerInit /\ [][BreakerNext]_breakerVars
============================================================================
