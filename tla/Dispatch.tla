------------------------------ MODULE Dispatch ------------------------------
(***************************************************************************)
(* What a search promises of the calls it makes, whatever rounds, retries, *)
(* timers and panics it takes: a source is engaged once and paid for once, *)
(* waits for one of Width places, and is reported exactly once, as having  *)
(* answered or as having failed, before the verdict is given.              *)
(***************************************************************************)
EXTENDS Integers, FiniteSets

CONSTANTS Sources, Width

VARIABLES
  left,     \* calls that may still be engaged
  queued,   \* sources engaged and waiting for a place
  active,   \* sources that hold a place
  silent,   \* sources that ended without a word
  answered, refused,
  verdict

dispatchVars == <<left, queued, active, silent, answered, refused, verdict>>

Engaged == queued \cup active \cup silent \cup answered \cup refused

DispatchInit ==
  /\ left \in Nat
  /\ queued = {} /\ active = {} /\ silent = {} /\ answered = {} /\ refused = {}
  /\ verdict = "none"

Engage(p) ==
  /\ verdict = "none" /\ left > 0 /\ p \notin Engaged
  /\ left' = left - 1
  /\ queued' = queued \cup {p}
  /\ UNCHANGED <<active, silent, answered, refused, verdict>>

Begin(p) ==
  /\ p \in queued /\ Cardinality(active) < Width
  /\ queued' = queued \ {p} /\ active' = active \cup {p}
  /\ UNCHANGED <<left, silent, answered, refused, verdict>>

Answer(p) ==
  /\ p \in active
  /\ active' = active \ {p} /\ answered' = answered \cup {p}
  /\ UNCHANGED <<left, queued, silent, refused, verdict>>

\* A source fails, or its time is over before it got a place.
Refuse(p) ==
  /\ p \in queued \cup active
  /\ queued' = queued \ {p} /\ active' = active \ {p} /\ refused' = refused \cup {p}
  /\ UNCHANGED <<left, silent, answered, verdict>>

Vanish(p) ==
  /\ p \in active
  /\ active' = active \ {p} /\ silent' = silent \cup {p}
  /\ UNCHANGED <<left, queued, answered, refused, verdict>>

\* Those who said nothing are found out together, when no one else is awaited.
Notice ==
  /\ queued = {} /\ active = {} /\ silent # {}
  /\ silent' = {} /\ refused' = refused \cup silent
  /\ UNCHANGED <<left, queued, active, answered, verdict>>

\* Nobody is awaited any more, and success hides no failure.
Conclude ==
  /\ verdict = "none" /\ queued = {} /\ active = {} /\ silent = {}
  /\ verdict' \in {"failure", "partial_success", "success"}
  /\ verdict' # "failure" => answered # {}
  /\ verdict' = "success" => refused = {}
  /\ UNCHANGED <<left, queued, active, silent, answered, refused>>

DispatchNext ==
  \/ \E p \in Sources : Engage(p) \/ Begin(p) \/ Answer(p) \/ Refuse(p) \/ Vanish(p)
  \/ Notice \/ Conclude

DispatchSpec == DispatchInit /\ [][DispatchNext]_dispatchVars
=============================================================================
