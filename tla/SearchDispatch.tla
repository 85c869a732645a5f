--------------------------- MODULE SearchDispatch ---------------------------
(***************************************************************************)
(* The progressive search as an implementation of Dispatch: the places are *)
(* the permits, which a task keeps through its backoffs, and a call that   *)
(* panicked is silent until its round is joined.                           *)
(***************************************************************************)
EXTENDS Search

InState(states) == {p \in Providers : task[p].st \in states}

D == INSTANCE Dispatch WITH
       Sources <- Providers, Width <- GlobalConcurrency,
       left <- budget, queued <- InState({"waiting"}),
       active <- InState({"calling", "backoff"}), silent <- InState({"lost"}),
       answered <- used, refused <- failed, verdict <- status

\* The search keeps the promise of Dispatch: however its rounds interleave with
\* answers, errors, retries, starvation and panics, no provider is engaged or
\* paid for twice, no more of them hold permits than there are, each is reported
\* exactly once, and only then the status is given (search, execute_parallel).
ImplementsDispatch == D!DispatchSpec
=============================================================================
