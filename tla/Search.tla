------------------------------- MODULE Search -------------------------------
(***************************************************************************)
(* One progressive search (crates/amatl-core/src/execution.rs): rounds are *)
(* planned against a call budget, the providers of a round run as parallel *)
(* tasks with permits, timeouts, retries and backoff, and after each round *)
(* the orchestrator either stops or picks exactly one more provider.       *)
(*                                                                         *)
(* Abstractions.  A provider answers with a set of pages; the pipeline     *)
(* (normalise, deduplicate, rank, diversify) keeps one result per page, so *)
(* what has been found is a set of pages.  Gains are compared with a       *)
(* threshold in 0..1 while the observed gain counts new pages: it is low   *)
(* exactly when there are none.  Scores only matter through the order they *)
(* give (Rank) and through who reaches the expected gain (gainful).  The   *)
(* wording of errors, the telemetry and the trace are left out.            *)
(***************************************************************************)
EXTENDS Integers, FiniteSets

CONSTANTS
  Providers, Rank,     \* the router's order, best first
  Pages, DomainOf,     \* canonical results and the domain of each
  Answers,             \* the sets of pages a provider may answer with
  Filters,             \* explicit filters a query may carry
  FirstRound,          \* first_round_min/max_providers in legacy mode
  CallLimits,          \* configured values of max_provider_calls
  GlobalConcurrency,   \* permits of the round
  MaxRetries,          \* retries of one call, at most two
  Timeout,             \* provider_timeout_ms
  Deadline,            \* Budget deadline
  MinRemaining,        \* minimum_remaining_deadline_ms
  RetryAfter,          \* delays a failing provider may ask for
  MaxJitter,           \* retry_jitter_ms
  MinUseful, TargetUseful, MinDomains, TargetDomains,
  DiversityFloor,      \* visible results below which diversity is not judged
  Horizon              \* bound: the clock stops here, past the deadline

DefaultDelay == 1      \* 50 ms, the delay after a timeout

ASSUME SearchAssumption ==
  /\ IsFiniteSet(Providers)
  /\ Rank \in [Providers -> Nat]
  /\ \A p, q \in Providers : Rank[p] = Rank[q] => p = q
  /\ {FirstRound, Timeout, Deadline, MinRemaining, Horizon,
      GlobalConcurrency} \subseteq Nat
  /\ GlobalConcurrency > 0 /\ Timeout > 0 /\ MinRemaining > 0
  /\ MaxRetries \in 0 .. 2 /\ MaxJitter \in Nat /\ RetryAfter \subseteq Nat
  /\ CallLimits \subseteq Nat /\ Answers \subseteq SUBSET Pages
  /\ Deadline > 0 /\ Horizon > Deadline

VARIABLES
  eligible,      \* providers the router did not exclude
  gainful,       \* those whose expected gain reaches the minimum
  required,      \* explicit filters of the query
  limit,         \* max_provider_calls
  roles,         \* the primary/expansion role model is active
  now,           \* time since the search started
  phase,         \* where the orchestrator is
  round,         \* round number
  next,          \* providers the next plan asks for
  budget,        \* remaining_provider_calls
  attempted,     \* providers some plan reserved
  task,          \* task[p]: the task of p in the current round
  pages,         \* results accumulated so far
  before,        \* results before this round
  covered,       \* explicit filters some answer accepted
  used, failed, partial,
  degraded,      \* some degradation was collected
  exceptionUsed, \* the one coverage exception is spent
  stop, status

query   == <<eligible, gainful, required, limit, roles>>
outcome == <<pages, covered, used, failed, partial, degraded>>
vars    == <<query, now, phase, round, next, budget, attempted, task, before,
             outcome, exceptionUsed, stop, status>>

TaskStates == {"none", "waiting", "calling", "backoff", "ok", "err", "lost"}
Task   == [st : TaskStates, attempt : 0 .. MaxRetries, until : Nat]
NoTask == [st |-> "none", attempt |-> 0, until |-> 0]
Waiting   == [NoTask EXCEPT !.st = "waiting"]
Ended(st) == [NoTask EXCEPT !.st = st]
StopReasons ==
  {"time_exhausted", "deadline_near", "provider_limit", "coverage_target_reached",
   "marginal_gain_low", "providers_exhausted", "explicit_filter_satisfied"}

Lesser(a, b) == IF a < b THEN a ELSE b
----------------------------------------------------------------------------
\* The better-ranked part of S that fits in n places.
Best(S, n) == {p \in S : Cardinality({q \in S : Rank[q] < Rank[p]}) < n}
IsFirst(p, S) == p \in S /\ \A q \in S : Rank[p] <= Rank[q]

\* evaluate_coverage.
Domains         == {DomainOf[g] : g \in pages}
CoverageMinimum == Cardinality(pages) >= MinUseful /\ Cardinality(Domains) >= MinDomains
CoverageTarget  == Cardinality(pages) >= TargetUseful /\ Cardinality(Domains) >= TargetDomains

\* recommend_with_roles: the first round's providers.
FirstPlan == Best(eligible, IF roles THEN 1 ELSE FirstRound)

Candidates     == eligible \ attempted
PendingFilters == required \ covered
Remaining      == IF now < Deadline THEN Deadline - now ELSE 0

\* Faulty variant: the permits are given back during a backoff.
RunningInCall(p) == task[p].st = "calling"

\* A task that holds its permits, which it keeps through a backoff.
Running(p) == task[p].st \in {"calling", "backoff"}
Permits    == Cardinality({p \in Providers : Running(p)})
----------------------------------------------------------------------------
Init ==
  /\ eligible \in SUBSET Providers
  /\ gainful \in SUBSET eligible
  /\ required \in SUBSET Filters
  /\ limit \in CallLimits
  /\ roles \in BOOLEAN
  /\ now = 0
  /\ phase = "planning"
  /\ round = 1
  /\ next = FirstPlan
  /\ budget = limit
  /\ attempted = {}
  /\ task = [p \in Providers |-> NoTask]
  /\ pages = {} /\ before = {} /\ covered = {}
  /\ used = {} /\ failed = {} /\ partial = {}
  /\ degraded \in BOOLEAN   \* a source was refused or unavailable
  /\ exceptionUsed = FALSE
  /\ stop = "none" /\ status = "none"

\* Faulty variant: the reservation does not look at what is left.
ReserveUnchecked ==
  /\ phase = "planning"
  /\ \E p \in next :
       /\ IsFirst(p, next)
       /\ next' = next \ {p}
       /\ budget' = budget - 1
       /\ attempted' = attempted \cup {p}
       /\ task' = [task EXCEPT ![p] = Waiting]
  /\ UNCHANGED <<query, now, phase, round, before, outcome, exceptionUsed, stop, status>>

\* build_search_plan: Budget::reserve_provider for one provider of the
\* recommendation; a refused one is dropped from the plan.
Reserve ==
  /\ phase = "planning"
  /\ \E p \in next :
       /\ IsFirst(p, next)
       /\ next' = next \ {p}
       /\ IF budget > 0
          THEN /\ budget' = budget - 1
               /\ attempted' = attempted \cup {p}
               /\ task' = [task EXCEPT ![p] = Waiting]
          ELSE UNCHANGED <<budget, attempted, task>>
  /\ UNCHANGED <<query, now, phase, round, before, outcome, exceptionUsed, stop, status>>

\* The plan is complete: its providers run in parallel; an empty one does not.
Launch ==
  /\ phase = "planning"
  /\ next = {}
  /\ phase' = IF \E p \in Providers : task[p].st = "waiting" THEN "running" ELSE "deciding"
  /\ UNCHANGED <<query, now, round, next, budget, attempted, task, before, outcome,
                 exceptionUsed, stop, status>>

taskFrame == <<query, now, phase, round, next, budget, attempted, before,
               exceptionUsed, stop, status>>

\* Faulty variant: every attempt gets the whole provider timeout.
CallingInFull(t) == [t EXCEPT !.st = "calling", !.until = now + Timeout]

\* A call starts, with the timeout cut to what is left of the deadline.
Calling(t) == [t EXCEPT !.st = "calling", !.until = Lesser(now + Timeout, Deadline)]

\* A task gets its permits.
Acquire(p) ==
  /\ phase = "running" /\ task[p].st = "waiting"
  /\ now < Deadline
  /\ Permits < GlobalConcurrency
  /\ task' = [task EXCEPT ![p] = Calling(task[p])]
  /\ UNCHANGED <<taskFrame, outcome>>

\* The deadline passes while the task waits for permits.
Starve(p) ==
  /\ phase = "running" /\ task[p].st = "waiting"
  /\ now >= Deadline
  /\ task' = [task EXCEPT ![p] = Ended("err")]
  /\ failed' = failed \cup {p}
  /\ UNCHANGED <<taskFrame, pages, covered, used, partial, degraded>>

\* The provider answers, perhaps only in part and with errors of its own.
Succeed(p) ==
  /\ phase = "running" /\ task[p].st = "calling"
  /\ task' = [task EXCEPT ![p] = Ended("ok")]
  /\ used' = used \cup {p}
  /\ \E found \in Answers : pages' = pages \cup found
  /\ \E accepted \in SUBSET required : covered' = covered \cup accepted
  /\ \E cut, flawed \in BOOLEAN :
       /\ partial' = IF cut THEN partial \cup {p} ELSE partial
       /\ degraded' = (degraded \/ flawed)
  /\ UNCHANGED <<taskFrame, failed>>

\* What the task does with an error: a recoverable one is retried after a
\* backoff that doubles, unless the retries or the time are used up.
AfterError(p, recoverable, delay, jitter) ==
  LET again   == task[p].attempt + 1
      backoff == (IF again = 1 THEN delay ELSE 2 * delay) + jitter
      retry   == recoverable /\ task[p].attempt < MaxRetries /\ now + backoff < Deadline
  IN
  /\ task' = [task EXCEPT ![p] =
       IF retry THEN [st |-> "backoff", attempt |-> again, until |-> now + backoff]
       ELSE Ended("err")]
  /\ failed' = IF retry THEN failed ELSE failed \cup {p}
  /\ UNCHANGED <<taskFrame, pages, covered, used, partial, degraded>>

\* The provider fails before its timeout.
Fail(p) ==
  /\ phase = "running" /\ task[p].st = "calling"
  /\ \E recoverable \in BOOLEAN, delay \in RetryAfter, jitter \in 0 .. MaxJitter :
       AfterError(p, recoverable, delay, jitter)

\* Faulty variant: only the first attempt is bounded by a timeout.
TimeOutFirst(p) ==
  /\ phase = "running" /\ task[p].st = "calling"
  /\ now >= task[p].until /\ task[p].attempt = 0
  /\ \E jitter \in 0 .. MaxJitter : AfterError(p, TRUE, DefaultDelay, jitter)

\* The attempt's timeout fires.
TimeOut(p) ==
  /\ phase = "running" /\ task[p].st = "calling"
  /\ now >= task[p].until
  /\ \E jitter \in 0 .. MaxJitter : AfterError(p, TRUE, DefaultDelay, jitter)

\* The backoff ends; the permits were kept.
Wake(p) ==
  /\ phase = "running" /\ task[p].st = "backoff"
  /\ now >= task[p].until
  /\ task' = [task EXCEPT ![p] = Calling(task[p])]
  /\ UNCHANGED <<taskFrame, outcome>>

\* The adapter panics: the join reports no name and no error.
Panic(p) ==
  /\ phase = "running" /\ task[p].st = "calling"
  /\ task' = [task EXCEPT ![p] = Ended("lost")]
  /\ UNCHANGED <<taskFrame, outcome>>

\* Faulty variant: what a panicking task leaves behind is not looked for.
JoinNamed ==
  /\ phase = "running"
  /\ \A p \in Providers : task[p].st \in {"none", "ok", "err", "lost"}
  /\ task' = [p \in Providers |-> NoTask]
  /\ phase' = "deciding"
  /\ UNCHANGED <<query, now, round, next, budget, attempted, before, outcome,
                 exceptionUsed, stop, status>>

\* The last task is joined: selected providers that are neither used nor failed
\* are failed, and the round is merged.
Join ==
  /\ phase = "running"
  /\ \A p \in Providers : task[p].st \in {"none", "ok", "err", "lost"}
  /\ failed' = failed \cup {p \in Providers : task[p].st = "lost"}
  /\ task' = [p \in Providers |-> NoTask]
  /\ phase' = "deciding"
  /\ UNCHANGED <<query, now, round, next, budget, attempted, before, pages, covered,
                 used, partial, degraded, exceptionUsed, stop, status>>

\* decide_progressive_round, conditions in the code's order.
GainLow ==
  /\ PendingFilters = {}
  /\ \/ CoverageMinimum /\ Candidates # {} /\ Candidates \cap gainful = {}
     \/ round > 1 /\ pages = before
StopReason(lowDiversity) ==
  IF Remaining = 0 THEN "time_exhausted"
  ELSE IF Remaining < MinRemaining THEN "deadline_near"
  ELSE IF Candidates # {} /\ budget = 0 THEN "provider_limit"
  ELSE IF CoverageTarget /\ PendingFilters = {} THEN "coverage_target_reached"
  ELSE IF GainLow THEN "marginal_gain_low"
  ELSE IF Candidates = {} THEN "providers_exhausted"
  ELSE IF CoverageMinimum /\ ~lowDiversity /\ PendingFilters = {}
       THEN "explicit_filter_satisfied"
  ELSE IF /\ PendingFilters = {} /\ Candidates \cap gainful = {}
          /\ CoverageMinimum \/ exceptionUsed
       THEN "marginal_gain_low"
  ELSE "none"
\* Faulty variant: an exception is only remembered when a filter is still pending.
ExceptionForgotten == PendingFilters # {} /\ Candidates \cap gainful = {}

\* The choice is the one allowed below the expected gain.
Exception == PendingFilters = {} /\ Candidates \cap gainful = {}
Preferred ==
  IF PendingFilters = {} /\ Candidates \cap gainful # {}
  THEN Candidates \cap gainful ELSE Candidates

\* Diversity is judged on the visible results only, of which there are at most
\* as many as results.
LowDiversity == IF Cardinality(pages) < DiversityFloor THEN {FALSE} ELSE BOOLEAN

\* The decision is to go on with exactly one more provider ...
Continue ==
  /\ phase = "deciding"
  /\ \E low \in LowDiversity : StopReason(low) = "none"
  /\ exceptionUsed' = (exceptionUsed \/ Exception)
  /\ \E p \in Preferred : IsFirst(p, Preferred) /\ next' = {p}
  /\ round' = round + 1
  /\ before' = pages
  /\ phase' = "planning"
  /\ UNCHANGED <<query, now, budget, attempted, task, outcome, stop, status>>

\* Faulty variant: reaching the minimum hides that the search was cut short.
CutShortOfMinimum(reason) ==
  /\ pages # {} /\ ~CoverageMinimum
  /\ reason \in {"time_exhausted", "deadline_near", "provider_limit"}

\* The search stopped with some results but before its target.
CutShort(reason) ==
  /\ pages # {} /\ ~CoverageTarget
  /\ reason \in {"time_exhausted", "deadline_near", "provider_limit"}

\* The status of the response.
Status(deg) ==
  IF pages = {} THEN "failure"
  ELSE IF deg \/ failed # {} \/ partial # {} THEN "partial_success" ELSE "success"

\* ... or to stop, with the degradation for a search cut short, and the status.
Stop ==
  /\ phase = "deciding"
  /\ \E low \in LowDiversity :
       /\ StopReason(low) # "none"
       /\ stop' = StopReason(low)
       /\ degraded' = (degraded \/ CutShort(StopReason(low)))
  /\ status' = Status(degraded')
  /\ phase' = "done"
  /\ UNCHANGED <<query, now, round, next, budget, attempted, task, before, pages,
                 covered, used, failed, partial, exceptionUsed>>

\* Time passes.  Timers fire on time: not while one that is due has not been
\* served.
Tick ==
  /\ phase \in {"running", "deciding"}
  /\ now < Horizon
  /\ phase = "running" =>
       \A p \in Providers :
         /\ Running(p) => now < task[p].until
         /\ task[p].st = "waiting" => now < Deadline
  /\ now' = now + 1
  /\ UNCHANGED <<query, phase, round, next, budget, attempted, task, before, outcome,
                 exceptionUsed, stop, status>>

TaskStep(p) ==
  \/ Acquire(p) \/ Starve(p) \/ Succeed(p) \/ Fail(p)
  \/ TimeOut(p) \/ Wake(p) \/ Panic(p)
Orchestrate == Reserve \/ Launch \/ Join \/ Continue \/ Stop

Done == phase = "done" /\ UNCHANGED vars

Next == Orchestrate \/ (\E p \in Providers : TaskStep(p)) \/ Tick \/ Done

Spec == Init /\ [][Next]_vars

\* The orchestrator's own code runs, the runtime polls its tasks, and the clock
\* moves: a call that never answers still times out.
Fairness ==
  /\ WF_vars(Orchestrate)
  /\ \A p \in Providers : WF_vars(Acquire(p) \/ Starve(p) \/ TimeOut(p) \/ Wake(p))
  /\ WF_vars(Tick)
FairSpec == Spec /\ Fairness
----------------------------------------------------------------------------
\* Types; what is planned and attempted is eligible.
TypeOK ==
  /\ eligible \in SUBSET Providers
  /\ gainful \in SUBSET eligible
  /\ required \in SUBSET Filters
  /\ limit \in Nat
  /\ roles \in BOOLEAN
  /\ now \in Nat
  /\ phase \in {"planning", "running", "deciding", "done"}
  /\ round \in Nat \ {0}
  /\ next \in SUBSET eligible
  /\ budget \in Nat
  /\ attempted \in SUBSET eligible
  /\ task \in [Providers -> Task]
  /\ pages \in SUBSET Pages /\ before \in SUBSET Pages
  /\ covered \in SUBSET required
  /\ used \in SUBSET Providers /\ failed \in SUBSET Providers /\ partial \in SUBSET Providers
  /\ degraded \in BOOLEAN /\ exceptionUsed \in BOOLEAN
  /\ stop \in StopReasons \cup {"none"}
  /\ status \in {"none", "failure", "partial_success", "success"}

\* A provider call is reserved once: retries, later rounds and refused
\* reservations never spend the budget twice nor run a call without one
\* (Budget::reserve_provider, and the attempted set of search).
BudgetConserved == budget + Cardinality(attempted) = limit

\* When a round is over, every provider ever reserved is reported as used or as
\* failed and not as both, however its task ended: answer, error, timeout,
\* starvation or panic (the join loop of execute_parallel, merge_parallel_output).
EveryAttemptAccounted ==
  phase \in {"deciding", "done"} =>
    used \cup failed = attempted /\ used \cap failed = {} /\ partial \subseteq used

\* No more provider calls are in flight than the global semaphore allows, in the
\* retries that follow a backoff too.
ConcurrencyRespected ==
  Cardinality({p \in Providers : task[p].st = "calling"}) <= GlobalConcurrency

\* No provider task outlives the search's deadline: waiting for permits, retries
\* and their backoff never extend it.
TasksEndByDeadline ==
  \A p \in Providers : task[p].st \in {"waiting", "calling", "backoff"} => now <= Deadline

\* Beyond the first round, a query without explicit filters gets at most one
\* provider whose expected gain is too low: the single coverage exception.
OneCoverageException ==
  required = {} =>
    Cardinality((attempted \cup next) \ (FirstPlan \cup gainful)) <= 1

\* The status success hides nothing: every provider called answered in full,
\* there are results, and a search stopped by its limits had reached its target.
SuccessIsWhole ==
  status = "success" =>
    /\ used = attempted /\ partial = {} /\ pages # {}
    /\ stop \in {"time_exhausted", "deadline_near", "provider_limit"} => CoverageTarget

\* Every search answers, whatever its providers do.
Terminates == <>(phase = "done")

\* A failure is only reported when every executable provider has been tried:
\* none is left, or the budget or the time does not allow another.
FailureOnlyWhenExhausted ==
  status = "failure" => Candidates = {} \/ budget = 0 \/ Remaining < MinRemaining
============================================================================
