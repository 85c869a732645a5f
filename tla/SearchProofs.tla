---------------------------- MODULE SearchProofs ----------------------------
(***************************************************************************)
(* Theorems about the progressive search, for every set of providers and   *)
(* pages, every policy, budget and deadline; the last one is that it       *)
(* implements Dispatch.                                                    *)
(***************************************************************************)
EXTENDS SearchDispatch, FiniteSetTheorems, TLAPS

USE DEF query, outcome, vars, taskFrame

\* An error either sends the task to sleep for a while, inside the deadline ...
Sleeps(p) ==
  /\ phase = "running" /\ task[p].st = "calling"
  /\ \E t \in Task : /\ t.st = "backoff" /\ t.until < Deadline
                     /\ task' = [task EXCEPT ![p] = t]
  /\ UNCHANGED <<taskFrame, outcome>>

\* ... or ends it.
GivesUp(p) ==
  /\ phase = "running" /\ task[p].st \in {"waiting", "calling"}
  /\ task' = [task EXCEPT ![p] = Ended("err")]
  /\ failed' = failed \cup {p}
  /\ UNCHANGED <<taskFrame, pages, covered, used, partial, degraded>>

\* A call starts, first or again.
Calls(p) ==
  /\ phase = "running" /\ task[p].st \in {"waiting", "backoff"}
  /\ task' = [task EXCEPT ![p] = Calling(task[p])]
  /\ UNCHANGED <<taskFrame, outcome>>

LEMMA EndedIsTask ==
  /\ Ended("ok") \in Task /\ Ended("err") \in Task /\ Ended("lost") \in Task
  /\ Waiting \in Task /\ NoTask \in Task
  /\ Ended("ok").st = "ok" /\ Ended("err").st = "err" /\ Ended("lost").st = "lost"
  /\ Waiting.st = "waiting" /\ NoTask.st = "none"
  BY SearchAssumption DEF Ended, Waiting, NoTask, Task, TaskStates

\* The call's timeout is a time, no later than the deadline.
LEMMA CallingIsTask ==
  ASSUME NEW t \in Task, now \in Nat
  PROVE  /\ Calling(t) \in Task /\ Calling(t).st = "calling"
         /\ Calling(t).until <= Deadline
<1> DEFINE u == Lesser(now + Timeout, Deadline)
<1>1. u \in Nat /\ u <= Deadline
  BY SearchAssumption DEF Lesser
<1>2. Calling(t) = [t EXCEPT !.st = "calling", !.until = u]
  BY DEF Calling
<1> HIDE DEF u
<1> QED
  BY <1>1, <1>2 DEF Task, TaskStates

\* A failed or timed out call sleeps or gives up.
LEMMA ErrorCases ==
  ASSUME TypeOK, NEW p \in Providers, Fail(p) \/ TimeOut(p)
  PROVE  Sleeps(p) \/ GivesUp(p)
<1>1. PICK recoverable \in BOOLEAN, delay \in Nat, jitter \in Nat :
        AfterError(p, recoverable, delay, jitter)
  <2>1. CASE Fail(p)
    BY <2>1, SearchAssumption DEF Fail
  <2>2. CASE TimeOut(p)
    <3>1. PICK jitter \in 0 .. MaxJitter : AfterError(p, TRUE, DefaultDelay, jitter)
      BY <2>2 DEF TimeOut
    <3>2. DefaultDelay \in Nat /\ jitter \in Nat
      BY SearchAssumption DEF DefaultDelay
    <3> QED
      BY <3>1, <3>2
  <2> QED
    BY <2>1, <2>2
<1> DEFINE again   == task[p].attempt + 1
           backoff == (IF again = 1 THEN delay ELSE 2 * delay) + jitter
           retry   == recoverable /\ task[p].attempt < MaxRetries /\ now + backoff < Deadline
           t       == [st |-> "backoff", attempt |-> again, until |-> now + backoff]
<1>2. phase = "running" /\ task[p].st = "calling"
  BY DEF Fail, TimeOut
<1>3. task[p].attempt \in 0 .. MaxRetries /\ now \in Nat /\ backoff \in Nat
  BY DEF TypeOK, Task
<1>4. /\ task' = [task EXCEPT ![p] = IF retry THEN t ELSE Ended("err")]
      /\ failed' = IF retry THEN failed ELSE failed \cup {p}
      /\ UNCHANGED <<taskFrame, pages, covered, used, partial, degraded>>
  BY <1>1 DEF AfterError
<1>5. CASE retry
  <2>1. t \in Task
    BY <1>3, <1>5, SearchAssumption DEF Task, TaskStates
  <2> HIDE DEF retry
  <2>2. task' = [task EXCEPT ![p] = t] /\ failed' = failed
    BY <1>4, <1>5
  <2>3. t.st = "backoff" /\ t.until < Deadline
    BY <1>5 DEF retry
  <2> QED
    BY <1>2, <1>4, <2>1, <2>2, <2>3 DEF Sleeps
<1>6. CASE ~retry
  <2> HIDE DEF retry
  <2> QED
    BY <1>2, <1>4, <1>6 DEF GivesUp
<1> QED
  BY <1>5, <1>6

\* What a step of a task may be.
LEMMA TaskCases ==
  ASSUME TypeOK, NEW p \in Providers, TaskStep(p)
  PROVE  Calls(p) \/ Sleeps(p) \/ GivesUp(p) \/ Succeed(p) \/ Panic(p)
<1>1. CASE Acquire(p)
  BY <1>1 DEF Acquire, Calls
<1>2. CASE Starve(p)
  BY <1>2 DEF Starve, GivesUp
<1>3. CASE Wake(p)
  BY <1>3 DEF Wake, Calls
<1> QED
  BY <1>1, <1>2, <1>3, ErrorCases DEF TaskStep

\* The types, step by step.
LEMMA TypeStep == TypeOK /\ [Next]_vars => TypeOK'
<1> SUFFICES ASSUME TypeOK, [Next]_vars PROVE TypeOK'
  OBVIOUS
<1> USE DEF TypeOK
<1>1. CASE Reserve
  BY <1>1, EndedIsTask DEF Reserve, IsFirst
<1>2. CASE Launch
  BY <1>2 DEF Launch
<1>3. CASE \E p \in Providers : TaskStep(p)
  <2>1. PICK p \in Providers : Calls(p) \/ Sleeps(p) \/ GivesUp(p) \/ Succeed(p) \/ Panic(p)
    BY <1>3, TaskCases
  <2>2. CASE Calls(p)
    <3>1. Calling(task[p]) \in Task
      BY CallingIsTask
    <3> QED
      BY <2>2, <3>1 DEF Calls
  <2>3. CASE Sleeps(p)
    BY <2>3 DEF Sleeps
  <2>4. CASE GivesUp(p)
    BY <2>4, EndedIsTask DEF GivesUp
  <2>5. CASE Succeed(p)
    BY <2>5, EndedIsTask, SearchAssumption DEF Succeed
  <2>6. CASE Panic(p)
    BY <2>6, EndedIsTask DEF Panic
  <2> QED
    BY <2>1, <2>2, <2>3, <2>4, <2>5, <2>6
<1>4. CASE Join
  BY <1>4, EndedIsTask DEF Join
<1>5. CASE Continue
  BY <1>5 DEF Continue, Preferred, Candidates
<1>6. CASE Stop
  BY <1>6 DEF Stop, StopReason, StopReasons, Status
<1>7. CASE Tick
  BY <1>7 DEF Tick
<1>8. CASE UNCHANGED vars
  BY <1>8
<1> QED
  BY <1>1, <1>2, <1>3, <1>4, <1>5, <1>6, <1>7, <1>8 DEF Next, Orchestrate, Done

LEMMA InitTypes == Init => TypeOK
<1> SUFFICES ASSUME Init PROVE TypeOK
  OBVIOUS
<1>1. next \in SUBSET eligible
  BY DEF Init, FirstPlan, Best
<1>2. limit \in Nat /\ task \in [Providers -> Task]
  BY SearchAssumption, EndedIsTask DEF Init
<1>3. now \in Nat /\ round \in Nat \ {0} /\ budget \in Nat
  BY <1>2 DEF Init
<1>4. phase = "planning" /\ stop = "none" /\ status = "none"
  BY DEF Init
<1>5. roles \in BOOLEAN /\ degraded \in BOOLEAN /\ exceptionUsed \in BOOLEAN
  BY DEF Init
<1>6. /\ eligible \in SUBSET Providers /\ gainful \in SUBSET eligible
      /\ required \in SUBSET Filters
      /\ attempted = {} /\ pages = {} /\ before = {} /\ covered = {}
      /\ used = {} /\ failed = {} /\ partial = {}
  BY DEF Init
<1> QED
  BY <1>1, <1>2, <1>3, <1>4, <1>5, <1>6 DEF TypeOK

\* The search's state always has its types: the budget does not go below zero
\* and attempts stay within the retries.
THEOREM TypeCorrect == Spec => []TypeOK
  BY InitTypes, TypeStep, PTL DEF Spec
----------------------------------------------------------------------------
\* Providers whose outcome is still to be reported.
Pending == {p \in Providers : task[p].st \in {"waiting", "calling", "backoff", "lost"}}

\* The ledger of reserved calls, at every moment: each is used, failed or
\* pending, and exactly one of them.
Ledger ==
  /\ attempted = used \cup failed \cup Pending
  /\ used \cap failed = {}
  /\ (used \cup failed) \cap Pending = {}
  /\ partial \subseteq used

\* A plan only names providers never reserved before.
PlansAreNew == next \cap attempted = {}

\* Tasks exist only from planning to join.
TasksInRound ==
  /\ phase = "planning" => \A p \in Providers : task[p].st \in {"none", "waiting"}
  /\ phase \in {"deciding", "done"} => \A p \in Providers : task[p].st = "none"

LedgerInv == TypeOK /\ Ledger /\ PlansAreNew /\ TasksInRound

LEMMA LedgerStep == LedgerInv /\ [Next]_vars => LedgerInv'
<1> SUFFICES ASSUME LedgerInv, [Next]_vars PROVE Ledger' /\ PlansAreNew' /\ TasksInRound'
  BY TypeStep DEF LedgerInv
<1> USE DEF LedgerInv, Ledger, PlansAreNew, TasksInRound, Pending
<1>t. task \in [Providers -> Task] /\ attempted \subseteq Providers /\ next \subseteq Providers
  BY DEF TypeOK
<1>1. CASE Reserve
  <2>1. PICK p \in next :
          /\ next' = next \ {p}
          /\ IF budget > 0
             THEN /\ attempted' = attempted \cup {p}
                  /\ task' = [task EXCEPT ![p] = Waiting]
             ELSE UNCHANGED <<attempted, task>>
    BY <1>1 DEF Reserve
  <2>2. phase = "planning" /\ UNCHANGED <<phase, used, failed, partial>>
    BY <1>1 DEF Reserve
  <2>3. CASE budget > 0
    <3>1. \A q \in Providers : task'[q] = IF q = p THEN Waiting ELSE task[q]
      BY <1>t, <2>1, <2>3
    <3>2. p \in Providers /\ p \notin attempted
      BY <1>t, <2>1
    <3>3. Pending' = Pending \cup {p}
      BY <3>1, <3>2, EndedIsTask
    <3>4. Ledger'
      BY <2>1, <2>2, <2>3, <3>2, <3>3
    <3>5. PlansAreNew'
      BY <2>1, <2>3
    <3>6. TasksInRound'
      BY <2>2, <3>1, EndedIsTask
    <3> QED
      BY <3>4, <3>5, <3>6
  <2>4. CASE ~(budget > 0)
    BY <2>1, <2>2, <2>4
  <2> QED
    BY <2>3, <2>4
<1>2. CASE Launch
  BY <1>2 DEF Launch
<1>3. CASE \E p \in Providers : TaskStep(p)
  <2>1. PICK p \in Providers : Calls(p) \/ Sleeps(p) \/ GivesUp(p) \/ Succeed(p) \/ Panic(p)
    BY <1>3, TaskCases
  <2>2. CASE Calls(p)
    <3>1. \A q \in Providers : task'[q] = IF q = p THEN Calling(task[p]) ELSE task[q]
      BY <1>t, <2>2 DEF Calls
    <3>2. Calling(task[p]).st = "calling"
      BY <1>t, CallingIsTask DEF TypeOK
    <3>3. Pending' = Pending
      BY <2>2, <3>1, <3>2 DEF Calls
    <3> QED
      BY <2>2, <3>3 DEF Calls
  <2>3. CASE Sleeps(p)
    <3>1. Pending' = Pending
      BY <1>t, <2>3 DEF Sleeps
    <3> QED
      BY <2>3, <3>1 DEF Sleeps
  <2>4. CASE GivesUp(p)
    <3>1. Pending' = Pending \ {p} /\ p \in Pending
      BY <1>t, <2>4, EndedIsTask DEF GivesUp
    <3> QED
      BY <2>4, <3>1 DEF GivesUp
  <2>5. CASE Succeed(p)
    <3>1. Pending' = Pending \ {p} /\ p \in Pending
      BY <1>t, <2>5, EndedIsTask DEF Succeed
    <3>2. partial' \subseteq partial \cup {p}
      BY <2>5 DEF Succeed
    <3> QED
      BY <2>5, <3>1, <3>2 DEF Succeed
  <2>6. CASE Panic(p)
    <3>1. Pending' = Pending
      BY <1>t, <2>6, EndedIsTask DEF Panic
    <3> QED
      BY <2>6, <3>1 DEF Panic
  <2> QED
    BY <2>1, <2>2, <2>3, <2>4, <2>5, <2>6
<1>4. CASE Join
  <2>1. Pending = {p \in Providers : task[p].st = "lost"}
    BY <1>4 DEF Join
  <2>2. \A p \in Providers : task'[p].st = "none"
    BY <1>4, EndedIsTask DEF Join
  <2>3. Pending' = {}
    BY <2>2
  <2> QED
    BY <1>4, <2>1, <2>2, <2>3 DEF Join
<1>5. CASE Continue
  <2>1. next' \cap attempted = {} /\ attempted' = attempted
    BY <1>5 DEF Continue, Preferred, Candidates
  <2> QED
    BY <1>5, <2>1 DEF Continue
<1>6. CASE Stop
  BY <1>6 DEF Stop
<1>7. CASE Tick
  BY <1>7 DEF Tick
<1>8. CASE UNCHANGED vars
  BY <1>8
<1> QED
  BY <1>1, <1>2, <1>3, <1>4, <1>5, <1>6, <1>7, <1>8 DEF Next, Orchestrate, Done

LEMMA InitLedger == Init => LedgerInv
<1> SUFFICES ASSUME Init PROVE LedgerInv
  OBVIOUS
<1>1. \A p \in Providers : task[p].st = "none"
  BY EndedIsTask DEF Init
<1>2. TypeOK
  BY InitTypes
<1> QED
  BY <1>1, <1>2 DEF Init, LedgerInv, Ledger, PlansAreNew, TasksInRound, Pending

LEMMA LedgerHolds == Spec => []LedgerInv
  BY InitLedger, LedgerStep, PTL DEF Spec

\* Every reserved call is reported exactly once when its round is over, however
\* its task ended.
THEOREM AttemptsAreAccounted == Spec => []EveryAttemptAccounted
<1>1. LedgerInv => EveryAttemptAccounted
  BY DEF LedgerInv, Ledger, TasksInRound, Pending, EveryAttemptAccounted
<1> QED
  BY <1>1, LedgerHolds, PTL
----------------------------------------------------------------------------
\* Every set of providers is finite, and the empty one has no member.
LEMMA ProviderSets ==
  ASSUME NEW S \in SUBSET Providers
  PROVE  IsFiniteSet(S) /\ Cardinality(S) \in Nat
  BY SearchAssumption, FS_Subset, FS_CardinalityType

BudgetInv == LedgerInv /\ BudgetConserved

\* The budget and the calls reserved from it always add up to the limit.
THEOREM BudgetIsConserved == Spec => []BudgetConserved
<1>1. Init => BudgetInv
  <2> SUFFICES ASSUME Init PROVE BudgetConserved
    BY InitLedger DEF BudgetInv
  <2>1. limit \in Nat /\ budget = limit /\ attempted = {}
    BY SearchAssumption DEF Init
  <2> QED
    BY <2>1, FS_EmptySet DEF BudgetConserved
<1>2. BudgetInv /\ [Next]_vars => BudgetInv'
  <2> SUFFICES ASSUME BudgetInv, [Next]_vars PROVE BudgetConserved'
    BY LedgerStep DEF BudgetInv
  <2>1. CASE Reserve
    <3>1. PICK p \in next :
            IF budget > 0
            THEN budget' = budget - 1 /\ attempted' = attempted \cup {p}
            ELSE UNCHANGED <<budget, attempted>>
      BY <2>1 DEF Reserve
    <3>2. p \notin attempted /\ budget \in Nat /\ limit' = limit
      BY <2>1 DEF BudgetInv, LedgerInv, PlansAreNew, TypeOK, Reserve
    <3>3. IsFiniteSet(attempted) /\ Cardinality(attempted) \in Nat
      BY ProviderSets DEF BudgetInv, LedgerInv, TypeOK
    <3>4. Cardinality(attempted \cup {p}) = Cardinality(attempted) + 1
      BY <3>2, <3>3, FS_AddElement
    <3> QED
      BY <3>1, <3>2, <3>3, <3>4 DEF BudgetInv, BudgetConserved
  <2>2. CASE UNCHANGED <<budget, attempted, limit>>
    BY <2>2 DEF BudgetInv, BudgetConserved
  <2>3. Reserve \/ UNCHANGED <<budget, attempted, limit>>
    <3>1. CASE Launch \/ Join \/ Continue \/ Stop \/ Tick \/ UNCHANGED vars
      BY <3>1 DEF Launch, Join, Continue, Stop, Tick
    <3>2. CASE \E p \in Providers : TaskStep(p)
      <4>1. PICK p \in Providers : Calls(p) \/ Sleeps(p) \/ GivesUp(p) \/ Succeed(p) \/ Panic(p)
        BY <3>2, TaskCases DEF BudgetInv, LedgerInv
      <4> QED
        BY <4>1 DEF Calls, Sleeps, GivesUp, Succeed, Panic
    <3> QED
      BY <3>1, <3>2 DEF Next, Orchestrate, Done
  <2> QED
    BY <2>1, <2>2, <2>3
<1> QED
  BY <1>1, <1>2, PTL DEF Spec, BudgetInv

\* The tasks that hold permits, counted in PermitsHeld.
Holders == {p \in Providers : Running(p)}
PermitsHeld == Permits <= GlobalConcurrency
PermitInv == TypeOK /\ PermitsHeld

\* Calls in flight never exceed the permits, retries included.
THEOREM ConcurrencyIsRespected == Spec => []ConcurrencyRespected
<1>1. Init => PermitInv
  <2> SUFFICES ASSUME Init PROVE PermitsHeld
    BY InitTypes DEF PermitInv
  <2>1. Holders = {}
    BY EndedIsTask DEF Init, Holders, Running
  <2>2. Cardinality(Holders) = 0 /\ Permits = Cardinality(Holders)
    BY <2>1, FS_EmptySet DEF Permits, Holders
  <2>3. GlobalConcurrency \in Nat
    BY SearchAssumption
  <2> QED
    BY <2>2, <2>3 DEF PermitsHeld
<1>2. PermitInv /\ [Next]_vars => PermitInv'
  <2> SUFFICES ASSUME PermitInv, [Next]_vars PROVE PermitsHeld'
    BY TypeStep DEF PermitInv
  <2>t. task \in [Providers -> Task]
    BY DEF PermitInv, TypeOK
  <2>f. /\ IsFiniteSet(Holders) /\ Cardinality(Holders) \in Nat
        /\ IsFiniteSet(Holders') /\ Cardinality(Holders') \in Nat
    BY ProviderSets DEF Holders
  <2>1. ASSUME NEW p \in Providers, Acquire(p) PROVE PermitsHeld'
    <3>1. Permits < GlobalConcurrency
      BY <2>1 DEF Acquire
    <3>2. Holders' \subseteq Holders \cup {p}
      BY <2>1, <2>t DEF Acquire, Holders, Running
    <3>a. /\ IsFiniteSet(Holders \cup {p})
          /\ Cardinality(Holders \cup {p}) =
               IF p \in Holders THEN Cardinality(Holders) ELSE Cardinality(Holders) + 1
      BY <2>f, FS_AddElement
    <3>3. /\ IsFiniteSet(Holders \cup {p})
          /\ Cardinality(Holders \cup {p}) <= Cardinality(Holders) + 1
      BY <2>f, <3>a
    <3>4. Cardinality(Holders') <= Cardinality(Holders \cup {p})
      BY <3>2, <3>3, FS_Subset
    <3>5. Cardinality(Holders \cup {p}) \in Nat
      BY <3>3, FS_CardinalityType
    <3> QED
      BY <2>f, <3>1, <3>3, <3>4, <3>5, SearchAssumption DEF PermitsHeld, Permits, Holders
  <2>2. CASE Holders' \subseteq Holders
    <3>1. Cardinality(Holders') <= Cardinality(Holders)
      BY <2>2, <2>f, FS_Subset
    <3> QED
      BY <3>1, <2>f, SearchAssumption DEF PermitInv, PermitsHeld, Permits, Holders
  <2>3. CASE Reserve
    BY <2>2, <2>3, <2>t, EndedIsTask DEF Reserve, Holders, Running
  <2>4. CASE Join
    BY <2>2, <2>4, EndedIsTask DEF Join, Holders, Running
  <2>5. CASE UNCHANGED task
    BY <2>2, <2>5 DEF Holders, Running
  <2>6. ASSUME NEW p \in Providers, TaskStep(p), ~Acquire(p) PROVE PermitsHeld'
    <3>1. CASE Wake(p)
      BY <2>2, <3>1, <2>t DEF Wake, Holders, Running
    <3>2. CASE Fail(p) \/ TimeOut(p)
      <4>1. Sleeps(p) \/ GivesUp(p)
        BY <3>2, ErrorCases DEF PermitInv
      <4>2. CASE Sleeps(p)
        BY <2>2, <4>2, <2>t DEF Sleeps, Holders, Running
      <4>3. CASE GivesUp(p)
        BY <2>2, <4>3, <2>t, EndedIsTask DEF GivesUp, Holders, Running
      <4> QED
        BY <4>1, <4>2, <4>3
    <3>3. CASE Starve(p) \/ Succeed(p) \/ Panic(p)
      BY <2>2, <3>3, <2>t, EndedIsTask DEF Starve, Succeed, Panic, Holders, Running
    <3> QED
      BY <2>6, <3>1, <3>2, <3>3 DEF TaskStep
  <2> QED
    BY <2>1, <2>3, <2>4, <2>5, <2>6 DEF Next, Orchestrate, Launch, Continue, Stop, Tick, Done
<1>3. PermitInv => ConcurrencyRespected
  <2> SUFFICES ASSUME PermitInv PROVE ConcurrencyRespected
    OBVIOUS
  <2> DEFINE C == {p \in Providers : task[p].st = "calling"}
  <2>1. C \subseteq Holders
    BY DEF Holders, Running
  <2>2. /\ IsFiniteSet(Holders) /\ Cardinality(Holders) \in Nat
        /\ IsFiniteSet(C) /\ Cardinality(C) \in Nat
    BY ProviderSets DEF Holders
  <2>3. Cardinality(C) <= Cardinality(Holders)
    BY <2>1, <2>2, FS_Subset
  <2> QED
    BY <2>2, <2>3, SearchAssumption DEF PermitInv, PermitsHeld, Permits, Holders, ConcurrencyRespected
<1> QED
  BY <1>1, <1>2, <1>3, PTL DEF Spec
----------------------------------------------------------------------------
\* Timers never reach past the deadline, and no round is planned at or after it.
TimersInDeadline == \A p \in Providers : Running(p) => task[p].until <= Deadline
PlannedInTime == phase = "planning" => now < Deadline

DeadlineInv == LedgerInv /\ TimersInDeadline /\ PlannedInTime /\ TasksEndByDeadline

\* Neither permits, nor retries, nor backoff extend the deadline.
THEOREM DeadlineHolds == Spec => []TasksEndByDeadline
<1> USE DEF TimersInDeadline, PlannedInTime, TasksEndByDeadline, Running
<1>d. Deadline \in Nat /\ 0 < Deadline
  BY SearchAssumption
<1>1. Init => DeadlineInv
  <2> SUFFICES ASSUME Init PROVE DeadlineInv
    OBVIOUS
  <2>1. \A p \in Providers : task[p].st = "none"
    BY EndedIsTask DEF Init
  <2> QED
    BY <1>d, <2>1, InitLedger DEF Init, DeadlineInv
<1>2. DeadlineInv /\ [Next]_vars => DeadlineInv'
  <2> SUFFICES ASSUME DeadlineInv, [Next]_vars
               PROVE  TimersInDeadline' /\ PlannedInTime' /\ TasksEndByDeadline'
    BY LedgerStep DEF DeadlineInv
  <2> USE DEF DeadlineInv
  <2>t. task \in [Providers -> Task] /\ now \in Nat
    BY DEF LedgerInv, TypeOK
  <2>u. \A p \in Providers : task[p].until \in Nat
    BY <2>t DEF Task
  <2>1. CASE Reserve
    <3>1. \A p \in Providers : task'[p] = Waiting \/ task'[p] = task[p]
      BY <2>1, <2>t DEF Reserve
    <3>2. now' = now /\ phase' = phase /\ phase = "planning"
      BY <2>1 DEF Reserve
    <3> QED
      BY <1>d, <2>t, <3>1, <3>2, EndedIsTask
  <2>2. CASE Launch
    BY <2>2 DEF Launch
  <2>3. CASE \E p \in Providers : TaskStep(p)
    <3>1. PICK p \in Providers : Calls(p) \/ Sleeps(p) \/ GivesUp(p) \/ Succeed(p) \/ Panic(p)
      BY <2>3, TaskCases DEF LedgerInv
    <3>2. CASE Calls(p)
      <4>1. Calling(task[p]).until <= Deadline
        BY <2>t, CallingIsTask
      <4>2. \A q \in Providers : task'[q] = IF q = p THEN Calling(task[p]) ELSE task[q]
        BY <2>t, <3>2 DEF Calls
      <4>3. now' = now /\ phase' = phase /\ task[p].st \in {"waiting", "backoff"}
        BY <3>2 DEF Calls
      <4> QED
        BY <4>1, <4>2, <4>3
    <3>3. CASE Sleeps(p)
      <4>1. PICK t \in Task : /\ t.st = "backoff" /\ t.until < Deadline
                              /\ task' = [task EXCEPT ![p] = t]
        BY <3>3 DEF Sleeps
      <4>2. t.until <= Deadline
        BY <1>d, <4>1 DEF Task
      <4>3. \A q \in Providers : task'[q] = IF q = p THEN t ELSE task[q]
        BY <2>t, <4>1
      <4>4. now' = now /\ phase' = phase /\ task[p].st = "calling"
        BY <3>3 DEF Sleeps
      <4> QED
        BY <4>2, <4>3, <4>4
    <3>4. CASE GivesUp(p)
      BY <2>t, <3>4, EndedIsTask DEF GivesUp
    <3>5. CASE Succeed(p)
      BY <2>t, <3>5, EndedIsTask DEF Succeed
    <3>6. CASE Panic(p)
      BY <2>t, <3>6, EndedIsTask DEF Panic
    <3> QED
      BY <3>1, <3>2, <3>3, <3>4, <3>5, <3>6
  <2>4. CASE Join
    BY <2>4, EndedIsTask DEF Join
  <2>5. CASE Continue
    <3>1. now < Deadline
      BY <2>5 DEF Continue, StopReason, Remaining
    <3> QED
      BY <2>5, <3>1 DEF Continue
  <2>6. CASE Stop
    BY <2>6 DEF Stop
  <2>7. CASE Tick
    <3>1. CASE phase = "running"
      BY <1>d, <2>7, <2>t, <2>u, <3>1 DEF Tick
    <3>2. CASE phase = "deciding"
      BY <2>7, <3>2 DEF Tick, LedgerInv, TasksInRound
    <3> QED
      BY <2>7, <3>1, <3>2 DEF Tick
  <2>8. CASE UNCHANGED vars
    BY <2>8
  <2> QED
    BY <2>1, <2>2, <2>3, <2>4, <2>5, <2>6, <2>7, <2>8 DEF Next, Orchestrate, Done
<1> QED
  BY <1>1, <1>2, PTL DEF Spec, DeadlineInv
----------------------------------------------------------------------------
\* The providers planned below the expected gain after the first round.
Excess == (attempted \cup next) \ (FirstPlan \cup gainful)

\* There is none until the exception is used, and then only the one it chose.
ExceptionInv ==
  /\ TypeOK
  /\ required = {} => Excess = {} \/ (exceptionUsed /\ \E p \in Providers : Excess = {p})

\* The coverage exception happens at most once in a search without filters.
THEOREM ExceptionIsSingle == Spec => []OneCoverageException
<1>1. Init => ExceptionInv
  BY InitTypes DEF Init, ExceptionInv, Excess
<1>2. ExceptionInv /\ [Next]_vars => ExceptionInv'
  <2> SUFFICES ASSUME ExceptionInv, [Next]_vars, required = {}
               PROVE  Excess' = {} \/ (exceptionUsed' /\ \E p \in Providers : Excess' = {p})
    <3>1. ASSUME [Next]_vars PROVE UNCHANGED required
      <4>1. CASE Reserve \/ Launch \/ Join \/ Continue \/ Stop
        BY <4>1 DEF Reserve, Launch, Join, Continue, Stop
      <4>2. ASSUME NEW p \in Providers, TaskStep(p) PROVE UNCHANGED required
        BY <4>2 DEF TaskStep, Acquire, Starve, Succeed, Fail, TimeOut, AfterError, Wake, Panic
      <4>3. CASE Tick \/ UNCHANGED vars
        BY <4>3 DEF Tick
      <4> QED
        BY <3>1, <4>1, <4>2, <4>3 DEF Next, Orchestrate, Done
    <3> QED
      BY <3>1, TypeStep DEF ExceptionInv
  <2>1. CASE Reserve
    <3>1. Excess' \subseteq Excess /\ exceptionUsed' = exceptionUsed
      BY <2>1 DEF Reserve, Excess, FirstPlan
    <3> QED
      BY <3>1 DEF ExceptionInv
  <2>2. CASE Continue
    <3>0. PICK p \in Preferred : next' = {p}
      BY <2>2 DEF Continue
    <3>1. PendingFilters = {} /\ UNCHANGED <<attempted, FirstPlan, gainful>>
      BY <2>2 DEF Continue, PendingFilters, FirstPlan
    <3>p. p \in Providers
      BY <3>0 DEF Preferred, Candidates, ExceptionInv, TypeOK
    <3>2. CASE Candidates \cap gainful # {}
      <4>1. p \in gainful
        BY <3>0, <3>1, <3>2 DEF Preferred
      <4>2. Excess' \subseteq Excess
        BY <3>0, <3>1, <4>1 DEF Excess
      <4>3. exceptionUsed' = exceptionUsed
        BY <2>2, <3>2 DEF Continue, Exception, ExceptionInv, TypeOK
      <4> QED
        BY <4>2, <4>3 DEF ExceptionInv
    <3>3. CASE Candidates \cap gainful = {}
      <4>1. exceptionUsed = FALSE
        <5>1. PICK low \in LowDiversity : StopReason(low) = "none"
          BY <2>2 DEF Continue
        <5> QED
          BY <5>1, <3>1, <3>3 DEF StopReason, ExceptionInv, TypeOK
      <4>2. Excess = {}
        BY <4>1 DEF ExceptionInv
      <4>3. Excess' \subseteq {p}
        BY <3>0, <3>1, <4>2 DEF Excess
      <4>4. exceptionUsed'
        BY <2>2, <3>1, <3>3 DEF Continue, Exception
      <4> QED
        BY <3>p, <4>3, <4>4
    <3> QED
      BY <3>2, <3>3
  <2>3. CASE UNCHANGED <<attempted, next, FirstPlan, gainful, exceptionUsed>>
    BY <2>3 DEF ExceptionInv, Excess
  <2>4. Reserve \/ Continue \/ UNCHANGED <<attempted, next, FirstPlan, gainful, exceptionUsed>>
    BY DEF Next, Orchestrate, TaskStep, Launch, Join, Stop, Tick, Done, FirstPlan,
           Acquire, Starve, Succeed, Fail, TimeOut, AfterError, Wake, Panic
  <2> QED
    BY <2>1, <2>2, <2>3, <2>4
<1>3. ExceptionInv => OneCoverageException
  <2> SUFFICES ASSUME ExceptionInv, required = {} PROVE Cardinality(Excess) <= 1
    BY DEF OneCoverageException, Excess
  <2>1. CASE Excess = {}
    BY <2>1, FS_EmptySet
  <2>2. CASE \E p \in Providers : Excess = {p}
    BY <2>2, FS_Singleton
  <2> QED
    BY <2>1, <2>2 DEF ExceptionInv
<1> QED
  BY <1>1, <1>2, <1>3, PTL DEF Spec
----------------------------------------------------------------------------
\* The status is given by the last step, and nothing changes after it.
SuccessInv ==
  /\ LedgerInv
  /\ status # "none" => phase = "done"
  /\ SuccessIsWhole

\* A success hides no failed, partial or missing provider and no cut.
THEOREM SuccessHidesNothing == Spec => []SuccessIsWhole
<1>1. Init => SuccessInv
  BY InitLedger DEF Init, SuccessInv, SuccessIsWhole
<1>2. SuccessInv /\ [Next]_vars => SuccessInv'
  <2> SUFFICES ASSUME SuccessInv, [Next]_vars
               PROVE  (status # "none" => phase = "done")' /\ SuccessIsWhole'
    BY LedgerStep DEF SuccessInv
  <2>1. CASE Stop
    <3>1. PICK low \in LowDiversity :
            /\ stop' = StopReason(low)
            /\ degraded' = (degraded \/ CutShort(StopReason(low)))
      BY <2>1 DEF Stop
    <3>2. ASSUME status' = "success"
          PROVE  pages # {} /\ ~degraded' /\ failed = {} /\ partial = {}
      BY <2>1, <3>2 DEF Stop, Status
    <3>3. used \cup failed = attempted
      BY <2>1 DEF Stop, SuccessInv, LedgerInv, Ledger, TasksInRound, Pending
    <3>4. UNCHANGED <<pages, used, attempted, partial>> /\ phase' = "done"
      BY <2>1 DEF Stop
    <3>5. CoverageTarget' = CoverageTarget
      BY <3>4 DEF CoverageTarget, Domains
    <3>6. SuccessIsWhole'
      BY <3>1, <3>2, <3>3, <3>4, <3>5 DEF SuccessIsWhole, CutShort
    <3> QED
      BY <3>4, <3>6
  <2>2. CASE status = "none" /\ status' = "none"
    BY <2>2 DEF SuccessIsWhole
  <2>3. CASE UNCHANGED vars
    BY <2>3 DEF SuccessInv, SuccessIsWhole, CoverageTarget, Domains
  <2>4. Stop \/ UNCHANGED vars \/ (phase # "done" /\ status' = status)
    BY DEF Next, Orchestrate, TaskStep, Reserve, Launch, Join, Continue, Tick, Done,
           Acquire, Starve, Succeed, Fail, TimeOut, AfterError, Wake, Panic
  <2> QED
    BY <2>1, <2>2, <2>3, <2>4 DEF SuccessInv
<1> QED
  BY <1>1, <1>2, PTL DEF Spec, SuccessInv
----------------------------------------------------------------------------
(* The refinement of Dispatch.                                              *)

\* The instance counts as its user does.
LEMMA SameCount == \A S : D!Cardinality(S) = Cardinality(S)
  BY DEF D!Cardinality, Cardinality

\* What the instance of Dispatch sees of the state.
Seen == <<budget, InState({"waiting"}), InState({"calling", "backoff"}), InState({"lost"}),
          used, failed, status>>

\* There are results only if somebody answered, and a verdict only at the end.
FoundByUse ==
  /\ pages # {} => used # {}
  /\ status # "none" => phase = "done"

DispatchInv == LedgerInv /\ FoundByUse

LEMMA FoundStep == DispatchInv /\ [Next]_vars => DispatchInv'
<1> SUFFICES ASSUME DispatchInv, [Next]_vars PROVE FoundByUse'
  BY LedgerStep DEF DispatchInv
<1> USE DEF DispatchInv, FoundByUse
<1>t. TypeOK
  BY DEF LedgerInv
<1>1. CASE Reserve
  BY <1>1 DEF Reserve
<1>2. CASE Launch
  BY <1>2 DEF Launch
<1>3. CASE \E p \in Providers : TaskStep(p)
  <2>1. PICK p \in Providers : Calls(p) \/ Sleeps(p) \/ GivesUp(p) \/ Succeed(p) \/ Panic(p)
    BY <1>3, <1>t, TaskCases
  <2> QED
    BY <2>1 DEF Calls, Sleeps, GivesUp, Succeed, Panic
<1>4. CASE Join
  BY <1>4 DEF Join
<1>5. CASE Continue
  BY <1>5 DEF Continue
<1>6. CASE Stop
  BY <1>6 DEF Stop
<1>7. CASE Tick
  BY <1>7 DEF Tick
<1>8. CASE UNCHANGED vars
  BY <1>8
<1> QED
  BY <1>1, <1>2, <1>3, <1>4, <1>5, <1>6, <1>7, <1>8 DEF Next, Orchestrate, Done

LEMMA FoundHolds == Spec => []DispatchInv
<1>1. Init => DispatchInv
  BY InitLedger DEF Init, DispatchInv, FoundByUse
<1> QED
  BY <1>1, FoundStep, PTL DEF Spec

\* When one task changes its state, it moves between the sets the mapping reads.
LEMMA TaskMoves ==
  ASSUME task \in [Providers -> Task], NEW p \in Providers, NEW t \in Task,
         task' = [task EXCEPT ![p] = t], NEW states
  PROVE  InState(states)' =
           IF t.st \in states THEN InState(states) \cup {p} ELSE InState(states) \ {p}
<1>1. \A q \in Providers : task'[q] = IF q = p THEN t ELSE task[q]
  OBVIOUS
<1> QED
  BY <1>1 DEF InState

\* A task that is given its permits, or sleeps with them, is running.
LEMMA TaskRuns ==
  ASSUME task \in [Providers -> Task], NEW p \in Providers, NEW t \in Task,
         task' = [task EXCEPT ![p] = t], t.st \in {"calling", "backoff"}
  PROVE  /\ InState({"waiting"})' = InState({"waiting"}) \ {p}
         /\ InState({"calling", "backoff"})' = InState({"calling", "backoff"}) \cup {p}
         /\ InState({"lost"})' = InState({"lost"}) \ {p}
<1>1. InState({"waiting"})' = InState({"waiting"}) \ {p}
  BY TaskMoves
<1>2. InState({"lost"})' = InState({"lost"}) \ {p}
  BY TaskMoves
<1>3. InState({"calling", "backoff"})' = InState({"calling", "backoff"}) \cup {p}
  BY TaskMoves
<1> QED
  BY <1>1, <1>2, <1>3

\* A task that ends is in none of them, and one that is lost is waited for.
LEMMA TaskEnds ==
  ASSUME task \in [Providers -> Task], NEW p \in Providers, NEW t \in Task,
         task' = [task EXCEPT ![p] = t], t.st \in {"ok", "err", "lost"}
  PROVE  /\ InState({"waiting"})' = InState({"waiting"}) \ {p}
         /\ InState({"calling", "backoff"})' = InState({"calling", "backoff"}) \ {p}
         /\ InState({"lost"})' = IF t.st = "lost" THEN InState({"lost"}) \cup {p}
                                                 ELSE InState({"lost"}) \ {p}
<1>1. InState({"waiting"})' = InState({"waiting"}) \ {p}
  BY TaskMoves
<1>2. InState({"calling", "backoff"})' = InState({"calling", "backoff"}) \ {p}
  BY TaskMoves
<1>3. InState({"lost"})' = IF t.st = "lost" THEN InState({"lost"}) \cup {p}
                                           ELSE InState({"lost"}) \ {p}
  BY TaskMoves
<1> QED
  BY <1>1, <1>2, <1>3

\* A step that changes no task, or only how long one sleeps, is not seen.
LEMMA UnseenStep ==
  ASSUME UNCHANGED Seen
  PROVE  UNCHANGED D!dispatchVars
  BY DEF Seen, D!dispatchVars

LEMMA ReserveSeen ==
  ASSUME DispatchInv, Reserve
  PROVE  (\E p \in Providers : D!Engage(p)) \/ UNCHANGED Seen
<1>1. PICK p \in next :
        IF budget > 0
        THEN /\ budget' = budget - 1
             /\ task' = [task EXCEPT ![p] = Waiting]
        ELSE UNCHANGED <<budget, attempted, task>>
  BY DEF Reserve
<1>2. /\ p \in Providers /\ task \in [Providers -> Task] /\ p \notin attempted
      /\ UNCHANGED <<used, failed, status>>
  BY <1>1 DEF Reserve, DispatchInv, LedgerInv, TypeOK, PlansAreNew
<1>3. CASE ~(budget > 0)
  BY <1>1, <1>2, <1>3 DEF Seen, InState
<1>4. CASE budget > 0
  <2>1. /\ InState({"waiting"})' = InState({"waiting"}) \cup {p}
        /\ InState({"calling", "backoff"})' = InState({"calling", "backoff"}) \ {p}
        /\ InState({"lost"})' = InState({"lost"}) \ {p}
    BY <1>1, <1>2, <1>4, TaskMoves, EndedIsTask
  <2>2. p \notin InState({"waiting"}) \cup InState({"calling", "backoff"}) \cup InState({"lost"})
                 \cup used \cup failed
    BY <1>2 DEF DispatchInv, LedgerInv, Ledger, Pending, InState
  <2>3. status = "none"
    BY DEF DispatchInv, FoundByUse, Reserve
  <2>4. D!Engage(p)
    BY <1>1, <1>2, <1>4, <2>1, <2>2, <2>3 DEF D!Engage, D!Engaged
  <2> QED
    BY <1>2, <2>4
<1> QED
  BY <1>3, <1>4

LEMMA TaskSeen ==
  ASSUME DispatchInv, NEW p \in Providers, TaskStep(p)
  PROVE  D!Begin(p) \/ D!Answer(p) \/ D!Refuse(p) \/ D!Vanish(p) \/ UNCHANGED Seen
<1> DEFINE waiting == InState({"waiting"})
           running == InState({"calling", "backoff"})
           lost == InState({"lost"})
<1>t. TypeOK /\ task \in [Providers -> Task] /\ task[p] \in Task /\ now \in Nat
  BY DEF DispatchInv, LedgerInv, TypeOK
<1>1. CASE Acquire(p) \/ Wake(p)
  <2>1. /\ Calling(task[p]) \in Task /\ Calling(task[p]).st = "calling"
        /\ task' = [task EXCEPT ![p] = Calling(task[p])]
        /\ UNCHANGED <<budget, used, failed, status>>
    BY <1>1, <1>t, CallingIsTask DEF Acquire, Wake
  <2>2. waiting' = waiting \ {p} /\ running' = running \cup {p} /\ lost' = lost \ {p}
    BY <1>t, <2>1, TaskRuns
  <2>3. CASE Acquire(p)
    <3>1. p \in waiting /\ p \notin lost
      BY <2>3 DEF Acquire, InState
    <3>2. running = {q \in Providers : Running(q)}
      BY DEF InState, Running
    <3>3. Cardinality(running) < GlobalConcurrency
      BY <2>3, <3>2 DEF Acquire, Permits
    <3>4. lost' = lost
      BY <2>2, <3>1
    <3> HIDE DEF waiting, running, lost
    <3>5. /\ p \in waiting /\ Cardinality(running) < GlobalConcurrency
          /\ waiting' = waiting \ {p} /\ running' = running \cup {p} /\ lost' = lost
          /\ UNCHANGED <<budget, used, failed, status>>
      BY <2>1, <2>2, <3>1, <3>3, <3>4
    <3> QED
      BY <3>5, SameCount DEF D!Begin, waiting, running, lost
  <2>4. CASE Wake(p)
    <3>1. p \in running /\ p \notin waiting /\ p \notin lost
      BY <2>4 DEF Wake, InState
    <3> QED
      BY <2>1, <2>2, <3>1 DEF Seen
  <2> QED
    BY <1>1, <2>3, <2>4
<1>2. CASE Sleeps(p)
  <2>1. PICK t \in Task : t.st = "backoff" /\ task' = [task EXCEPT ![p] = t]
    BY <1>2 DEF Sleeps
  <2>2. waiting' = waiting \ {p} /\ running' = running \cup {p} /\ lost' = lost \ {p}
    BY <1>t, <2>1, TaskRuns
  <2>3. p \in running /\ p \notin waiting /\ p \notin lost
    BY <1>2 DEF Sleeps, InState
  <2> QED
    BY <1>2, <2>2, <2>3 DEF Sleeps, Seen
<1>3. CASE GivesUp(p)
  <2>1. waiting' = waiting \ {p} /\ running' = running \ {p} /\ lost' = lost \ {p}
    <3>1. task' = [task EXCEPT ![p] = Ended("err")]
      BY <1>3 DEF GivesUp
    <3>2. Ended("err") \in Task /\ Ended("err").st = "err"
      BY EndedIsTask
    <3> QED
      BY <1>t, <3>1, <3>2, TaskEnds
  <2>2. p \in waiting \cup running /\ p \notin lost
    BY <1>3 DEF GivesUp, InState
  <2> QED
    BY <1>3, <2>1, <2>2 DEF GivesUp, D!Refuse
<1>4. CASE Succeed(p)
  <2>1. waiting' = waiting \ {p} /\ running' = running \ {p} /\ lost' = lost \ {p}
    <3>1. task' = [task EXCEPT ![p] = Ended("ok")]
      BY <1>4 DEF Succeed
    <3>2. Ended("ok") \in Task /\ Ended("ok").st = "ok"
      BY EndedIsTask
    <3> QED
      BY <1>t, <3>1, <3>2, TaskEnds
  <2>2. p \in running /\ p \notin waiting /\ p \notin lost
    BY <1>4 DEF Succeed, InState
  <2> QED
    BY <1>4, <2>1, <2>2 DEF Succeed, D!Answer
<1>5. CASE Panic(p)
  <2>1. waiting' = waiting \ {p} /\ running' = running \ {p} /\ lost' = lost \cup {p}
    <3>1. task' = [task EXCEPT ![p] = Ended("lost")]
      BY <1>5 DEF Panic
    <3>2. Ended("lost") \in Task /\ Ended("lost").st = "lost"
      BY EndedIsTask
    <3> QED
      BY <1>t, <3>1, <3>2, TaskEnds
  <2>2. p \in running /\ p \notin waiting
    BY <1>5 DEF Panic, InState
  <2> QED
    BY <1>5, <2>1, <2>2 DEF Panic, D!Vanish
<1>6. CASE Starve(p)
  <2>1. GivesUp(p)
    BY <1>6 DEF Starve, GivesUp
  <2> QED
    BY <1>3, <2>1
<1>7. CASE Fail(p) \/ TimeOut(p)
  BY <1>2, <1>3, <1>7, <1>t, ErrorCases
<1> QED
  BY <1>1, <1>4, <1>5, <1>6, <1>7 DEF TaskStep

LEMMA JoinSeen ==
  ASSUME DispatchInv, Join
  PROVE  D!Notice \/ UNCHANGED Seen
<1>1. /\ InState({"waiting"}) = {} /\ InState({"calling", "backoff"}) = {}
      /\ InState({"lost"}) = {p \in Providers : task[p].st = "lost"}
  BY DEF Join, InState
<1>2. \A p \in Providers : task'[p].st = "none"
  BY EndedIsTask DEF Join
<1>3. /\ InState({"waiting"})' = {} /\ InState({"calling", "backoff"})' = {}
      /\ InState({"lost"})' = {}
  BY <1>2 DEF InState
<1>4. failed' = failed \cup InState({"lost"}) /\ UNCHANGED <<budget, used, status>>
  BY <1>1 DEF Join
<1>5. CASE InState({"lost"}) = {}
  BY <1>1, <1>3, <1>4, <1>5 DEF Seen
<1>6. CASE InState({"lost"}) # {}
  BY <1>1, <1>3, <1>4, <1>6 DEF D!Notice
<1> QED
  BY <1>5, <1>6

LEMMA StopSeen ==
  ASSUME DispatchInv, Stop
  PROVE  D!Conclude
<1>1. /\ InState({"waiting"}) = {} /\ InState({"calling", "backoff"}) = {}
      /\ InState({"lost"}) = {}
  BY DEF Stop, DispatchInv, LedgerInv, TasksInRound, InState
<1>2. /\ InState({"waiting"})' = InState({"waiting"})
      /\ InState({"calling", "backoff"})' = InState({"calling", "backoff"})
      /\ InState({"lost"})' = InState({"lost"})
      /\ UNCHANGED <<budget, used, failed>>
  BY DEF Stop, InState
<1>3. status = "none"
  BY DEF Stop, DispatchInv, FoundByUse
<1>4. /\ status' \in {"failure", "partial_success", "success"}
      /\ status' # "failure" => pages # {}
      /\ status' = "success" => failed = {}
  BY DEF Stop, Status
<1>5. status' # "failure" => used # {}
  BY <1>4 DEF DispatchInv, FoundByUse
<1> QED
  BY <1>1, <1>2, <1>3, <1>4, <1>5 DEF D!Conclude

\* Every step of the search is a step of Dispatch or is not seen by it.
LEMMA StepSeen ==
  ASSUME DispatchInv, [Next]_vars
  PROVE  [D!DispatchNext]_(D!dispatchVars)
<1>1. CASE Reserve
  BY <1>1, ReserveSeen, UnseenStep DEF D!DispatchNext
<1>2. CASE \E p \in Providers : TaskStep(p)
  BY <1>2, TaskSeen, UnseenStep DEF D!DispatchNext
<1>3. CASE Join
  BY <1>3, JoinSeen, UnseenStep DEF D!DispatchNext
<1>4. CASE Stop
  BY <1>4, StopSeen DEF D!DispatchNext
<1>5. CASE Launch \/ Continue \/ Tick \/ UNCHANGED vars
  <2>1. UNCHANGED Seen
    BY <1>5 DEF Launch, Continue, Tick, Seen, InState
  <2> QED
    BY <2>1, UnseenStep
<1> QED
  BY <1>1, <1>2, <1>3, <1>4, <1>5 DEF Next, Orchestrate, Done

LEMMA InitSeen == Init => D!DispatchInit
<1> SUFFICES ASSUME Init PROVE D!DispatchInit
  OBVIOUS
<1>1. \A p \in Providers : task[p].st = "none"
  BY EndedIsTask DEF Init
<1>2. budget \in Nat /\ used = {} /\ failed = {} /\ status = "none"
  BY SearchAssumption DEF Init
<1>3. InState({"waiting"}) = {} /\ InState({"calling", "backoff"}) = {} /\ InState({"lost"}) = {}
  BY <1>1 DEF InState
<1> QED
  BY <1>2, <1>3 DEF D!DispatchInit

\* The search implements Dispatch: each provider is engaged and paid for once,
\* at most GlobalConcurrency of them hold permits, each is reported exactly
\* once, and the status comes after all of them and hides no failure.
THEOREM SearchImplementsDispatch == Spec => ImplementsDispatch
  BY InitSeen, StepSeen, FoundHolds, PTL DEF Spec, ImplementsDispatch, D!DispatchSpec
=============================================================================
