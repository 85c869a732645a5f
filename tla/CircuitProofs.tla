--------------------------- MODULE CircuitProofs ---------------------------
(***************************************************************************)
(* Theorems about the circuit breaker, for every set of providers,         *)
(* requests and policies and every bound.                                  *)
(***************************************************************************)
EXTENDS CircuitBreaker, TLAPS

USE DEF Instances, NoTime, memVars, auxVars, vars

\* The default record is a record, and idle requests are requests.
LEMMA FreshIsRecord == Fresh \in Record
  BY BoundsAssumption DEF Fresh, Record

LEMMA IdleIsRequest == Idle \in Request
  BY BoundsAssumption DEF Idle, Request

\* What record() computes is a record again: the counter saturates.
LEMMA OutcomeIsRecord ==
  ASSUME NEW r \in Record, NEW q \in Policies, NEW ok \in BOOLEAN, NEW t \in Nat
  PROVE  Outcome(r, q, ok, t) \in Record
<1>1. q.openSeconds \in Nat /\ q.failureThreshold \in Nat
  BY PoliciesAssumption
<1>2. Failed(r, q, t) \in Record
  <2> DEFINE n == IF r.failures < MaxCount THEN r.failures + 1 ELSE MaxCount
  <2>1. n \in 0 .. MaxCount
    BY BoundsAssumption DEF Record
  <2>2. [failures |-> n, openedAt |-> t, openUntil |-> t + q.openSeconds] \in Record
    BY <1>1, <2>1 DEF Record
  <2>3. [r EXCEPT !.failures = n] \in Record
    BY <2>1 DEF Record
  <2> QED
    BY <2>2, <2>3 DEF Failed
<1> QED
  BY <1>2, FreshIsRecord DEF Outcome

\* The types are preserved by every step of a request ...
LEMMA RequestStepType ==
  ASSUME TypeOK, NEW s \in Searches, Select(s) \/ SearchStep(s)
  PROVE  TypeOK'
<1> USE DEF TypeOK
<1>1. CASE Select(s)
  <2>1. PICK a \in SUBSET Providers, b \in SUBSET Providers :
          req' = [req EXCEPT ![s] = [req[s] EXCEPT !.pc = "running", !.inst = live,
                                                   !.admitted = a, !.probing = b]]
    BY <1>1 DEF Select
  <2>2. req[s] \in Request /\ live \in Instances
    OBVIOUS
  <2>3. LET r == [req[s] EXCEPT !.pc = "running", !.inst = live, !.admitted = a, !.probing = b]
        IN  r \in Request /\ r.pc = "running"
    BY <2>2 DEF Request
  <2> QED
    BY <1>1, <2>1, <2>2, <2>3 DEF Select
<1>2. CASE Return(s)
  <2>1. PICK attempted \in SUBSET req[s].admitted : \E ok \in SUBSET attempted :
          req' = [req EXCEPT ![s] = [@ EXCEPT
            !.pc = "recording", !.admitted = {}, !.probing = {},
            !.used = ok, !.failed = attempted \ ok, !.stamp = now]]
    BY <1>2 DEF Return
  <2>2. PICK ok \in SUBSET attempted :
          req' = [req EXCEPT ![s] = [@ EXCEPT
            !.pc = "recording", !.admitted = {}, !.probing = {},
            !.used = ok, !.failed = attempted \ ok, !.stamp = now]]
    BY <2>1
  <2>3. /\ req[s] \in Request
        /\ ok \in SUBSET Providers /\ attempted \ ok \in SUBSET Providers
    BY DEF Request
  <2>4. req'[s] \in Request /\ req'[s].pc = "recording"
    BY <2>2, <2>3 DEF Request
  <2> QED
    BY <1>2, <2>2, <2>4 DEF Return
<1>3. ASSUME NEW p \in Providers, NEW ok \in BOOLEAN, RecordOutcome(s, p, ok)
      PROVE  TypeOK'
  <2> DEFINE i == req[s].inst
             r == Outcome(mem[i][p], policy[i], ok, req[s].stamp)
             writes == policy[i].enabled /\ stored[i]
  <2>1. req[s] \in Request /\ i \in Instances
    BY DEF Request
  <2>2. r \in Record
    BY <2>1, OutcomeIsRecord DEF Request
  <2>3. [provider |-> p, record |-> r] \in Row
    BY <2>2 DEF Row
  <2>4. req' = [req EXCEPT ![s] = [@ EXCEPT
          !.used = req[s].used \ {p}, !.failed = req[s].failed \ {p},
          !.pc = IF writes THEN "writing" ELSE "recording",
          !.put = IF writes THEN [provider |-> p, record |-> r] ELSE NoPut]]
    BY <1>3 DEF RecordOutcome
  <2> HIDE DEF r, writes
  <2>5. req'[s] \in Request /\ (req'[s].pc = "writing" => req'[s].put \in Row)
    <3>1. CASE writes
      BY <2>1, <2>3, <2>4, <3>1 DEF Request
    <3>2. CASE ~writes
      BY <2>1, <2>4, <3>2 DEF Request
    <3> QED
      BY <3>1, <3>2
  <2>6. mem' \in [Instances -> [Providers -> Record]]
    BY <1>3, <2>1, <2>2 DEF RecordOutcome, r
  <2> QED
    BY <1>3, <2>4, <2>5, <2>6 DEF RecordOutcome
<1>4. ASSUME EndPut(s), disk' \in [Providers -> Record], lost' \in SUBSET Providers
      PROVE  TypeOK'
  <2>1. req[s] \in Request
    OBVIOUS
  <2>2. req'[s] \in Request /\ req'[s].pc = "recording"
    BY <1>4, <2>1 DEF EndPut, Request
  <2> QED
    BY <1>4, <2>2 DEF EndPut
<1>5. ASSUME EndPut(s) PROVE req[s].put.provider \in Providers /\ req[s].put.record \in Record
  BY <1>5 DEF EndPut, Row
<1>6. CASE PutRow(s)
  BY <1>4, <1>5, <1>6 DEF PutRow
<1>7. CASE PutFails(s)
  BY <1>4, <1>5, <1>7 DEF PutFails
<1>8. CASE Answer(s)
  BY <1>8, IdleIsRequest DEF Answer, Idle
<1>9. CASE Cancel(s)
  <2>1. lost' \in SUBSET Providers
    BY <1>9 DEF Cancel, Row
  <2>2. disk' \in [Providers -> Record]
    BY <1>9 DEF Cancel, Row
  <2> QED
    BY <1>9, <2>1, <2>2, IdleIsRequest DEF Cancel, Idle
<1> QED
  BY <1>1, <1>2, <1>3, <1>6, <1>7, <1>8, <1>9 DEF SearchStep

\* ... and by every other step.
LEMMA ServiceStepType ==
  ASSUME TypeOK,
         \/ Tick \/ Reset \/ ClearRows \/ ClearFails
         \/ \E q \in Policies, opens, loads \in BOOLEAN :
              Reload(q, opens, loads) \/ Restart(q, opens, loads)
  PROVE  TypeOK'
<1> USE FreshIsRecord, IdleIsRequest DEF TypeOK
<1>1. CASE Tick
  BY <1>1 DEF Tick
<1>2. CASE Reset
  BY <1>2 DEF Reset
<1>3. CASE ClearRows
  BY <1>3 DEF ClearRows
<1>4. CASE ClearFails
  BY <1>4 DEF ClearFails
<1>5. ASSUME NEW q \in Policies, NEW opens \in BOOLEAN, NEW loads \in BOOLEAN,
             Restored(q, opens, loads),
             req' \in [Searches -> Request],
             \A s \in Searches : req'[s].pc = "writing" => req'[s].put \in Row,
             resetting' \in Instances \cup {0}, raced' \in SUBSET Providers
      PROVE  TypeOK'
  <2>1. live + 1 \in Instances
    BY <1>5, BoundsAssumption DEF Restored
  <2> QED
    BY <1>5, <2>1 DEF Restored
<1>6. ASSUME NEW q \in Policies, NEW opens \in BOOLEAN, NEW loads \in BOOLEAN,
             Reload(q, opens, loads)
      PROVE  TypeOK'
  BY <1>5, <1>6 DEF Reload
<1>7. ASSUME NEW q \in Policies, NEW opens \in BOOLEAN, NEW loads \in BOOLEAN,
             Restart(q, opens, loads)
      PROVE  TypeOK'
  BY <1>5, <1>7 DEF Restart, Idle
<1> QED
  BY <1>1, <1>2, <1>3, <1>4, <1>6, <1>7

LEMMA TypeStep == TypeOK /\ [Next]_vars => TypeOK'
<1> SUFFICES ASSUME TypeOK, [Next]_vars PROVE TypeOK'
  OBVIOUS
<1>1. CASE UNCHANGED vars
  BY <1>1 DEF TypeOK
<1> QED
  BY <1>1, RequestStepType, ServiceStepType DEF Next

\* The breaker, its table and its requests are well typed: type correctness of
\* ProviderCircuit and of the rows it persists, in every reachable state.
THEOREM TypeCorrect == Spec => []TypeOK
<1>1. Init => TypeOK
  BY FreshIsRecord, IdleIsRequest, BoundsAssumption DEF Init, TypeOK, Idle
<1> QED
  BY <1>1, TypeStep, PTL DEF Spec

----------------------------------------------------------------------------
\* A timestamp taken by record_circuit_outcomes is never in the future.
StampsPast == \A s \in Searches : req[s].stamp <= now

CooldownInv == TypeOK /\ StampsPast /\ BoundedCooldown

\* Time only moves a cooldown further into the past.
LEMMA CooldownAges ==
  ASSUME NEW r \in Record, NEW t \in Nat, NEW u \in Nat, t <= u, CooldownFrom(r, t)
  PROVE  CooldownFrom(r, u)
BY DEF CooldownFrom, Record

LEMMA FreshCooldown == ASSUME NEW t \in Nat PROVE CooldownFrom(Fresh, t)
BY DEF CooldownFrom, Fresh

\* A failure starts a cooldown of the policy's length at its timestamp, or
\* leaves the deadline alone.
LEMMA OutcomeCooldown ==
  ASSUME NEW r \in Record, NEW q \in Policies, NEW ok \in BOOLEAN,
         NEW t \in Nat, NEW u \in Nat, t <= u, CooldownFrom(r, u)
  PROVE  CooldownFrom(Outcome(r, q, ok, t), u)
<1>1. CASE ok
  BY <1>1, FreshCooldown DEF Outcome
<1>2. CASE ~ok
  <2> DEFINE n == IF r.failures < MaxCount THEN r.failures + 1 ELSE MaxCount
  <2>1. Outcome(r, q, ok, t) = Failed(r, q, t)
    BY <1>2 DEF Outcome
  <2>2. CASE n >= q.failureThreshold
    <3>1. Failed(r, q, t) =
            [failures |-> n, openedAt |-> t, openUntil |-> t + q.openSeconds]
      BY <2>2 DEF Failed
    <3> QED
      BY <2>1, <3>1 DEF CooldownFrom
  <2>3. CASE ~(n >= q.failureThreshold)
    <3>1. Failed(r, q, t) = [r EXCEPT !.failures = n]
      BY <2>3 DEF Failed
    <3>2. /\ [r EXCEPT !.failures = n].openedAt = r.openedAt
          /\ [r EXCEPT !.failures = n].openUntil = r.openUntil
      BY DEF Record
    <3> QED
      BY <2>1, <3>1, <3>2 DEF CooldownFrom
  <2> QED
    BY <2>2, <2>3
<1> QED
  BY <1>1, <1>2

LEMMA CooldownStep == CooldownInv /\ [Next]_vars => CooldownInv'
<1> SUFFICES ASSUME CooldownInv, [Next]_vars PROVE StampsPast' /\ BoundedCooldown'
  BY TypeStep DEF CooldownInv
<1> USE DEF CooldownInv, TypeOK, StampsPast, BoundedCooldown
<1>1. CASE UNCHANGED vars
  BY <1>1
<1>2. CASE Tick
  <2>1. now \in Nat /\ now' \in Nat /\ now <= now'
    BY <1>2 DEF Tick
  <2>2. UNCHANGED <<mem, disk, req>>
    BY <1>2 DEF Tick
  <2>3. StampsPast'
    BY <2>1, <2>2 DEF Request
  <2>4. ASSUME NEW i \in Instances, NEW p \in Providers PROVE CooldownFrom(mem[i][p], now')
    BY <2>1, CooldownAges
  <2>5. ASSUME NEW p \in Providers PROVE CooldownFrom(disk[p], now')
    BY <2>1, CooldownAges
  <2>6. ASSUME NEW s \in Searches, req[s].pc = "writing"
        PROVE  CooldownFrom(req[s].put.record, now')
    <3>1. req[s].put.record \in Record
      BY <2>6 DEF Row
    <3> QED
      BY <2>1, <2>6, <3>1, CooldownAges
  <2> QED
    BY <2>2, <2>3, <2>4, <2>5, <2>6
<1>3. ASSUME NEW s \in Searches, Select(s) PROVE StampsPast' /\ BoundedCooldown'
  <2>1. req'[s].pc = "running" /\ req'[s].stamp = req[s].stamp
    BY <1>3 DEF Select, Request
  <2> QED
    BY <1>3, <2>1 DEF Select
<1>4. ASSUME NEW s \in Searches, Return(s) PROVE StampsPast' /\ BoundedCooldown'
  <2>1. req'[s].pc = "recording" /\ req'[s].stamp = now
    BY <1>4 DEF Return, Request
  <2>2. \A u \in Searches \ {s} : req'[u] = req[u]
    BY <1>4 DEF Return
  <2> QED
    BY <1>4, <2>1, <2>2 DEF Return
<1>5. ASSUME NEW s \in Searches, NEW p \in Providers, NEW ok \in BOOLEAN,
             RecordOutcome(s, p, ok)
      PROVE  StampsPast' /\ BoundedCooldown'
  <2> DEFINE i == req[s].inst
             r == Outcome(mem[i][p], policy[i], ok, req[s].stamp)
  <2>1. i \in Instances /\ req[s].stamp \in Nat
    BY DEF Request
  <2>2. CooldownFrom(r, now)
    BY <2>1, OutcomeCooldown
  <2>3. /\ req'[s].stamp = req[s].stamp
        /\ req'[s].pc = "writing" => req'[s].put.record = r
    BY <1>5 DEF RecordOutcome, Request
  <2>4. \A u \in Searches \ {s} : req'[u] = req[u]
    BY <1>5 DEF RecordOutcome
  <2>5. ASSUME NEW j \in Instances, NEW o \in Providers
        PROVE  mem'[j][o] = mem[j][o] \/ mem'[j][o] = r
    BY <1>5, <2>1 DEF RecordOutcome
  <2>6. now' = now /\ disk' = disk
    BY <1>5 DEF RecordOutcome
  <2> HIDE DEF r
  <2> QED
    BY <2>2, <2>3, <2>4, <2>5, <2>6
<1>6. ASSUME NEW s \in Searches, EndPut(s),
             \A p \in Providers : disk'[p] = disk[p] \/ disk'[p] = req[s].put.record
      PROVE  StampsPast' /\ BoundedCooldown'
  <2>1. req'[s].pc = "recording" /\ req'[s].stamp = req[s].stamp
    BY <1>6 DEF EndPut, Request
  <2>2. \A u \in Searches \ {s} : req'[u] = req[u]
    BY <1>6 DEF EndPut
  <2>3. now' = now /\ mem' = mem /\ req[s].pc = "writing"
    BY <1>6 DEF EndPut
  <2> QED
    BY <1>6, <2>1, <2>2, <2>3
<1>7. ASSUME NEW s \in Searches, PutRow(s) \/ PutFails(s)
      PROVE  StampsPast' /\ BoundedCooldown'
  BY <1>6, <1>7 DEF PutRow, PutFails
<1>8. ASSUME NEW s \in Searches, Answer(s) \/ Cancel(s)
      PROVE  StampsPast' /\ BoundedCooldown'
  <2>1. req'[s].pc = "idle" /\ req'[s].stamp = 0
    BY <1>8 DEF Answer, Cancel, Idle
  <2>2. \A u \in Searches \ {s} : req'[u] = req[u]
    BY <1>8 DEF Answer, Cancel
  <2>3. now' = now /\ mem' = mem
    BY <1>8 DEF Answer, Cancel
  <2>4. \A p \in Providers :
          disk'[p] = disk[p] \/ (req[s].pc = "writing" /\ disk'[p] = req[s].put.record)
    BY <1>8 DEF Answer, Cancel
  <2> QED
    BY <2>1, <2>2, <2>3, <2>4
<1>9. CASE Reset
  <2>1. ASSUME NEW i \in Instances, NEW p \in Providers
        PROVE  mem'[i][p] = mem[i][p] \/ mem'[i][p] = Fresh
    BY <1>9 DEF Reset
  <2>2. now' = now /\ disk' = disk /\ req' = req
    BY <1>9 DEF Reset
  <2> QED
    BY <2>1, <2>2, FreshCooldown
<1>10. CASE ClearRows \/ ClearFails
  BY <1>10, FreshCooldown DEF ClearRows, ClearFails
<1>11. ASSUME NEW q \in Policies, NEW opens \in BOOLEAN, NEW loads \in BOOLEAN,
              Restored(q, opens, loads), req' = req \/ req' = [s \in Searches |-> Idle]
       PROVE  StampsPast' /\ BoundedCooldown'
  <2>1. ASSUME NEW i \in Instances, NEW p \in Providers
        PROVE  mem'[i][p] = mem[i][p] \/ mem'[i][p] = disk[p] \/ mem'[i][p] = Fresh
    BY <1>11 DEF Restored
  <2>2. now' = now /\ disk' = disk
    BY <1>11 DEF Restored
  <2> QED
    BY <1>11, <2>1, <2>2, FreshCooldown DEF Idle
<1>12. ASSUME NEW q \in Policies, NEW opens \in BOOLEAN, NEW loads \in BOOLEAN,
              Reload(q, opens, loads) \/ Restart(q, opens, loads)
       PROVE  StampsPast' /\ BoundedCooldown'
  BY <1>11, <1>12 DEF Reload, Restart
<1> QED
  BY <1>1, <1>2, <1>3, <1>4, <1>5, <1>7, <1>8, <1>9, <1>10, <1>12 DEF Next, SearchStep

\* No record, row or write under way ever blocks a provider beyond one cooldown
\* from now (ProviderCircuit::record, ::restored).
THEOREM CooldownIsBounded == Spec => []BoundedCooldown
<1>1. Init => CooldownInv
  BY FreshIsRecord, IdleIsRequest, FreshCooldown, BoundsAssumption
  DEF Init, CooldownInv, TypeOK, StampsPast, BoundedCooldown, Idle
<1>2. CooldownInv => BoundedCooldown
  BY DEF CooldownInv
<1> QED
  BY <1>1, <1>2, CooldownStep, PTL DEF Spec

----------------------------------------------------------------------------
\* Why the table catches up with the live breaker for a provider p whose writes
\* neither got lost nor overlapped: a writer of p holds exactly what the live
\* breaker holds and is alone, a reset under way has emptied the breaker and
\* will empty the table, and without either the two agree.
Settling(p) ==
  /\ \A s \in Writers(p) :
       /\ req[s].inst = live
       /\ req[s].put.record = mem[live][p]
       /\ Writers(p) = {s}
       /\ resetting = 0
  /\ resetting # 0 => mem[live][p] = Fresh
  /\ Writers(p) = {} /\ resetting = 0 => disk[p] = mem[live][p]

DurableInv ==
  TypeOK /\ (stored[live] => \A p \in Providers \ (lost \cup raced) : Settling(p))

\* A step that touches neither the breaker nor the table, and no writer, keeps
\* every provider settling.
LEMMA SettlingFrame ==
  ASSUME NEW p, Settling(p), UNCHANGED <<live, mem, disk, resetting>>,
         Writers(p)' = Writers(p), \A s \in Writers(p) : req'[s] = req[s]
  PROVE  Settling(p)'
BY DEF Settling

LEMMA DurableStep == DurableInv /\ [Next]_vars => DurableInv'
<1> SUFFICES ASSUME DurableInv, [Next]_vars, stored'[live'],
                    NEW p \in Providers, p \notin lost', p \notin raced'
             PROVE  Settling(p)'
  BY TypeStep DEF DurableInv
<1> USE DEF DurableInv, TypeOK
<1>1. CASE UNCHANGED vars
  BY <1>1 DEF Settling, Writers
<1>2. CASE Tick
  BY <1>2 DEF Tick, Settling, Writers
<1>3. ASSUME NEW s \in Searches, Select(s) \/ Return(s) \/ Answer(s)
      PROVE  Settling(p)'
  <2>1. UNCHANGED <<live, stored, mem, disk, resetting, lost, raced>>
    BY <1>3 DEF Select, Return, Answer
  <2>2. req[s].pc # "writing" /\ req'[s].pc # "writing"
    <3>1. CASE Select(s)
      BY <3>1 DEF Select, Request
    <3>2. CASE Return(s)
      BY <3>2 DEF Return, Request
    <3>3. CASE Answer(s)
      BY <3>3 DEF Answer, Idle
    <3> QED
      BY <1>3, <3>1, <3>2, <3>3
  <2>3. \A u \in Searches \ {s} : req'[u] = req[u]
    BY <1>3 DEF Select, Return, Answer
  <2>4. Writers(p)' = Writers(p) /\ \A u \in Writers(p) : req'[u] = req[u]
    BY <2>2, <2>3 DEF Writers
  <2> QED
    BY <2>1, <2>4, SettlingFrame
<1>4. ASSUME NEW s \in Searches, NEW o \in Providers, NEW ok \in BOOLEAN,
             RecordOutcome(s, o, ok)
      PROVE  Settling(p)'
  <2> DEFINE i == req[s].inst
             r == Outcome(mem[i][o], policy[i], ok, req[s].stamp)
             writes == policy[i].enabled /\ stored[i]
  <2>1. i \in Instances /\ req[s] \in Request
    BY DEF Request
  <2>2. UNCHANGED <<live, stored, disk, resetting, lost>> /\ raced \subseteq raced'
    BY <1>4 DEF RecordOutcome
  <2>3. Settling(p)
    BY <2>2
  <2>4. req[s].pc = "recording"
    BY <1>4 DEF RecordOutcome
  <2>5. \A u \in Searches \ {s} : req'[u] = req[u]
    BY <1>4 DEF RecordOutcome
  <2>6. /\ writes => req'[s].pc = "writing" /\ req'[s].put = [provider |-> o, record |-> r]
        /\ ~writes => req'[s].pc = "recording"
        /\ req'[s].inst = i
    BY <1>4, <2>1 DEF RecordOutcome, Request
  <2>7. CASE p # o
    <3>1. Writers(p)' = Writers(p) /\ \A u \in Writers(p) : req'[u] = req[u]
      BY <2>4, <2>5, <2>6, <2>7 DEF Writers
    <3>2. mem'[live][p] = mem[live][p]
      BY <1>4, <2>1, <2>7 DEF RecordOutcome
    <3> QED
      BY <2>2, <2>3, <3>1, <3>2 DEF Settling
  <2>8. CASE p = o
    <3>1. Writers(p) = {} /\ resetting = 0 /\ i = live
      BY <1>4, <2>8 DEF RecordOutcome
    <3>2. disk[p] = mem[live][p]
      BY <2>3, <3>1 DEF Settling
    <3>3. CASE writes
      <4>1. Writers(p)' = {s}
        BY <2>5, <2>6, <2>8, <3>1, <3>3 DEF Writers
      <4>2. mem'[live][p] = r
        BY <1>4, <2>1, <2>8, <3>1, <3>3 DEF RecordOutcome
      <4> QED
        BY <2>2, <2>6, <3>1, <3>3, <4>1, <4>2 DEF Settling
    <3>4. CASE ~writes
      <4>1. ~policy[i].enabled /\ mem' = mem
        BY <1>4, <2>2, <3>1, <3>4 DEF RecordOutcome
      <4>2. Writers(p)' = {}
        BY <2>4, <2>5, <2>6, <3>1, <3>4 DEF Writers
      <4> QED
        BY <2>2, <3>1, <3>2, <4>1, <4>2 DEF Settling
    <3> QED
      BY <3>3, <3>4
  <2> QED
    BY <2>7, <2>8
<1>5. ASSUME NEW s \in Searches, EndPut(s) \/ Cancel(s),
             UNCHANGED <<live, stored, mem, resetting, raced>>, lost \subseteq lost',
             disk'[p] = disk[p] \/ p = req[s].put.provider,
             p = req[s].put.provider /\ req[s].pc = "writing" => disk'[p] = req[s].put.record,
             req[s].pc # "writing" => disk' = disk
      PROVE  Settling(p)'
  <2>1. Settling(p)
    BY <1>5
  <2>2. req'[s].pc # "writing" /\ \A u \in Searches \ {s} : req'[u] = req[u]
    <3>1. CASE EndPut(s)
      BY <3>1 DEF EndPut, Request
    <3>2. CASE Cancel(s)
      BY <3>2 DEF Cancel, Idle
    <3> QED
      BY <1>5, <3>1, <3>2
  <2>3. CASE s \in Writers(p)
    <3>1. Writers(p)' = {}
      BY <2>1, <2>2, <2>3 DEF Settling, Writers
    <3>2. disk'[p] = mem[live][p] /\ resetting = 0
      BY <1>5, <2>1, <2>3 DEF Settling, Writers
    <3> QED
      BY <1>5, <3>1, <3>2 DEF Settling
  <2>4. CASE s \notin Writers(p)
    <3>1. Writers(p)' = Writers(p) /\ \A u \in Writers(p) : req'[u] = req[u]
      BY <2>2, <2>4 DEF Writers
    <3>2. disk'[p] = disk[p]
      BY <1>5, <2>4 DEF Writers
    <3> QED
      BY <1>5, <2>1, <3>1, <3>2 DEF Settling
  <2> QED
    BY <2>3, <2>4
<1>6. ASSUME NEW s \in Searches, PutRow(s) \/ PutFails(s) \/ Cancel(s) PROVE Settling(p)'
  <2>1. CASE PutRow(s)
    BY <1>5, <2>1 DEF PutRow, EndPut
  <2>2. CASE PutFails(s)
    BY <1>5, <2>2 DEF PutFails, EndPut
  <2>3. CASE Cancel(s)
    BY <1>5, <2>3 DEF Cancel
  <2> QED
    BY <1>6, <2>1, <2>2, <2>3
<1>7. CASE Reset
  <2>1. Writers(p) = {} /\ Writers(p)' = {}
    BY <1>7 DEF Reset, Writers
  <2>2. mem'[live'][p] = Fresh /\ resetting' # 0
    BY <1>7 DEF Reset
  <2> QED
    BY <2>1, <2>2 DEF Settling
<1>8. CASE ClearRows
  <2>1. Settling(p) /\ resetting # 0
    BY <1>8 DEF ClearRows
  <2>2. Writers(p) = {} /\ Writers(p)' = {} /\ mem[live][p] = Fresh
    BY <1>8, <2>1 DEF ClearRows, Settling, Writers
  <2> QED
    BY <1>8, <2>2 DEF ClearRows, Settling
<1>9. CASE ClearFails
  BY <1>9 DEF ClearFails
<1>10. ASSUME NEW q \in Policies, NEW opens \in BOOLEAN, NEW loads \in BOOLEAN,
              Reload(q, opens, loads) \/ Restart(q, opens, loads)
       PROVE  Settling(p)'
  <2>1. live + 1 \in Instances
    BY <1>10, BoundsAssumption DEF Reload, Restart, Restored
  <2>2. loads /\ disk' = disk /\ mem'[live'] = disk
    <3>1. Restored(q, opens, loads)
      BY <1>10 DEF Reload, Restart
    <3>2. disk' = disk /\ live' = live + 1 /\ lost' = IF loads THEN {} ELSE Providers
      BY <3>1 DEF Restored
    <3>3. loads
      BY <3>2
    <3>4. mem' = [mem EXCEPT ![live + 1] = disk]
      BY <3>1, <3>3 DEF Restored
    <3> QED
      BY <2>1, <3>2, <3>3, <3>4
  <2>3. Writers(p)' = {} /\ resetting' = 0
    <3>1. CASE Reload(q, opens, loads)
      BY <3>1 DEF Reload, Writers
    <3>2. CASE Restart(q, opens, loads)
      BY <3>2 DEF Restart, Writers, Idle
    <3> QED
      BY <1>10, <3>1, <3>2
  <2> QED
    BY <2>2, <2>3 DEF Settling
<1> QED
  BY <1>1, <1>2, <1>3, <1>4, <1>6, <1>7, <1>8, <1>9, <1>10 DEF Next, SearchStep

LEMMA DurableHolds == Spec => []DurableInv
<1>1. Init => DurableInv
  BY FreshIsRecord, IdleIsRequest, BoundsAssumption
  DEF Init, DurableInv, TypeOK, Settling, Writers, Idle
<1> QED
  BY <1>1, DurableStep, PTL DEF Spec

LEMMA DurableImplies == DurableInv => DurableWhenSettled
BY DEF DurableInv, DurableWhenSettled, Settling, Unsettled

\* What the live breaker holds about a settled provider is in the table, where
\* the next start finds it (ProviderCircuit::record, ::reset, ::restored).
THEOREM SettledIsDurable == Spec => []DurableWhenSettled
BY DurableHolds, DurableImplies, PTL

----------------------------------------------------------------------------
\* A failure never takes a deadline away.
LEMMA FailureKeepsDeadline ==
  ASSUME NEW r \in Record, NEW q \in Policies, NEW t \in Nat, r.openUntil # NoTime
  PROVE  Outcome(r, q, FALSE, t).openUntil # NoTime
<1> DEFINE n == IF r.failures < MaxCount THEN r.failures + 1 ELSE MaxCount
<1>1. q.openSeconds \in Nat
  BY PoliciesAssumption
<1>2. [failures |-> n, openedAt |-> t, openUntil |-> t + q.openSeconds].openUntil # NoTime
  BY <1>1
<1>3. [r EXCEPT !.failures = n].openUntil = r.openUntil
  BY DEF Record
<1> QED
  BY <1>2, <1>3 DEF Outcome, Failed

LEMMA ClosingStep ==
  ASSUME DurableInv, [Next]_vars, NEW p \in Providers
  PROVE  Closing(p)
<1> DEFINE Armed(i) == policy[i].enabled /\ mem[i][p].openUntil # NoTime
<1> USE DEF DurableInv, TypeOK
<1>1. (Tripped(p) <=> Armed(live)) /\ (Tripped(p)' <=> Armed(live)')
  BY DEF Tripped, State
<1> SUFFICES ASSUME Armed(live), ~Armed(live)'
             PROVE  \/ Answered(p)
                    \/ Reset
                    \/ /\ live' # live
                       /\ ~policy'[live'].enabled \/ p \in lost' \/ Unsettled(p)
  BY <1>1 DEF Closing
<1>2. ASSUME UNCHANGED <<live, policy, mem>> PROVE FALSE
  BY <1>2
<1>3. ASSUME NEW s \in Searches, NEW o \in Providers, NEW ok \in BOOLEAN,
             RecordOutcome(s, o, ok)
      PROVE  Answered(p)
  <2> DEFINE i == req[s].inst
             r == Outcome(mem[i][o], policy[i], ok, req[s].stamp)
  <2>1. i \in Instances /\ req[s] \in Request /\ req[s].stamp \in Nat
    BY DEF Request
  <2>2. UNCHANGED <<live, policy>>
    BY <1>3 DEF RecordOutcome
  <2>3. mem'[live][p] # mem[live][p]
    BY <2>2
  <2>4. i = live /\ p = o /\ mem'[live][p] = r
    BY <1>3, <2>1, <2>3 DEF RecordOutcome
  <2>5. CASE ok
    <3>1. p \in req[s].used /\ req'[s].used = req[s].used \ {p}
      BY <1>3, <2>1, <2>4, <2>5 DEF RecordOutcome, Request
    <3> QED
      BY <2>4, <3>1 DEF Answered
  <2>6. CASE ~ok
    <3>1. ok = FALSE
      BY <2>6
    <3>2. r.openUntil # NoTime
      BY <2>1, <2>4, <3>1, FailureKeepsDeadline
    <3> QED
      BY <2>2, <2>4, <3>2
  <2> QED
    BY <2>5, <2>6
<1>4. ASSUME NEW q \in Policies, NEW opens \in BOOLEAN, NEW loads \in BOOLEAN,
             Restored(q, opens, loads)
      PROVE  /\ live' # live
             /\ ~policy'[live'].enabled \/ p \in lost' \/ Unsettled(p)
  <2>1. live' = live + 1 /\ live' # live /\ live' \in Instances
    BY <1>4, BoundsAssumption DEF Restored
  <2>2. SUFFICES ASSUME ~Unsettled(p), p \notin lost' PROVE ~policy'[live'].enabled
    BY <2>1
  <2>3. mem'[live'][p] = disk[p]
    BY <1>4, <2>1, <2>2 DEF Restored
  <2>4. disk[p] = mem[live][p]
    BY <2>2, DurableImplies DEF DurableWhenSettled
  <2> QED
    BY <2>3, <2>4
<1>5. CASE Tick \/ ClearRows \/ ClearFails \/ UNCHANGED vars
  BY <1>2, <1>5 DEF Tick, ClearRows, ClearFails
<1>6. ASSUME NEW s \in Searches, Select(s) \/ Return(s) \/ Answer(s) \/ Cancel(s)
      PROVE  FALSE
  BY <1>2, <1>6 DEF Select, Return, Answer, Cancel
<1>7. ASSUME NEW s \in Searches, PutRow(s) \/ PutFails(s) PROVE FALSE
  BY <1>2, <1>7 DEF PutRow, PutFails, EndPut
<1> QED
  BY <1>3, <1>4, <1>5, <1>6, <1>7 DEF Next, SearchStep, Reload, Restart

\* A tripped circuit closes only by an answer, by a reset, or in a rebuild that
\* may forget it: a failure never closes it and a settled one survives a restart
\* (ProviderCircuit::record, ::reset, ::restored).
THEOREM CircuitClosesForAReason == Spec => ClosesForAReason
<1>1. DurableInv /\ [Next]_vars => [\A p \in Providers : Closing(p)]_vars
  BY ClosingStep
<1> QED
  BY <1>1, DurableHolds, PTL DEF Spec, ClosesForAReason

----------------------------------------------------------------------------
(* The circuit breaker implements Breaker.                                  *)

\* What a request still has to report about is in one place: it was admitted to
\* it, or has it to record.
PhaseInv ==
  \A s \in Searches :
    /\ req[s].pc = "idle" => req[s].admitted = {}
    /\ req[s].pc \in {"idle", "running"} => req[s].used = {} /\ req[s].failed = {}
    /\ req[s].pc \in {"recording", "writing"} => req[s].admitted = {}

LEMMA PhaseStep == TypeOK /\ PhaseInv /\ [Next]_vars => PhaseInv'
<1> SUFFICES ASSUME TypeOK, PhaseInv, [Next]_vars, NEW s \in Searches
             PROVE  /\ req'[s].pc = "idle" => req'[s].admitted = {}
                    /\ req'[s].pc \in {"idle", "running"} =>
                         req'[s].used = {} /\ req'[s].failed = {}
                    /\ req'[s].pc \in {"recording", "writing"} => req'[s].admitted = {}
  BY DEF PhaseInv
<1> USE DEF TypeOK, PhaseInv
<1>0. req[s] \in Request
  OBVIOUS
<1>1. CASE req'[s] = req[s]
  BY <1>1
<1>2. CASE req'[s] = Idle
  BY <1>2 DEF Idle
<1>3. CASE Select(s)
  BY <1>0, <1>3 DEF Select, Request
<1>4. CASE Return(s)
  BY <1>0, <1>4 DEF Return, Request
<1>5. ASSUME NEW p \in Providers, NEW ok \in BOOLEAN, RecordOutcome(s, p, ok)
      PROVE  req'[s].pc \in {"recording", "writing"} /\ req'[s].admitted = {}
  BY <1>0, <1>5 DEF RecordOutcome, Request
<1>6. CASE EndPut(s)
  BY <1>0, <1>6 DEF EndPut, Request
<1>7. ASSUME NEW u \in Searches, u # s, Select(u) \/ SearchStep(u)
      PROVE  req'[s] = req[s]
  BY <1>7 DEF Select, SearchStep, Return, RecordOutcome, PutRow, PutFails, EndPut, Answer, Cancel
<1>8. CASE SearchStep(s)
  BY <1>2, <1>4, <1>5, <1>6, <1>8 DEF SearchStep, PutRow, PutFails, Answer, Cancel
<1>9. CASE Tick \/ Reset \/ ClearRows \/ ClearFails \/ UNCHANGED vars
  BY <1>1, <1>9 DEF Tick, Reset, ClearRows, ClearFails
<1>10. ASSUME NEW q \in Policies, NEW opens \in BOOLEAN, NEW loads \in BOOLEAN,
              Reload(q, opens, loads) \/ Restart(q, opens, loads)
       PROVE  req'[s] = req[s] \/ req'[s] = Idle
  BY <1>10 DEF Reload, Restart
<1> QED
  BY <1>1, <1>2, <1>3, <1>7, <1>8, <1>9, <1>10 DEF Next

BreakerInv == CooldownInv /\ DurableInv /\ PhaseInv

\* A step that leaves the table's standing and its writers alone keeps what is
\* kept.
LEMMA KeptFrame ==
  ASSUME UNCHANGED <<live, stored, resetting, lost, raced>>,
         \A p \in Providers : Writers(p)' = Writers(p)
  PROVE  Kept' = Kept
BY DEF Kept, Unsettled

\* A step of one request that neither begins nor ends a write.
LEMMA WritersFrame ==
  ASSUME TypeOK, NEW s \in Searches, req[s].pc # "writing", req'[s].pc # "writing",
         \A u \in Searches \ {s} : req'[u] = req[u]
  PROVE  \A p \in Providers : Writers(p)' = Writers(p)
BY DEF Writers

\* What another request has outstanding does not change.
LEMMA OutstandingStep ==
  ASSUME NEW s \in Searches, NEW rest,
         req'[s].admitted \cup req'[s].used \cup req'[s].failed = rest,
         \A u \in Searches \ {s} : req'[u] = req[u]
  PROVE  Outstanding' = [Outstanding EXCEPT ![s] = rest]
BY DEF Outstanding

\* The deadline of a bounded cooldown is one that Breaker knows.
LEMMA CooldownDeadline ==
  ASSUME NEW r \in Record, now \in Nat, CooldownFrom(r, now)
  PROVE  r.openUntil \in B!Deadlines \cup {B!None}
<1>1. CASE r.openUntil = NoTime
  BY <1>1 DEF B!None
<1>2. CASE r.openUntil # NoTime
  <2>1. r.openedAt \in 0 .. now
    BY <1>2 DEF CooldownFrom
  <2>2. PICK q \in Policies : r.openUntil = r.openedAt + q.openSeconds
    BY <1>2 DEF CooldownFrom
  <2> QED
    BY <2>1, <2>2 DEF B!Deadlines
<1> QED
  BY <1>1, <1>2

LEMMA SelectAdmits ==
  ASSUME BreakerInv, NEW s \in Searches, Select(s)
  PROVE  B!Admit(s)
<1> USE DEF BreakerInv, CooldownInv, TypeOK
<1> DEFINE free == {p \in Providers : AllowsCall(State(live, p, now))}
<1>1. req[s] \in Request /\ req[s].pc = "idle"
  BY DEF Select
<1>2. /\ req'[s].pc = "running" /\ req'[s].admitted = free
      /\ req'[s].used = {} /\ req'[s].failed = {}
  BY <1>1 DEF Select, Request, PhaseInv
<1>3. \A u \in Searches \ {s} : req'[u] = req[u]
  BY DEF Select
<1>4. free = {p \in Providers : ~B!Refused(p)}
  BY DEF AllowsCall, State, B!Refused, Blocked, Record
<1>5. UNCHANGED <<now, live, policy, stored, mem, resetting, lost, raced>>
  BY DEF Select
<1> HIDE DEF free
<1>6. Outstanding[s] = {} /\ Outstanding' = [Outstanding EXCEPT ![s] = free]
  <2>1. req'[s].admitted \cup req'[s].used \cup req'[s].failed = free
    BY <1>2
  <2>2. Outstanding[s] = {}
    BY <1>1 DEF Outstanding, PhaseInv
  <2> QED
    BY <1>3, <2>1, <2>2, OutstandingStep
<1>7. Kept' = Kept
  BY <1>1, <1>2, <1>3, <1>5, KeptFrame, WritersFrame
<1>8. Blocked' = Blocked /\ policy'[live'].enabled = policy[live].enabled
  BY <1>5 DEF Blocked
<1> QED
  BY <1>4, <1>5, <1>6, <1>7, <1>8 DEF B!Admit

\* What a request does without an outcome: it returns with part of what it was
\* admitted to, goes on, answers or is dropped.
LEMMA QuietWithdraws ==
  ASSUME BreakerInv, NEW s \in Searches, Return(s) \/ Answer(s)
  PROVE  B!Withdraw(s)
<1> USE DEF BreakerInv, CooldownInv, TypeOK
<1> DEFINE rest == req'[s].admitted \cup req'[s].used \cup req'[s].failed
<1>1. req[s] \in Request
  OBVIOUS
<1>2. /\ req[s].pc # "writing" /\ req'[s].pc # "writing"
      /\ rest \subseteq Outstanding[s]
  <2>1. CASE Return(s)
    <3>0. PICK attempted \in SUBSET req[s].admitted : \E ok \in SUBSET attempted :
            req' = [req EXCEPT ![s] = [@ EXCEPT
              !.pc = "recording", !.admitted = {}, !.probing = {},
              !.used = ok, !.failed = attempted \ ok, !.stamp = now]]
      BY <2>1 DEF Return
    <3>1. PICK ok \in SUBSET attempted :
            req' = [req EXCEPT ![s] = [@ EXCEPT
              !.pc = "recording", !.admitted = {}, !.probing = {},
              !.used = ok, !.failed = attempted \ ok, !.stamp = now]]
      BY <3>0
    <3>2. /\ req'[s].pc = "recording" /\ req'[s].admitted = {}
          /\ req'[s].used = ok /\ req'[s].failed = attempted \ ok
      BY <1>1, <3>1 DEF Request
    <3>3. rest \subseteq req[s].admitted
      BY <3>2
    <3> QED
      BY <2>1, <3>2, <3>3 DEF Outstanding, Return
  <2>2. CASE Answer(s)
    BY <2>2 DEF Answer, Idle
  <2> QED
    BY <2>1, <2>2
<1>3. \A u \in Searches \ {s} : req'[u] = req[u]
  BY DEF Return, Answer
<1>4. UNCHANGED <<now, live, policy, stored, mem, resetting, lost, raced>>
  BY DEF Return, Answer
<1>5. Outstanding' = [Outstanding EXCEPT ![s] = rest]
  BY <1>3, OutstandingStep
<1>6. Kept' = Kept
  BY <1>2, <1>3, <1>4, KeptFrame, WritersFrame
<1>7. Blocked' = Blocked /\ policy'[live'].enabled = policy[live].enabled
  BY <1>4 DEF Blocked
<1> HIDE DEF rest
<1> QED
  BY <1>2, <1>4, <1>5, <1>6, <1>7 DEF B!Withdraw

LEMMA CancelWithdraws ==
  ASSUME BreakerInv, NEW s \in Searches, Cancel(s)
  PROVE  B!Withdraw(s)
<1> USE DEF BreakerInv, CooldownInv, TypeOK
<1>1. req'[s] = Idle /\ \A u \in Searches \ {s} : req'[u] = req[u]
  BY DEF Cancel
<1>2. UNCHANGED <<now, live, policy, stored, mem, resetting, raced>>
  BY DEF Cancel
<1>3. Outstanding' = [Outstanding EXCEPT ![s] = {}]
  <2>1. req'[s].admitted \cup req'[s].used \cup req'[s].failed = {}
    BY <1>1 DEF Idle
  <2> QED
    BY <1>1, <2>1, OutstandingStep
<1>4. ASSUME NEW p \in Providers PROVE Unsettled(p)' <=> Unsettled(p)
  <2>1. \A u \in Searches \ {s} : u \in Writers(p)' <=> u \in Writers(p)
    BY <1>1 DEF Writers
  <2>2. s \notin Writers(p)'
    BY <1>1 DEF Writers, Idle
  <2>3. CASE s \in Writers(p)
    <3>1. p \in lost'
      BY <2>3 DEF Cancel, Writers
    <3> QED
      BY <2>3, <3>1 DEF Unsettled
  <2>4. CASE s \notin Writers(p)
    <3>1. Writers(p)' = Writers(p)
      BY <2>1, <2>2, <2>4 DEF Writers
    <3>2. p \in lost' <=> p \in lost
      BY <2>4 DEF Cancel, Writers
    <3> QED
      BY <1>2, <3>1, <3>2 DEF Unsettled
  <2> QED
    BY <2>3, <2>4
<1>5. Kept' = Kept
  BY <1>4 DEF Kept
<1>6. Blocked' = Blocked /\ policy'[live'].enabled = policy[live].enabled
  BY <1>2 DEF Blocked
<1>7. {} \in SUBSET Outstanding[s]
  OBVIOUS
<1> QED
  BY <1>2, <1>3, <1>5, <1>6, <1>7 DEF B!Withdraw

\* The end of a write keeps what was kept and, if it is the row's last, keeps its
\* provider.
LEMMA EndPutSettles ==
  ASSUME BreakerInv, NEW s \in Searches, PutRow(s) \/ PutFails(s)
  PROVE  B!Settle
<1> USE DEF BreakerInv, CooldownInv, TypeOK
<1>1. EndPut(s) /\ lost' \subseteq lost \cup {req[s].put.provider}
  BY DEF PutRow, PutFails
<1>2. req[s] \in Request /\ req[s].pc = "writing"
  BY <1>1 DEF EndPut
<1>3. /\ req'[s].pc = "recording" /\ req'[s].admitted = req[s].admitted
      /\ req'[s].used = req[s].used /\ req'[s].failed = req[s].failed
  BY <1>1, <1>2 DEF EndPut, Request
<1>4. \A u \in Searches \ {s} : req'[u] = req[u]
  BY <1>1 DEF EndPut
<1>5. UNCHANGED <<now, live, policy, stored, mem, resetting, raced>>
  BY <1>1 DEF EndPut
<1>6. Outstanding' = Outstanding
  BY <1>3, <1>4 DEF Outstanding
<1>7. ASSUME NEW p \in Providers, ~Unsettled(p) PROVE ~Unsettled(p)'
  <2>1. Writers(p) = {} /\ p # req[s].put.provider
    BY <1>2, <1>7 DEF Unsettled, Writers
  <2>2. Writers(p)' = {}
    BY <1>3, <1>4, <2>1 DEF Writers
  <2> QED
    BY <1>1, <1>5, <1>7, <2>1, <2>2 DEF Unsettled
<1>8. Kept \subseteq Kept' /\ Kept' \subseteq Providers
  BY <1>7 DEF Kept
<1>9. Blocked' = Blocked /\ policy'[live'].enabled = policy[live].enabled
  BY <1>5 DEF Blocked
<1> QED
  BY <1>5, <1>6, <1>8, <1>9 DEF B!Settle

\* An outcome changes the deadline of its provider only in the live instance,
\* when the breaker is enabled, and then the provider's row is not settled.
LEMMA RecordReports ==
  ASSUME BreakerInv, NEW s \in Searches, NEW p \in Providers, NEW ok \in BOOLEAN,
         RecordOutcome(s, p, ok)
  PROVE  B!Succeed(s, p) \/ B!Fail(s, p)
<1> USE DEF BreakerInv, CooldownInv, TypeOK
<1> DEFINE i == req[s].inst
           r == Outcome(mem[i][p], policy[i], ok, req[s].stamp)
           writes == policy[i].enabled /\ stored[i]
           t == mem'[live][p].openUntil
<1>1. req[s] \in Request /\ i \in Instances /\ req[s].pc = "recording" /\ req[s].stamp \in Nat
  BY DEF RecordOutcome, Request
<1>2. UNCHANGED <<now, live, policy, stored, resetting, lost>>
  BY DEF RecordOutcome
<1>3. \A u \in Searches \ {s} : req'[u] = req[u]
  BY DEF RecordOutcome
<1>4. /\ req'[s].admitted = req[s].admitted
      /\ req'[s].used = req[s].used \ {p} /\ req'[s].failed = req[s].failed \ {p}
      /\ writes => req'[s].pc = "writing" /\ req'[s].put.provider = p
      /\ ~writes => req'[s].pc = "recording"
  BY <1>1 DEF RecordOutcome, Request
<1>5. /\ p \in Outstanding[s]
      /\ Outstanding' = [Outstanding EXCEPT ![s] = @ \ {p}]
  <2>1. req[s].admitted = {}
    BY <1>1 DEF PhaseInv
  <2>2. p \in req[s].used \cup req[s].failed
    BY DEF RecordOutcome
  <2>3. /\ Outstanding[s] = req[s].used \cup req[s].failed
        /\ req'[s].admitted \cup req'[s].used \cup req'[s].failed = Outstanding[s] \ {p}
    BY <1>4, <2>1 DEF Outstanding
  <2>4. Outstanding' = [Outstanding EXCEPT ![s] = Outstanding[s] \ {p}]
    BY <1>3, <2>3, OutstandingStep
  <2> QED
    BY <2>2, <2>3, <2>4
<1>6. ASSUME NEW o \in Providers, o # p
      PROVE  mem'[live][o] = mem[live][o] /\ (Unsettled(o)' <=> Unsettled(o))
  <2>1. mem'[live][o] = mem[live][o]
    BY <1>1, <1>6 DEF RecordOutcome
  <2>2. Writers(o)' = Writers(o)
    BY <1>1, <1>3, <1>4, <1>6 DEF Writers
  <2>3. o \in raced' <=> o \in raced
    BY <1>6 DEF RecordOutcome
  <2> QED
    BY <1>2, <2>1, <2>2, <2>3 DEF Unsettled
<1>7. Unsettled(p) => Unsettled(p)'
  <2>1. Writers(p) \subseteq Writers(p)'
    BY <1>1, <1>3 DEF Writers
  <2>2. raced \subseteq raced'
    BY DEF RecordOutcome
  <2> QED
    BY <1>2, <2>1, <2>2 DEF Unsettled
<1>8. Kept' \in {Kept, Kept \ {p}}
  BY <1>6, <1>7 DEF Kept
<1>9. ASSUME t # Blocked[p] PROVE policy[live].enabled /\ p \notin Kept' /\ t = r.openUntil
  <2>1. i = live /\ policy[live].enabled /\ mem'[live][p] = r
    BY <1>1, <1>9 DEF RecordOutcome, Blocked
  <2>2. Unsettled(p)'
    <3>1. CASE stored[live]
      <4>1. s \in Writers(p)'
        BY <1>4, <2>1, <3>1 DEF Writers
      <4> QED
        BY <4>1 DEF Unsettled
    <3>2. CASE ~stored[live]
      BY <1>2, <3>2 DEF Unsettled
    <3> QED
      BY <3>1, <3>2
  <2> QED
    BY <2>1, <2>2 DEF Kept
<1>10. t \in {Blocked[p], B!None} \/ t \in {Blocked[p]} \cup B!Deadlines
  <2>1. CASE t = Blocked[p]
    BY <2>1
  <2>2. CASE t # Blocked[p]
    <3>1. r \in Record /\ CooldownFrom(r, now)
      BY <1>1, OutcomeIsRecord, OutcomeCooldown DEF BoundedCooldown, StampsPast
    <3>2. r.openUntil \in B!Deadlines \cup {B!None}
      BY <3>1, CooldownDeadline
    <3> QED
      BY <1>9, <2>2, <3>2
  <2> QED
    BY <2>1, <2>2
<1>11. Blocked' = [Blocked EXCEPT ![p] = t] /\ policy'[live'].enabled = policy[live].enabled
  BY <1>2, <1>6 DEF Blocked
<1> HIDE DEF t
<1>12. B!Report(s, p, t)
  BY <1>2, <1>5, <1>8, <1>9, <1>11 DEF B!Report
<1> QED
  BY <1>10, <1>12 DEF B!Succeed, B!Fail

LEMMA ResetResets ==
  ASSUME BreakerInv, Reset
  PROVE  B!Reset
<1> USE DEF BreakerInv, CooldownInv, TypeOK
<1>1. UNCHANGED <<now, live, policy, stored, req>>
  BY DEF Reset
<1>2. Blocked' = [p \in Providers |-> B!None]
  BY <1>1 DEF Reset, Blocked, Fresh, B!None
<1>3. Kept' = {}
  <2>1. CASE stored[live]
    BY <1>1, <2>1 DEF Reset, Kept, Unsettled
  <2>2. CASE ~stored[live]
    BY <1>1, <2>2 DEF Kept, Unsettled
  <2> QED
    BY <2>1, <2>2
<1>4. Outstanding' = Outstanding
  BY <1>1 DEF Outstanding
<1> QED
  BY <1>1, <1>2, <1>3, <1>4 DEF B!Reset

\* While a reset has the table to clear, nothing is kept.
LEMMA ClearSettles ==
  ASSUME BreakerInv, ClearRows \/ ClearFails
  PROVE  B!Settle
<1>1. Kept = {}
  BY DEF ClearRows, ClearFails, Kept, Unsettled
<1>2. UNCHANGED <<now, live, policy, stored, mem, req>>
  BY DEF ClearRows, ClearFails
<1>3. Kept \subseteq Kept' /\ Kept' \subseteq Providers
  BY <1>1 DEF Kept
<1>4. Blocked' = Blocked /\ Outstanding' = Outstanding
  BY <1>2 DEF Blocked, Outstanding
<1> QED
  BY <1>2, <1>3, <1>4 DEF B!Settle

\* A rebuild that reads the table has the deadlines of the settled providers, as
\* their rows are what the old breaker held, and some bounded ones of the others.
LEMMA RestoredRebuilds ==
  ASSUME BreakerInv, NEW q \in Policies, NEW opens \in BOOLEAN, NEW loads \in BOOLEAN,
         Reload(q, opens, loads) \/ Restart(q, opens, loads)
  PROVE  B!Rebuild
<1> USE DEF BreakerInv, CooldownInv, TypeOK
<1>1. Restored(q, opens, loads)
  BY DEF Reload, Restart
<1>2. live' = live + 1 /\ live + 1 \in Instances
  BY <1>1, BoundsAssumption DEF Restored
<1>3. now' = now /\ policy'[live'].enabled \in BOOLEAN
  BY <1>1, <1>2, PoliciesAssumption DEF Restored
<1>4. Outstanding' \in {Outstanding, [s \in Searches |-> {}]}
  <2>1. CASE Reload(q, opens, loads)
    BY <2>1 DEF Reload, Outstanding
  <2>2. CASE Restart(q, opens, loads)
    BY <2>2 DEF Restart, Outstanding, Idle
  <2> QED
    BY <2>1, <2>2
<1>5. CASE loads
  <2>1. mem'[live'] = disk /\ lost' = {} /\ stored'[live']
    BY <1>1, <1>2, <1>5 DEF Restored
  <2>2. Blocked' = [p \in Providers |-> disk[p].openUntil]
    BY <2>1 DEF Blocked
  <2>3. \A p \in Providers : disk[p].openUntil \in B!Deadlines \cup {B!None}
    BY CooldownDeadline DEF BoundedCooldown
  <2>4. Blocked' \in [Providers -> B!Deadlines \cup {B!None}]
    BY <2>2, <2>3
  <2>5. \A p \in Kept : Blocked'[p] = Blocked[p]
    <3>1. \A p \in Kept : disk[p] = mem[live][p]
      BY DurableImplies DEF DurableWhenSettled, Kept
    <3> QED
      BY <2>2, <3>1 DEF Kept, Blocked
  <2>6. ASSUME NEW p \in Providers, ~Unsettled(p) PROVE ~Unsettled(p)'
    <3>1. resetting = 0 /\ Writers(p) = {}
      BY <2>6 DEF Unsettled
    <3>2. resetting' = 0 /\ Writers(p)' = {} /\ p \notin raced'
      <4>1. CASE Reload(q, opens, loads)
        BY <3>1, <4>1 DEF Reload, Writers
      <4>2. CASE Restart(q, opens, loads)
        BY <4>2 DEF Restart, Writers, Idle
      <4> QED
        BY <4>1, <4>2
    <3> QED
      BY <2>1, <3>2 DEF Unsettled
  <2>7. Kept \subseteq Kept' /\ Kept' \subseteq Providers
    BY <2>6 DEF Kept
  <2> QED
    BY <1>3, <1>4, <2>4, <2>5, <2>7 DEF B!Rebuild
<1>6. CASE ~loads
  <2>1. mem'[live'] = [p \in Providers |-> Fresh] /\ lost' = Providers
    BY <1>1, <1>2, <1>6 DEF Restored
  <2>2. Blocked' = [p \in Providers |-> B!None]
    BY <2>1 DEF Blocked, Fresh, B!None
  <2>3. Kept' = {}
    BY <2>1 DEF Kept, Unsettled
  <2> QED
    BY <1>3, <1>4, <2>2, <2>3 DEF B!Rebuild
<1> QED
  BY <1>5, <1>6

\* Every step of the circuit breaker is a step of Breaker or leaves it alone.
LEMMA BreakerStep == BreakerInv /\ [Next]_vars => [B!BreakerNext]_(B!breakerVars)
<1> SUFFICES ASSUME BreakerInv, [Next]_vars
             PROVE  B!BreakerNext \/ UNCHANGED B!breakerVars
  OBVIOUS
<1>1. CASE UNCHANGED vars
  <2>1. UNCHANGED <<now, live, policy, stored, mem, req, resetting, lost, raced>>
    BY <1>1
  <2>2. Blocked' = Blocked /\ Outstanding' = Outstanding /\ Kept' = Kept
    BY <2>1 DEF Blocked, Outstanding, Kept, Unsettled, Writers
  <2> QED
    BY <2>1, <2>2 DEF B!breakerVars
<1>2. CASE Tick
  <2>1. UNCHANGED <<live, policy, stored, mem, req, resetting, lost, raced>> /\ now' = now + 1
    BY <1>2 DEF Tick
  <2>2. Blocked' = Blocked /\ Outstanding' = Outstanding /\ Kept' = Kept
    BY <2>1 DEF Blocked, Outstanding, Kept, Unsettled, Writers
  <2>3. B!Advance
    BY <2>1, <2>2 DEF B!Advance
  <2> QED
    BY <2>3 DEF B!BreakerNext
<1>3. ASSUME NEW s \in Searches, Select(s) \/ SearchStep(s) PROVE B!BreakerNext
  <2>1. ASSUME NEW p \in Providers, NEW ok \in BOOLEAN, RecordOutcome(s, p, ok)
        PROVE  B!BreakerNext
    BY <2>1, RecordReports DEF B!BreakerNext
  <2>2. CASE Select(s)
    BY <2>2, SelectAdmits DEF B!BreakerNext
  <2>3. CASE Return(s) \/ Answer(s)
    BY <2>3, QuietWithdraws DEF B!BreakerNext
  <2>4. CASE Cancel(s)
    BY <2>4, CancelWithdraws DEF B!BreakerNext
  <2>5. CASE PutRow(s) \/ PutFails(s)
    BY <2>5, EndPutSettles DEF B!BreakerNext
  <2> QED
    BY <1>3, <2>1, <2>2, <2>3, <2>4, <2>5 DEF SearchStep
<1>4. CASE Reset
  BY <1>4, ResetResets DEF B!BreakerNext
<1>5. CASE ClearRows \/ ClearFails
  BY <1>5, ClearSettles DEF B!BreakerNext
<1>6. ASSUME NEW q \in Policies, NEW opens \in BOOLEAN, NEW loads \in BOOLEAN,
             Reload(q, opens, loads) \/ Restart(q, opens, loads)
      PROVE  B!BreakerNext
  BY <1>6, RestoredRebuilds DEF B!BreakerNext
<1> QED
  BY <1>1, <1>2, <1>3, <1>4, <1>5, <1>6 DEF Next

LEMMA BreakerBegins == Init => BreakerInv /\ B!BreakerInit
<1> SUFFICES ASSUME Init PROVE BreakerInv /\ B!BreakerInit
  OBVIOUS
<1>1. CooldownInv
  BY FreshIsRecord, IdleIsRequest, FreshCooldown, BoundsAssumption
  DEF Init, CooldownInv, TypeOK, StampsPast, BoundedCooldown, Idle
<1>2. DurableInv
  BY FreshIsRecord, IdleIsRequest, BoundsAssumption
  DEF Init, DurableInv, TypeOK, Settling, Writers, Idle
<1>3. PhaseInv
  BY DEF Init, PhaseInv, Idle
<1>4. live \in Instances /\ policy[live].enabled \in BOOLEAN
  BY PoliciesAssumption, BoundsAssumption DEF Init
<1>5. Blocked = [p \in Providers |-> B!None]
  BY <1>4 DEF Init, Blocked, Fresh, B!None
<1>6. Kept = Providers
  BY <1>4 DEF Init, Kept, Unsettled, Writers, Idle
<1>7. Outstanding = [s \in Searches |-> {}]
  BY DEF Init, Outstanding, Idle
<1>8. now = 0
  BY DEF Init
<1> QED
  BY <1>1, <1>2, <1>3, <1>4, <1>5, <1>6, <1>7, <1>8 DEF BreakerInv, B!BreakerInit

\* For any providers, requests, policies and bounds the breaker implements
\* Breaker: exact admission, deadlines moved only by outcomes and resets and never
\* beyond a cooldown from now, and settled deadlines that come through every
\* rebuild that reads the table (select_providers, ProviderCircuit::record, ::reset, ::restored).
THEOREM CircuitImplementsBreaker == Spec => ImplementsBreaker
<1>1. BreakerInv /\ [Next]_vars => BreakerInv'
  BY CooldownStep, DurableStep, PhaseStep DEF BreakerInv, CooldownInv
<1> QED
  BY <1>1, BreakerBegins, BreakerStep, PTL DEF Spec, ImplementsBreaker, B!BreakerSpec
============================================================================
