------------------------------ MODULE Circuit ------------------------------
(***************************************************************************)
(* The provider circuit breaker (crates/amatl-core/src/circuit.rs) as the  *)
(* service drives it: concurrent searches read it when they select their   *)
(* providers and feed their outcomes back one provider at a time; every    *)
(* record updates the in-memory map under a lock and writes the row to     *)
(* SQLite only after the lock is released.  Operators reset it, a reload   *)
(* builds a second breaker from the same table while searches of the first *)
(* are still running, and a crash loses everything but the table.          *)
(*                                                                         *)
(* An absent map entry or table row behaves exactly like the default       *)
(* record, so both are total functions here and Fresh is the default.      *)
(***************************************************************************)
EXTENDS Integers, FiniteSets

CONSTANTS
  Providers,     \* provider names
  Searches,      \* concurrent requests running AmatlService::search
  Policies,      \* circuit policies the operator may configure
  MaxCount,      \* u32::MAX, where consecutive_failures saturates
  MaxInstances,  \* bound: services built by a start, a restart or a reload
  MaxTime        \* bound: the clock stops here

\* CircuitPolicy::validate: a threshold and a cooldown of zero are rejected.
ASSUME PoliciesAssumption ==
  /\ Policies # {}
  /\ Policies \subseteq
       [enabled : BOOLEAN, failureThreshold : Nat \ {0}, openSeconds : Nat \ {0}]
ASSUME BoundsAssumption ==
  /\ MaxCount \in Nat \ {0}
  /\ MaxInstances \in Nat \ {0}
  /\ MaxTime \in Nat

VARIABLES
  now,       \* unix seconds
  live,      \* the breaker instance handed to new requests
  policy,    \* policy[i]: the policy instance i was built with
  stored,    \* stored[i]: instance i opened the SQLite storage
  mem,       \* mem[i][p]: CircuitRecord of p in instance i
  disk,      \* disk[p]: the provider_circuit row of p
  req,       \* req[s]: the request s, see Request
  resetting, \* the instance whose reset still has to clear the table, or 0
  lost,      \* auxiliary: providers some write or clear of which was lost
  raced      \* auxiliary: providers with overlapping table writers

memVars == <<live, policy, stored, mem>>
auxVars == <<lost, raced>>
vars    == <<now, memVars, disk, req, resetting, auxVars>>

Instances == 1 .. MaxInstances
NoTime    == -1
Fresh     == [failures |-> 0, openedAt |-> NoTime, openUntil |-> NoTime]

Record == [failures : 0 .. MaxCount, openedAt : Nat \cup {NoTime},
           openUntil : Nat \cup {NoTime}]
Row    == [provider : Providers, record : Record]
NoPut  == [provider |-> "none", record |-> Fresh]

\* A request: where it is, the instance it took its snapshot of, the providers
\* the selection admitted and those of them that were half open, the providers
\* used and failed it has not recorded yet, the one timestamp of
\* record_circuit_outcomes, and the row it is writing.
Request ==
  [pc : {"idle", "running", "recording", "writing"}, inst : Instances,
   admitted : SUBSET Providers, probing : SUBSET Providers,
   used : SUBSET Providers, failed : SUBSET Providers,
   stamp : Nat, put : Row \cup {NoPut}]
Idle ==
  [pc |-> "idle", inst |-> 1, admitted |-> {}, probing |-> {},
   used |-> {}, failed |-> {}, stamp |-> 0, put |-> NoPut]

----------------------------------------------------------------------------
\* ProviderCircuit::state at second t.
State(i, p, t) ==
  IF ~policy[i].enabled \/ mem[i][p].openUntil = NoTime THEN "closed"
  ELSE IF t < mem[i][p].openUntil THEN "open" ELSE "half_open"

\* Faulty variant: an open circuit is called as well.
AllowsAny(state) == state \in {"closed", "open", "half_open"}

\* CircuitState::allows_call.
AllowsCall(state) == state \in {"closed", "half_open"}

\* Faulty variant: the failure counter does not saturate.
FailedUnsaturated(r, q, t) ==
  LET n == r.failures + 1
  IN  IF n >= q.failureThreshold
      THEN [failures |-> n, openedAt |-> t, openUntil |-> t + q.openSeconds]
      ELSE [r EXCEPT !.failures = n]

\* Faulty variant: a failure of an open circuit extends its deadline.
FailedExtends(r, q, t) ==
  LET n == IF r.failures < MaxCount THEN r.failures + 1 ELSE MaxCount
      from == IF r.openUntil > t THEN r.openUntil ELSE t
  IN  IF n >= q.failureThreshold
      THEN [failures |-> n, openedAt |-> t, openUntil |-> from + q.openSeconds]
      ELSE [r EXCEPT !.failures = n]

\* The record after a failure at second t under policy q.
Failed(r, q, t) ==
  LET n == IF r.failures < MaxCount THEN r.failures + 1 ELSE MaxCount
  IN  IF n >= q.failureThreshold
      THEN [failures |-> n, openedAt |-> t, openUntil |-> t + q.openSeconds]
      ELSE [r EXCEPT !.failures = n]

\* The record after an outcome: a success forgets everything.
Outcome(r, q, ok, t) == IF ok THEN Fresh ELSE Failed(r, q, t)

\* Requests between the locked update of p and the end of its table write.
Writers(p) == {s \in Searches : req[s].pc = "writing" /\ req[s].put.provider = p}
----------------------------------------------------------------------------
Init ==
  /\ now = 0
  /\ live = 1
  /\ policy \in {[i \in Instances |-> q] : q \in Policies}
  /\ stored = [i \in Instances |-> TRUE]
  /\ mem = [i \in Instances |-> [p \in Providers |-> Fresh]]
  /\ disk = [p \in Providers |-> Fresh]
  /\ req = [s \in Searches |-> Idle]
  /\ resetting = 0
  /\ lost = {}
  /\ raced = {}

Tick ==
  /\ now < MaxTime
  /\ now' = now + 1
  /\ UNCHANGED <<memVars, disk, req, resetting, auxVars>>

\* select_providers: a request snapshots the service and asks the breaker about
\* every enabled provider.
Select(s) ==
  /\ req[s].pc = "idle"
  /\ req' = [req EXCEPT ![s] = [@ EXCEPT
       !.pc = "running",
       !.inst = live,
       !.admitted = {p \in Providers : AllowsCall(State(live, p, now))},
       !.probing = {p \in Providers : State(live, p, now) = "half_open"}]]
  /\ UNCHANGED <<now, memVars, disk, resetting, auxVars>>

\* The search returns.  Progressive search attempts any part of what was
\* admitted; an attempted provider is used or failed (Search.tla), and
\* record_circuit_outcomes takes one timestamp for all of them.
Return(s) ==
  /\ req[s].pc = "running"
  /\ \E attempted \in SUBSET req[s].admitted : \E ok \in SUBSET attempted :
       req' = [req EXCEPT ![s] = [@ EXCEPT
         !.pc = "recording", !.admitted = {}, !.probing = {},
         !.used = ok, !.failed = attempted \ ok, !.stamp = now]]
  /\ UNCHANGED <<now, memVars, disk, resetting, auxVars>>

\* ProviderCircuit::record, up to the release of the lock.  The successes of a
\* response are recorded before its failures.  A disabled breaker records
\* nothing, and one without storage has nothing to write.
RecordOutcome(s, p, ok) ==
  LET i == req[s].inst
      r == Outcome(mem[i][p], policy[i], ok, req[s].stamp)
      writes == policy[i].enabled /\ stored[i]
  IN
  /\ req[s].pc = "recording"
  /\ IF ok THEN p \in req[s].used ELSE req[s].used = {} /\ p \in req[s].failed
  /\ req' = [req EXCEPT ![s] = [@ EXCEPT
       !.used = req[s].used \ {p}, !.failed = req[s].failed \ {p},
       !.pc = IF writes THEN "writing" ELSE "recording",
       !.put = IF writes THEN [provider |-> p, record |-> r] ELSE NoPut]]
  /\ mem' = IF policy[i].enabled THEN [mem EXCEPT ![i] = [@ EXCEPT ![p] = r]] ELSE mem
  /\ raced' = IF Writers(p) # {} \/ resetting # 0 \/ i # live
              THEN raced \cup {p} ELSE raced
  /\ UNCHANGED <<now, live, policy, stored, disk, resetting, lost>>

\* The write of a row ends and the request goes on to its next outcome.
EndPut(s) ==
  /\ req[s].pc = "writing"
  /\ req' = [req EXCEPT ![s] = [@ EXCEPT !.pc = "recording", !.put = NoPut]]
  /\ UNCHANGED <<now, memVars, resetting, raced>>

\* Faulty variant: only rows of failing providers are written.
PutRowOfFailure(s) ==
  /\ EndPut(s)
  /\ disk' = IF req[s].put.record.failures = 0 THEN disk
             ELSE [disk EXCEPT ![req[s].put.provider] = req[s].put.record]
  /\ UNCHANGED lost

\* SqliteStorage::circuit_put: an unconditional upsert of the row ...
PutRow(s) ==
  /\ EndPut(s)
  /\ disk' = [disk EXCEPT ![req[s].put.provider] = req[s].put.record]
  /\ UNCHANGED lost

\* ... whose failure record() ignores.
PutFails(s) ==
  /\ EndPut(s)
  /\ lost' = lost \cup {req[s].put.provider}
  /\ UNCHANGED disk

\* Every outcome is recorded: the request answers.
Answer(s) ==
  /\ req[s].pc = "recording"
  /\ req[s].used = {} /\ req[s].failed = {}
  /\ req' = [req EXCEPT ![s] = Idle]
  /\ UNCHANGED <<now, memVars, disk, resetting, auxVars>>

\* The HTTP request timeout or a disconnect drops the request's future at an
\* await: the outcomes it has not recorded are lost, and a write under way may
\* still be done by SQLite's thread or not.
Cancel(s) ==
  /\ req[s].pc # "idle"
  /\ req' = [req EXCEPT ![s] = Idle]
  /\ IF req[s].pc = "writing"
     THEN /\ lost' = lost \cup {req[s].put.provider}
          /\ disk' \in {disk, [disk EXCEPT ![req[s].put.provider] = req[s].put.record]}
     ELSE UNCHANGED <<lost, disk>>
  /\ UNCHANGED <<now, memVars, resetting, raced>>

\* ProviderCircuit::reset, up to its storage call.
Reset ==
  /\ resetting = 0
  /\ mem' = [mem EXCEPT ![live] = [p \in Providers |-> Fresh]]
  /\ resetting' = IF stored[live] THEN live ELSE 0
  /\ raced' = raced \cup {p \in Providers : Writers(p) # {}}
  /\ UNCHANGED <<now, live, policy, stored, disk, req, lost>>

\* SqliteStorage::circuit_clear.
ClearRows ==
  /\ resetting # 0
  /\ disk' = [p \in Providers |-> Fresh]
  /\ resetting' = 0
  /\ UNCHANGED <<now, memVars, req, auxVars>>

\* The clear fails, or the reset request is dropped while it waits, and then
\* the table may be cleared or not.
ClearFails ==
  /\ resetting # 0
  /\ disk' \in {disk, [p \in Providers |-> Fresh]}
  /\ resetting' = 0
  /\ lost' = Providers
  /\ UNCHANGED <<now, memVars, req, raced>>

\* Faulty variant: the cooldown deadlines of the table are not restored.
RestoredCountsOnly(q, opens, loads) ==
  /\ live < MaxInstances
  /\ loads => opens
  /\ live' = live + 1
  /\ policy' = [policy EXCEPT ![live + 1] = q]
  /\ stored' = [stored EXCEPT ![live + 1] = opens]
  /\ mem' = [mem EXCEPT ![live + 1] = [p \in Providers |->
       IF loads THEN [Fresh EXCEPT !.failures = disk[p].failures] ELSE Fresh]]
  /\ lost' = IF loads THEN {} ELSE Providers
  /\ UNCHANGED <<now, disk>>

\* A service built with policy q: with_registry opens the storage or degrades
\* without it, and ProviderCircuit::restored loads the table or, if the load
\* fails, starts closed.
Restored(q, opens, loads) ==
  /\ live < MaxInstances
  /\ loads => opens
  /\ live' = live + 1
  /\ policy' = [policy EXCEPT ![live + 1] = q]
  /\ stored' = [stored EXCEPT ![live + 1] = opens]
  /\ mem' = [mem EXCEPT ![live + 1] = IF loads THEN disk ELSE [p \in Providers |-> Fresh]]
  /\ lost' = IF loads THEN {} ELSE Providers
  /\ UNCHANGED <<now, disk>>

\* AmatlService::reloaded: the requests of the old service finish against it.
Reload(q, opens, loads) ==
  /\ Restored(q, opens, loads)
  /\ raced' = IF resetting # 0 THEN Providers ELSE {p \in Providers : Writers(p) # {}}
  /\ UNCHANGED <<req, resetting>>

\* The process dies at any point and is started again.
Restart(q, opens, loads) ==
  /\ Restored(q, opens, loads)
  /\ req' = [s \in Searches |-> Idle]
  /\ resetting' = 0
  /\ raced' = {}

SearchStep(s) ==
  \/ Return(s)
  \/ \E p \in Providers, ok \in BOOLEAN : RecordOutcome(s, p, ok)
  \/ PutRow(s)
  \/ PutFails(s)
  \/ Answer(s)
  \/ Cancel(s)

Next ==
  \/ Tick
  \/ \E s \in Searches : Select(s) \/ SearchStep(s)
  \/ Reset \/ ClearRows \/ ClearFails
  \/ \E q \in Policies, opens, loads \in BOOLEAN :
       Reload(q, opens, loads) \/ Restart(q, opens, loads)

Spec == Init /\ [][Next]_vars
----------------------------------------------------------------------------
\* The types of the breaker, its table and the requests.  A request that is
\* writing has the row of a provider in hand.
TypeOK ==
  /\ now \in Nat
  /\ live \in Instances
  /\ policy \in [Instances -> Policies]
  /\ stored \in [Instances -> BOOLEAN]
  /\ mem \in [Instances -> [Providers -> Record]]
  /\ disk \in [Providers -> Record]
  /\ req \in [Searches -> Request]
  /\ \A s \in Searches : req[s].pc = "writing" => req[s].put \in Row
  /\ resetting \in Instances \cup {0}
  /\ lost \in SUBSET Providers
  /\ raced \in SUBSET Providers

\* A cooldown a record holds started in the past and is as long as some policy
\* allows.
CooldownFrom(r, t) ==
  r.openUntil # NoTime =>
    /\ r.openedAt \in 0 .. t
    /\ \E q \in Policies : r.openUntil = r.openedAt + q.openSeconds

\* However stale the timestamp of a record, the row a restart loads, or the row
\* a request still has to write, a provider is never blocked for longer than
\* one cooldown counted from now: record() computes open_until from a timestamp
\* taken before its writes, and restored() trusts whatever the table holds.
BoundedCooldown ==
  /\ \A i \in Instances, p \in Providers : CooldownFrom(mem[i][p], now)
  /\ \A p \in Providers : CooldownFrom(disk[p], now)
  /\ \A s \in Searches : req[s].pc = "writing" => CooldownFrom(req[s].put.record, now)

\* The table may differ from the live breaker about p: there is no table, a
\* write of p or a clear is under way, one was lost, or two overlapped.
Unsettled(p) ==
  \/ ~stored[live]
  \/ resetting # 0
  \/ Writers(p) # {}
  \/ p \in lost \cup raced

\* "State survives restarts": the table holds what the live breaker holds, for
\* every provider that is settled.  record() and reset() write the table after
\* they release the lock, so every exception of Unsettled is needed.
DurableWhenSettled == \A p \in Providers : ~Unsettled(p) => disk[p] = mem[live][p]

\* A circuit that is not closed closes only because the provider answered a
\* request of the live service, an operator reset it, or the service was rebuilt
\* in a way that may forget it: with the breaker disabled, without the table, or
\* while the provider was unsettled.  In particular a restart inside a cooldown
\* keeps it, and no failure, however late it is recorded, closes a circuit.
Tripped(p) == State(live, p, now) # "closed"
Answered(p) == \E s \in Searches : req[s].inst = live /\ p \in req[s].used \ req'[s].used
Closing(p) ==
  Tripped(p) /\ ~Tripped(p)' =>
    \/ Answered(p)
    \/ Reset
    \/ /\ live' # live
       /\ ~policy'[live'].enabled \/ p \in lost' \/ Unsettled(p)
ClosesForAReason == [][\A p \in Providers : Closing(p)]_vars

(***************************************************************************)
(* Two promises of the sources that the code does not keep.                *)
(***************************************************************************)
\* "half_open for the single probe after a cooldown" (service.rs): at most one
\* running request was admitted to a half-open provider.
SingleProbe ==
  \A p \in Providers : Cardinality({s \in Searches : p \in req[s].probing}) <= 1

\* "Calls are refused until the cooldown expires" (circuit.rs): without a
\* success, a reset or a rebuild, an open circuit stays open until its deadline.
RefusedUntilExpiry ==
  [][\A p \in Providers :
       State(live, p, now) = "open" /\ (State(live, p, now) # "open")' =>
         \/ now' >= mem[live][p].openUntil
         \/ Answered(p)
         \/ Reset
         \/ live' # live]_vars
============================================================================
