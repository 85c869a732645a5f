---------------------------- MODULE ReloadProofs ----------------------------
(***************************************************************************)
(* Theorems about configuration changes, for any number of admin requests, *)
(* unlocked reloads, clients and tokens.                                   *)
(***************************************************************************)
EXTENDS Reload, TLAPS

USE DEF running, aux, vars, Tasks

Stages == {"idle", "truncated", "written", "building", "swapping", "securing"}

\* What an admin handler's text may hold: the file's entries, one of them (c)
\* replaced by the running one, a fresh one or none; and what its answer kills.
Edits(c, text, kills) ==
  /\ minted' \in Tokens /\ minted' \in {minted, minted + 1}
  /\ \A d \in Clients :
       \/ text.clients[d].token \in
            {file.clients[d].token, service.clients[d].token, 0}
       \/ d = c /\ minted' = minted + 1 /\ text.clients[d].token = minted + 1
  /\ \/ kills = {}
     \/ /\ c \in Clients /\ kills = {service.clients[c].token}
        /\ text.clients[c].token \in {0, minted + 1}
        /\ \A d \in Clients \ {c} : text.clients[d] = file.clients[d]

Edited(a) ==
  \E c : \E text \in Config : \E kills \in SUBSET Tokens :
    Submit(a, text, kills) /\ Edits(c, text, kills)

\* The two ends of Load; the second is also what Pend does.
Loaded(t) ==
  /\ task[t].pc = IF t \in Admins THEN "written" ELSE "idle"
  /\ task' = [task EXCEPT ![t] = [pc |-> "building", config |-> file,
                                  kills |-> task[t].kills]]
  /\ outdated' = outdated \ {t}
  /\ UNCHANGED <<envToken, file, running, lock, minted, revoked, staleSwap, pending>>

Refused(t) ==
  /\ task[t].pc = IF t \in Admins THEN "written" ELSE "idle"
  /\ task' = [task EXCEPT ![t] = Idle]
  /\ Release(t)
  /\ outdated' = outdated \ {t}
  /\ UNCHANGED <<envToken, file, running, minted, revoked, staleSwap, pending>>

LEMMA DefaultTypes ==
  /\ NoEntry \in Entry /\ Default \in Config
  /\ Idle \in Task /\ Idle.pc = "idle" /\ Idle.kills = {} /\ Idle.config = Default
  /\ \A c \in Clients : Default.clients[c].token = 0
  BY ReloadAssumption DEF NoEntry, Entry, Default, Config, Idle, Task, Tokens

\* Replacing an entry gives a configuration.
LEMMA UpsertType ==
  ASSUME file \in Config, NEW c \in Clients, NEW e \in Entry
  PROVE  /\ Upsert(c, e) \in Config
         /\ Upsert(c, e).clients[c] = e
         /\ \A d \in Clients \ {c} : Upsert(c, e).clients[d] = file.clients[d]
<1>1. file.clients \in [Clients -> Entry]
  BY DEF Config
<1>2. Upsert(c, e) = [file EXCEPT !.clients = [file.clients EXCEPT ![c] = e]]
  BY DEF Upsert
<1> QED
  BY <1>1, <1>2 DEF Config

\* A running entry that is there has a credential and a capability.
LEMMA EntryParts ==
  ASSUME NEW e \in Entry, e # NoEntry
  PROVE  e.token \in Tokens /\ e.scope \in Scopes /\ e.token # 0
  BY ReloadAssumption DEF Entry, Tokens

\* A fresh or a carried over credential makes an entry.
LEMMA EntryOf ==
  ASSUME NEW k \in Tokens, NEW s \in Scopes
  PROVE  /\ [token |-> k, scope |-> s] \in Entry
         /\ [token |-> k, scope |-> s].token = k
  BY DEF Entry

LEMMA Minting ==
  ASSUME minted \in Tokens, minted < MaxTokens
  PROVE  minted + 1 \in Tokens
  BY ReloadAssumption DEF Tokens

\* Every admin handler edits at most one entry.
LEMMA ChangeEdits ==
  ASSUME TypeOK, NEW a \in Admins, Change(a)
  PROVE  Edited(a)
<1>0. /\ file \in Config /\ service.clients \in [Clients -> Entry] /\ minted \in Tokens
      /\ file.clients \in [Clients -> Entry] /\ minted \in Nat
  BY ReloadAssumption DEF TypeOK, Config, Tokens
<1>1. ASSUME NEW b \in BOOLEAN, Toggle(a, b) PROVE Edited(a)
  <2>1. [file EXCEPT !.enabled = b] \in Config
    BY <1>0 DEF Config
  <2>2. [file EXCEPT !.enabled = b].clients = file.clients
    BY <1>0 DEF Config
  <2>3. Edits(0, [file EXCEPT !.enabled = b], {})
    BY <1>0, <1>1, <2>2 DEF Edits, Toggle
  <2> QED
    BY <1>1, <2>1, <2>3 DEF Edited, Toggle
<1>2. ASSUME NEW c \in Clients, NEW s \in Scopes, CreateClient(a, c, s) PROVE Edited(a)
  <2> DEFINE e == [token |-> minted + 1, scope |-> s]
  <2>1. minted + 1 \in Tokens
    BY <1>0, <1>2, Minting DEF CreateClient
  <2>2. e \in Entry /\ e.token = minted + 1
    BY <2>1, EntryOf
  <2> HIDE DEF e
  <2>3. Upsert(c, e) \in Config /\ Edits(c, Upsert(c, e), {})
    BY <1>0, <1>2, <2>1, <2>2, UpsertType DEF Edits, CreateClient
  <2>4. Submit(a, Upsert(c, e), {})
    BY <1>2 DEF CreateClient, e
  <2> QED
    BY <2>3, <2>4 DEF Edited
<1>3. ASSUME NEW c \in Clients, NEW s \in Scopes, UpdateClient(a, c, s) PROVE Edited(a)
  <2> DEFINE e == [token |-> service.clients[c].token, scope |-> s]
  <2>1. service.clients[c].token \in Tokens
    BY <1>0, <1>3, EntryParts DEF UpdateClient
  <2>2. e \in Entry /\ e.token = service.clients[c].token
    BY <2>1, EntryOf
  <2> HIDE DEF e
  <2>3. Upsert(c, e) \in Config /\ Edits(c, Upsert(c, e), {})
    BY <1>0, <1>3, <2>2, UpsertType DEF Edits, UpdateClient
  <2>4. Submit(a, Upsert(c, e), {})
    BY <1>3 DEF UpdateClient, e
  <2> QED
    BY <2>3, <2>4 DEF Edited
<1>4. ASSUME NEW c \in Clients, RotateClient(a, c) PROVE Edited(a)
  <2> DEFINE e == [token |-> minted + 1, scope |-> service.clients[c].scope]
             k == {service.clients[c].token}
  <2>1. minted + 1 \in Tokens
    BY <1>0, <1>4, Minting DEF RotateClient
  <2>2. service.clients[c].scope \in Scopes /\ k \in SUBSET Tokens
    BY <1>0, <1>4, EntryParts DEF RotateClient
  <2>3. e \in Entry /\ e.token = minted + 1
    BY <2>1, <2>2, EntryOf
  <2>4. Submit(a, Upsert(c, e), k)
    BY <1>4 DEF RotateClient, e
  <2>5. k = {service.clients[c].token}
    OBVIOUS
  <2> HIDE DEF e, k
  <2>6. Upsert(c, e) \in Config /\ Edits(c, Upsert(c, e), k)
    BY <1>0, <1>4, <2>1, <2>3, <2>5, UpsertType DEF Edits, RotateClient
  <2> QED
    BY <2>2, <2>4, <2>6 DEF Edited
<1>5. ASSUME NEW c \in Clients, DeleteClient(a, c) PROVE Edited(a)
  <2> DEFINE k == {service.clients[c].token}
  <2>1. k \in SUBSET Tokens
    BY <1>0, <1>5, EntryParts DEF DeleteClient
  <2>2. Submit(a, Upsert(c, NoEntry), k)
    BY <1>5 DEF DeleteClient
  <2>3. k = {service.clients[c].token}
    OBVIOUS
  <2> HIDE DEF k
  <2>4. NoEntry.token = 0
    BY DEF NoEntry
  <2>5. Upsert(c, NoEntry) \in Config /\ Edits(c, Upsert(c, NoEntry), k)
    BY <1>0, <1>5, <2>3, <2>4, UpsertType, DefaultTypes DEF Edits, DeleteClient
  <2> QED
    BY <2>1, <2>2, <2>5 DEF Edited
<1> QED
  BY <1>1, <1>2, <1>3, <1>4, <1>5 DEF Change

\* The steps, for the proofs below.
Steps(t) ==
  \/ t \in Admins /\ (Edited(t) \/ WriteText(t) \/ WriteFails(t))
  \/ Loaded(t) \/ Refused(t) \/ Build(t) \/ Drop(t) \/ SwapService(t) \/ SwapSecurity(t)

LEMMA NextSteps ==
  ASSUME TypeOK, Next
  PROVE  (\E t \in Tasks : Steps(t)) \/ Restart
<1>1. ASSUME NEW a \in Admins, Change(a) PROVE Steps(a)
  BY <1>1, ChangeEdits DEF Steps
<1>2. ASSUME NEW t \in Tasks, Load(t) PROVE Loaded(t) \/ Refused(t)
  BY <1>2 DEF Load, Loaded, Refused
<1>3. ASSUME NEW t \in Tasks, Proceed(t) PROVE Steps(t)
  <2>1. t \in Admins /\ Pend(t) => Refused(t)
    BY DEF Pend, Refused
  <2> QED
    BY <1>2, <1>3, <2>1 DEF Proceed, Steps
<1> QED
  BY <1>1, <1>2, <1>3 DEF Next, Steps

LEMMA InitType == ASSUME Init PROVE TypeOK
<1>1. PICK b \in BOOLEAN, c \in Clients, s \in Scopes :
        file = [enabled |-> b,
                clients |-> [d \in Clients |->
                               IF d = c THEN [token |-> 1, scope |-> s] ELSE NoEntry]]
  BY DEF Init
<1>2. 1 \in Tokens
  BY ReloadAssumption DEF Tokens
<1>3. [token |-> 1, scope |-> s] \in Entry
  BY <1>2, EntryOf
<1>4. file.clients \in [Clients -> Entry] /\ file \in Config
  BY <1>1, <1>3, DefaultTypes DEF Config
<1>5. task \in [Tasks -> Task]
  BY DefaultTypes DEF Init
<1> QED
  BY <1>2, <1>4, <1>5 DEF Init, TypeOK

LEMMA NextType == ASSUME TypeOK, [Next]_vars PROVE TypeOK'
<1> USE DEF TypeOK
<1>0. /\ task \in [Tasks -> Task] /\ Default \in Config /\ Idle \in Task
      /\ file.clients \in [Clients -> Entry]
  BY DefaultTypes DEF Config
<1>1. CASE UNCHANGED vars
  BY <1>1
<1>2. CASE Restart
  BY <1>0, <1>2 DEF Restart
<1>3. ASSUME NEW t \in Tasks, Steps(t) PROVE TypeOK'
  <2>0. /\ task[t] \in Task /\ task[t].config \in Config
        /\ task[t].kills \in SUBSET Tokens /\ task[t].config.clients \in [Clients -> Entry]
    BY <1>0 DEF Task, Config
  <2>1. CASE t \in Admins /\ Edited(t)
    <3>1. PICK c : \E text \in Config : \E kills \in SUBSET Tokens :
                     Submit(t, text, kills) /\ Edits(c, text, kills)
      BY <2>1 DEF Edited
    <3>2. PICK text \in Config : \E kills \in SUBSET Tokens :
                     Submit(t, text, kills) /\ Edits(c, text, kills)
      BY <3>1
    <3>3. PICK kills \in SUBSET Tokens : Submit(t, text, kills) /\ Edits(c, text, kills)
      BY <3>2
    <3>4. [pc |-> "truncated", config |-> text, kills |-> kills] \in Task
      BY DEF Task
    <3>5. minted' \in Tokens
      BY <3>3 DEF Edits
    <3> QED
      BY <1>0, <3>3, <3>4, <3>5 DEF Submit, FileChanges
  <2>2. CASE WriteText(t)
    <3>1. [task[t] EXCEPT !.pc = "written"] \in Task
      BY <2>0 DEF Task
    <3> QED
      BY <1>0, <2>0, <2>2, <3>1 DEF WriteText, FileChanges
  <2>3. CASE WriteFails(t)
    BY <1>0, <2>3 DEF WriteFails, Release
  <2>4. CASE Loaded(t)
    <3>1. [pc |-> "building", config |-> file, kills |-> task[t].kills] \in Task
      BY <2>0 DEF Task
    <3> QED
      BY <1>0, <2>4, <3>1 DEF Loaded
  <2>5. CASE Refused(t)
    BY <1>0, <2>5 DEF Refused, Release
  <2>6. CASE Build(t)
    <3>1. [task[t] EXCEPT !.pc = "swapping"] \in Task
      BY <2>0 DEF Task
    <3> QED
      BY <1>0, <2>6, <3>1 DEF Build
  <2>7. CASE Drop(t)
    BY <1>0, <2>7 DEF Drop, Release
  <2>8. CASE SwapService(t)
    <3>1. [task[t] EXCEPT !.pc = "securing"] \in Task
      BY <2>0 DEF Task
    <3> QED
      BY <1>0, <2>0, <2>8, <3>1 DEF SwapService
  <2>9. CASE SwapSecurity(t)
    BY <1>0, <2>0, <2>9 DEF SwapSecurity, Release
  <2> QED
    BY <1>3, <2>1, <2>2, <2>3, <2>4, <2>5, <2>6, <2>7, <2>8, <2>9 DEF Steps
<1> QED
  BY <1>1, <1>2, <1>3, NextSteps

\* Every state of a running server is well formed; in particular no handler
\* writes an entry without a credential.
THEOREM TypeCorrect == Spec => []TypeOK
<1>1. Init => TypeOK
  BY InitType
<1>2. TypeOK /\ [Next]_vars => TypeOK'
  BY NextType
<1> QED
  BY <1>1, <1>2, PTL DEF Spec
----------------------------------------------------------------------------
\* What a step does to the place of its task, and to nobody else's.
LEMMA Places ==
  ASSUME TypeOK, NEW t \in Tasks, Steps(t)
  PROVE  /\ \A u \in Tasks \ {t} : task'[u] = task[u]
         /\ \/ task'[t].pc = "idle" /\ Release(t) /\ (t \in Admins => task[t].pc # "idle")
            \/ /\ t \in Admins /\ ~lock /\ lock' /\ task[t].pc = "idle"
               /\ task'[t].pc = "truncated" /\ file' = Default
            \/ /\ lock' = lock /\ task'[t].pc # "idle"
               /\ t \in Admins => task[t].pc # "idle"
<1>0. task \in [Tasks -> Task] /\ task[t] \in Task
  BY DEF TypeOK
<1>1. CASE t \in Admins /\ Edited(t)
  BY <1>0, <1>1 DEF Edited, Submit
<1>2. CASE WriteText(t)
  BY <1>0, <1>2 DEF WriteText, Task
<1>3. CASE WriteFails(t)
  BY <1>0, <1>3, DefaultTypes DEF WriteFails
<1>4. CASE Loaded(t)
  BY <1>0, <1>4 DEF Loaded
<1>5. CASE Refused(t)
  BY <1>0, <1>5, DefaultTypes DEF Refused
<1>6. CASE Build(t)
  BY <1>0, <1>6 DEF Build, Task
<1>7. CASE Drop(t)
  BY <1>0, <1>7, DefaultTypes DEF Drop
<1>8. CASE SwapService(t)
  BY <1>0, <1>8 DEF SwapService, Task
<1>9. CASE SwapSecurity(t)
  BY <1>0, <1>9, DefaultTypes DEF SwapSecurity
<1> QED
  BY <1>1, <1>2, <1>3, <1>4, <1>5, <1>6, <1>7, <1>8, <1>9 DEF Steps

LEMMA NextSerial ==
  ASSUME TypeOK, TypeOK', ChangesAreSerial, [Next]_vars
  PROVE  ChangesAreSerial'
<1>1. CASE UNCHANGED vars
  BY <1>1 DEF ChangesAreSerial
<1>2. CASE Restart
  BY <1>2, DefaultTypes DEF Restart, ChangesAreSerial
<1>3. ASSUME NEW t \in Tasks, Steps(t) PROVE ChangesAreSerial'
  <2>1. /\ \A u \in Tasks \ {t} : task'[u] = task[u]
        /\ \/ task'[t].pc = "idle" /\ Release(t) /\ (t \in Admins => task[t].pc # "idle")
           \/ /\ t \in Admins /\ ~lock /\ lock' /\ task[t].pc = "idle"
              /\ task'[t].pc = "truncated" /\ file' = Default
           \/ /\ lock' = lock /\ task'[t].pc # "idle"
              /\ t \in Admins => task[t].pc # "idle"
    BY <1>3, Places
  <2>2. CASE t \in Admins
    <3>1. CASE task'[t].pc = "idle" /\ Release(t) /\ task[t].pc # "idle"
      BY <2>1, <2>2, <3>1 DEF ChangesAreSerial, Release
    <3>2. CASE ~lock /\ lock' /\ task'[t].pc = "truncated"
      BY <2>1, <2>2, <3>2 DEF ChangesAreSerial
    <3>3. CASE lock' = lock /\ task'[t].pc # "idle" /\ task[t].pc # "idle"
      BY <2>1, <2>2, <3>3 DEF ChangesAreSerial
    <3> QED
      BY <2>1, <2>2, <3>1, <3>2, <3>3
  <2>3. CASE t \notin Admins
    <3>1. (lock' = lock) /\ \A a \in Admins : task'[a] = task[a]
      BY <2>1, <2>3 DEF Release
    <3> QED
      BY <3>1 DEF ChangesAreSerial
  <2> QED
    BY <2>2, <2>3
<1> QED
  BY <1>1, <1>2, <1>3, NextSteps

LEMMA InitSerial == ASSUME Init PROVE ChangesAreSerial
  BY DefaultTypes DEF Init, ChangesAreSerial

\* config_write_lock covers the section from the write of the file to the swap,
\* whatever is dropped, refused or restarted in between.
THEOREM ChangesAreSerialized == Spec => []ChangesAreSerial
<1>1. Init => TypeOK /\ ChangesAreSerial
  BY InitType, InitSerial
<1>2. TypeOK /\ ChangesAreSerial /\ [Next]_vars => TypeOK' /\ ChangesAreSerial'
  BY NextType, NextSerial
<1> QED
  BY <1>1, <1>2, PTL DEF Spec
----------------------------------------------------------------------------
HasRead(t) == task[t].pc \in {"building", "swapping", "securing"}

\* A reload that is not outdated carries the file; once it has swapped the
\* service, and no outdated one did, the service is the file.
AgreeInv ==
  /\ \A t \in Tasks : HasRead(t) /\ t \notin outdated => task[t].config = file
  /\ \A t \in Tasks :
       task[t].pc = "securing" /\ t \notin outdated /\ ~staleSwap => service = file
  /\ AgreeOnceApplied

LEMMA InitAgree == ASSUME Init PROVE AgreeInv
  BY DefaultTypes DEF Init, AgreeInv, HasRead, AgreeOnceApplied

\* A write of the file outdates whoever has read it.
LEMMA WriteAgrees ==
  ASSUME TypeOK, AgreeInv, NEW t \in Tasks, FileChanges, ~HasRead(t)',
         \A u \in Tasks \ {t} : task'[u] = task[u]
  PROVE  AgreeInv'
  BY DEF TypeOK, AgreeInv, HasRead, FileChanges, AgreeOnceApplied

\* A task that ends without swapping disturbs nothing.
LEMMA EndAgrees ==
  ASSUME TypeOK, AgreeInv, NEW t \in Tasks, task' = [task EXCEPT ![t] = Idle],
         outdated' \in {outdated, outdated \ {t}},
         UNCHANGED <<file, running, staleSwap, pending>>
  PROVE  AgreeInv'
<1>1. \A u \in Tasks \ {t} : task'[u] = task[u] /\ (u \in outdated' <=> u \in outdated)
  BY DEF TypeOK
<1>2. task'[t].pc = "idle"
  BY DefaultTypes DEF TypeOK
<1> QED
  BY <1>1, <1>2 DEF AgreeInv, HasRead, AgreeOnceApplied

LEMMA NextAgree == ASSUME TypeOK, AgreeInv, [Next]_vars PROVE AgreeInv'
<1>0. task \in [Tasks -> Task] /\ staleSwap \in BOOLEAN /\ pending \in BOOLEAN
  BY DEF TypeOK
<1>1. CASE UNCHANGED vars
  BY <1>1 DEF AgreeInv, HasRead, AgreeOnceApplied
<1>2. CASE Restart
  BY <1>2, DefaultTypes DEF Restart, AgreeInv, HasRead, AgreeOnceApplied
<1>3. ASSUME NEW t \in Tasks, Steps(t) PROVE AgreeInv'
  <2>0. task[t] \in Task /\ \A u \in Tasks \ {t} : task'[u] = task[u]
    BY <1>0, <1>3, Places
  <2>1. CASE t \in Admins /\ Edited(t)
    <3>1. FileChanges /\ task'[t].pc = "truncated"
      BY <1>0, <2>1 DEF Edited, Submit
    <3> QED
      BY <2>0, <3>1, WriteAgrees DEF HasRead
  <2>2. CASE WriteText(t)
    <3>1. FileChanges /\ task'[t].pc = "written"
      BY <1>0, <2>0, <2>2 DEF WriteText, Task
    <3> QED
      BY <2>0, <3>1, WriteAgrees DEF HasRead
  <2>3. CASE WriteFails(t) \/ Refused(t) \/ Drop(t)
    BY <2>3, EndAgrees DEF WriteFails, Refused, Drop
  <2>4. CASE Loaded(t)
    <3>1. task'[t].config = file /\ task'[t].pc = "building"
      BY <1>0, <2>4 DEF Loaded
    <3>2. \A u \in Tasks \ {t} : u \in outdated' <=> u \in outdated
      BY <2>4 DEF Loaded
    <3> QED
      BY <2>0, <2>4, <3>1, <3>2 DEF Loaded, AgreeInv, HasRead, AgreeOnceApplied
  <2>5. CASE Build(t)
    <3>1. task'[t].config = task[t].config /\ task'[t].pc = "swapping"
      BY <1>0, <2>0, <2>5 DEF Build, Task
    <3> QED
      BY <2>0, <2>5, <3>1 DEF Build, AgreeInv, HasRead, AgreeOnceApplied
  <2>6. CASE SwapService(t)
    <3>1. task'[t].config = task[t].config /\ task'[t].pc = "securing"
      BY <1>0, <2>0, <2>6 DEF SwapService, Task
    <3>2. \A u \in Tasks : HasRead(u)' => HasRead(u) /\ task'[u].config = task[u].config
      BY <2>0, <2>6, <3>1 DEF SwapService, HasRead
    <3>3. CASE t \in outdated
      <4>1. staleSwap'
        BY <2>6, <3>3 DEF SwapService
      <4> QED
        BY <2>6, <3>2, <4>1 DEF SwapService, AgreeInv, AgreeOnceApplied
    <3>4. CASE t \notin outdated
      <4>1. service' = file
        BY <2>6, <3>4 DEF SwapService, AgreeInv, HasRead
      <4>2. UNCHANGED <<file, security, outdated, pending, staleSwap>>
        BY <1>0, <2>6, <3>4 DEF SwapService
      <4> QED
        BY <3>2, <4>1, <4>2 DEF AgreeInv, AgreeOnceApplied
    <3> QED
      BY <3>3, <3>4
  <2>7. CASE SwapSecurity(t)
    <3>1. task'[t].pc = "idle"
      BY <1>0, <2>7, DefaultTypes DEF SwapSecurity
    <3>2. \A u \in Tasks : HasRead(u)' => HasRead(u) /\ task'[u] = task[u]
      BY <2>0, <3>1 DEF HasRead
    <3>3. \A u \in Tasks : task'[u].pc = "securing" => task[u].pc = "securing"
      BY <2>0, <3>1
    <3>4. CASE t \in outdated
      <4>1. staleSwap' /\ UNCHANGED <<file, outdated>>
        BY <2>7, <3>4 DEF SwapSecurity
      <4> QED
        BY <3>2, <4>1 DEF AgreeInv, AgreeOnceApplied
    <3>5. CASE t \notin outdated
      <4>1. UNCHANGED <<file, service, outdated, staleSwap>>
        BY <1>0, <2>7, <3>5 DEF SwapSecurity
      <4>2. security' = file.clients
        BY <2>7, <3>5 DEF SwapSecurity, AgreeInv, HasRead
      <4>3. ~staleSwap => service = file
        BY <2>7, <3>5 DEF SwapSecurity, AgreeInv
      <4> QED
        BY <3>2, <3>3, <4>1, <4>2, <4>3 DEF AgreeInv, AgreeOnceApplied
    <3> QED
      BY <3>4, <3>5
  <2> QED
    BY <1>3, <2>1, <2>2, <2>3, <2>4, <2>5, <2>6, <2>7 DEF Steps
<1> QED
  BY <1>1, <1>2, <1>3, NextSteps

\* A reload that read the last write of the file leaves file, service and
\* credentials in agreement, and no other reload undoes it unless it is outdated.
THEOREM AppliedFileIsServed == Spec => []AgreeOnceApplied
<1>1. Init => TypeOK /\ AgreeInv
  BY InitType, InitAgree
<1>2. TypeOK /\ AgreeInv /\ [Next]_vars => TypeOK' /\ AgreeInv'
  BY NextType, NextAgree
<1>3. AgreeInv => AgreeOnceApplied
  BY DEF AgreeInv
<1> QED
  BY <1>1, <1>2, <1>3, PTL DEF Spec
----------------------------------------------------------------------------
\* An admin request that is about to write, and what it has written.
StageInv ==
  \A t \in Tasks :
    /\ task[t].pc \in {"truncated", "written"} => t \in Admins
    /\ task[t].pc = "written" => file = task[t].config
    /\ t \notin Admins \/ task[t].pc = "idle" => task[t].kills = {}

LEMMA InitStage == ASSUME Init PROVE StageInv
  BY DefaultTypes DEF Init, StageInv

LEMMA NextStage ==
  ASSUME TypeOK, ChangesAreSerial, StageInv, [Next]_vars
  PROVE  StageInv'
<1>0. task \in [Tasks -> Task]
  BY DEF TypeOK
<1>1. CASE UNCHANGED vars
  BY <1>1 DEF StageInv
<1>2. CASE Restart
  BY <1>2, DefaultTypes DEF Restart, StageInv
<1>3. ASSUME NEW t \in Tasks, Steps(t) PROVE StageInv'
  <2>0. task[t] \in Task /\ \A u \in Tasks \ {t} : task'[u] = task[u]
    BY <1>0, <1>3, Places
  <2>1. CASE t \in Admins /\ Edited(t)
    <3>1. t \in Admins /\ ~lock /\ task'[t].pc = "truncated"
      BY <1>0, <2>1 DEF Edited, Submit
    <3>2. \A u \in Tasks : task[u].pc # "written"
      BY <3>1 DEF StageInv, ChangesAreSerial
    <3> QED
      BY <2>0, <3>1, <3>2 DEF StageInv
  <2>2. CASE WriteText(t)
    <3>1. /\ task'[t].pc = "written" /\ file' = task'[t].config
          /\ t \in Admins /\ task[t].pc # "idle"
      BY <1>0, <2>0, <2>2 DEF WriteText, Task, StageInv
    <3>2. \A u \in Tasks \ {t} : task[u].pc # "written"
      BY <3>1 DEF StageInv, ChangesAreSerial
    <3> QED
      BY <2>0, <3>1, <3>2 DEF StageInv
  <2>3. CASE WriteFails(t) \/ Refused(t) \/ Drop(t) \/ SwapSecurity(t)
    <3>1. task'[t] = Idle /\ file' = file
      BY <1>0, <2>3 DEF WriteFails, Refused, Drop, SwapSecurity
    <3> QED
      BY <2>0, <3>1, DefaultTypes DEF StageInv
  <2>4. CASE Loaded(t)
    <3>1. task'[t].pc = "building" /\ task'[t].kills = task[t].kills /\ file' = file
      BY <1>0, <2>4 DEF Loaded
    <3> QED
      BY <2>0, <2>4, <3>1 DEF Loaded, StageInv
  <2>5. CASE Build(t) \/ SwapService(t)
    <3>1. /\ task'[t].pc \in {"swapping", "securing"} /\ task[t].pc # "idle"
          /\ task'[t].kills = task[t].kills /\ file' = file
      BY <1>0, <2>0, <2>5 DEF Build, SwapService, Task
    <3> QED
      BY <2>0, <3>1 DEF StageInv
  <2> QED
    BY <1>3, <2>1, <2>2, <2>3, <2>4, <2>5 DEF Steps
<1> QED
  BY <1>1, <1>2, <1>3, NextSteps

\* The tokens under the id c from which later texts are made: those of the file,
\* of the service, and of a text on its way to the truncated file.
Held(c) ==
  {file.clients[c].token, service.clients[c].token}
    \cup {task[t].config.clients[c].token : t \in {u \in Tasks : task[u].pc = "truncated"}}

\* They are alive, minted, and belong to one id.
HeldInv ==
  \A c \in Clients : \A k \in Held(c) :
    /\ k <= minted /\ k \notin revoked
    /\ \A d \in Clients \ {c} : k \in Held(d) => k = 0

\* No request carries a token that its answer declares dead.
KillsInv ==
  \A t \in Tasks : \A k \in task[t].kills :
    k <= minted /\ \A c \in Clients : task[t].config.clients[c].token # k

RevokeInv ==
  ~staleSwap => /\ HeldInv /\ KillsInv
                /\ \A k \in revoked : k <= minted
                /\ \A c \in Clients : security[c].token \notin revoked

LEMMA EntryTokens ==
  ASSUME NEW e \in Entry
  PROVE  e.token \in 0 .. MaxTokens
  BY ReloadAssumption DEF Entry, NoEntry, Tokens

LEMMA HeldType ==
  ASSUME TypeOK, NEW c \in Clients
  PROVE  Held(c) \subseteq 0 .. MaxTokens
<1>1. ASSUME NEW X \in Config PROVE X.clients[c].token \in 0 .. MaxTokens
  BY EntryTokens DEF Config
<1>2. \A t \in Tasks : task[t].config \in Config
  BY DEF TypeOK, Task
<1> QED
  BY <1>1, <1>2 DEF TypeOK, Held

LEMMA InitRevoke == ASSUME Init PROVE RevokeInv
<1>0. TypeOK
  BY InitType
<1>1. PICK b \in BOOLEAN, c \in Clients, s \in Scopes :
        file = [enabled |-> b,
                clients |-> [d \in Clients |->
                               IF d = c THEN [token |-> 1, scope |-> s] ELSE NoEntry]]
  BY DEF Init
<1>2. \A d \in Clients : file.clients[d].token = IF d = c THEN 1 ELSE 0
  BY <1>1 DEF NoEntry
<1>3. \A d \in Clients : Held(d) = {IF d = c THEN 1 ELSE 0}
  BY <1>2, DefaultTypes DEF Init, Held
<1>4. HeldInv
  BY <1>3 DEF Init, HeldInv
<1>5. KillsInv
  BY DefaultTypes DEF Init, KillsInv
<1> QED
  BY <1>4, <1>5 DEF Init, RevokeInv

\* A step that mints and revokes nothing only moves held tokens around.
LEMMA HeldMoves ==
  ASSUME TypeOK, HeldInv, minted' = minted, revoked' = revoked,
         \A c \in Clients : Held(c)' \subseteq Held(c) \cup {0}
  PROVE  HeldInv'
<1>1. minted \in Nat /\ 0 <= minted /\ 0 \notin revoked
  BY ReloadAssumption DEF TypeOK, Tokens
<1> QED
  BY <1>1 DEF HeldInv

\* ... and so does a step that only ends tasks or lets them proceed.
LEMMA HeldStays ==
  ASSUME UNCHANGED <<file, service>>,
         \A u \in Tasks : task'[u].pc = "truncated" => task'[u] = task[u]
  PROVE  \A c \in Clients : Held(c)' \subseteq Held(c) \cup {0}
  BY DEF Held

\* An admin handler's text: the tokens in it are held ones, or freshly minted
\* under one id, and what the answer will kill is not in it.
LEMMA EditRevokes ==
  ASSUME TypeOK, TypeOK', StageInv, RevokeInv, ChangesAreSerial, ~staleSwap,
         NEW t \in Admins, Edited(t)
  PROVE  RevokeInv'
<1>0. /\ task \in [Tasks -> Task] /\ t \in Tasks /\ minted \in Nat
      /\ 0 \notin revoked /\ 0 <= minted
  BY ReloadAssumption DEF TypeOK, Tokens
<1>1. PICK c : \E text \in Config : \E kills \in SUBSET Tokens :
                 Submit(t, text, kills) /\ Edits(c, text, kills)
  BY DEF Edited
<1>2. PICK text \in Config : \E kills \in SUBSET Tokens :
                 Submit(t, text, kills) /\ Edits(c, text, kills)
  BY <1>1
<1>3. PICK kills \in SUBSET Tokens : Submit(t, text, kills) /\ Edits(c, text, kills)
  BY <1>2
<1>4. /\ ~lock /\ file' = Default /\ UNCHANGED <<service, security, revoked, staleSwap>>
      /\ task'[t].pc = "truncated" /\ task'[t].config = text /\ task'[t].kills = kills
      /\ \A u \in Tasks \ {t} : task'[u] = task[u]
  BY <1>0, <1>3 DEF Submit
<1>5. \A u \in Tasks : task[u].pc # "truncated"
  BY <1>4 DEF StageInv, ChangesAreSerial
<1>6. \A d \in Clients :
        Held(d)' = {0, service.clients[d].token, text.clients[d].token}
  BY <1>0, <1>4, <1>5, DefaultTypes DEF Held
<1>7. \A d \in Clients : file.clients[d].token \in Held(d) /\ service.clients[d].token \in Held(d)
  BY DEF Held
<1>8. \A d \in Clients : Held(d)' \subseteq
        Held(d) \cup {0} \cup (IF d = c /\ minted' = minted + 1 THEN {minted + 1} ELSE {})
  BY <1>3, <1>6, <1>7 DEF Edits
<1>9. minted' \in {minted, minted + 1} /\ minted' \in Nat
  BY <1>0, <1>3 DEF Edits
<1>10. HeldInv /\ \A k \in revoked : k <= minted
  BY DEF RevokeInv
<1>11. \A d \in Clients : Held(d) \subseteq 0 .. MaxTokens
  BY HeldType
<1>12. minted + 1 \notin revoked /\ \A d \in Clients : minted + 1 \notin Held(d)
  BY <1>0, <1>10 DEF HeldInv
<1>13. HeldInv'
  <2> SUFFICES ASSUME NEW d \in Clients, NEW k \in Held(d)'
      PROVE  /\ k <= minted' /\ k \notin revoked
             /\ \A e \in Clients \ {d} : k \in Held(e)' => k = 0
    BY <1>4 DEF HeldInv
  <2>1. CASE k = 0
    BY <1>0, <1>9, <2>1
  <2>2. CASE k \in Held(d) /\ k # 0
    <3>1. k <= minted /\ k \notin revoked /\ k \in Nat
      BY <1>10, <1>11, <2>2 DEF HeldInv
    <3>2. k # minted + 1 /\ k <= minted'
      BY <1>0, <1>9, <3>1
    <3> QED
      BY <1>8, <1>10, <2>2, <3>1, <3>2 DEF HeldInv
  <2>3. CASE d = c /\ minted' = minted + 1 /\ k = minted + 1
    <3>1. k <= minted'
      BY <1>0, <2>3
    <3> QED
      BY <1>8, <1>12, <2>3, <3>1
  <2> QED
    BY <1>8, <2>1, <2>2, <2>3
<1>14. \A k \in kills : k <= minted /\ \A d \in Clients : text.clients[d].token # k
  <2>1. CASE kills = {}
    BY <2>1
  <2>2. CASE /\ c \in Clients /\ kills = {service.clients[c].token}
             /\ text.clients[c].token \in {0, minted + 1}
             /\ \A d \in Clients \ {c} : text.clients[d] = file.clients[d]
    <3>1. 0 \notin kills
      BY ReloadAssumption DEF Tokens
    <3>2. service.clients[c].token \in Held(c) /\ service.clients[c].token <= minted
      BY <1>7, <1>10, <2>2 DEF HeldInv
    <3>3. text.clients[c].token # service.clients[c].token
      BY <1>12, <2>2, <3>1, <3>2
    <3>4. \A d \in Clients \ {c} : file.clients[d].token # service.clients[c].token
      BY <1>7, <1>10, <2>2, <3>1, <3>2 DEF HeldInv
    <3> QED
      BY <2>2, <3>2, <3>3, <3>4
  <2> QED
    BY <1>3, <2>1, <2>2 DEF Edits
<1>15. kills \subseteq Nat /\ revoked \subseteq Nat /\ \A u \in Tasks : task[u].kills \subseteq Nat
  BY ReloadAssumption DEF TypeOK, Task, Tokens
<1>16. KillsInv'
  <2> SUFFICES ASSUME NEW u \in Tasks, NEW k \in task'[u].kills
      PROVE  k <= minted' /\ \A d \in Clients : task'[u].config.clients[d].token # k
    BY DEF KillsInv
  <2>1. CASE u = t
    <3>1. k \in kills /\ task'[u].config = text
      BY <1>4, <2>1
    <3>2. k <= minted /\ k \in Nat /\ \A d \in Clients : text.clients[d].token # k
      BY <1>14, <1>15, <3>1
    <3>3. k <= minted'
      BY <1>0, <1>9, <3>2
    <3> QED
      BY <3>1, <3>2, <3>3
  <2>2. CASE u # t
    <3>1. k <= minted /\ k \in Nat /\ \A d \in Clients : task[u].config.clients[d].token # k
      BY <1>4, <1>15, <2>2 DEF RevokeInv, KillsInv
    <3> QED
      BY <1>0, <1>4, <1>9, <2>2, <3>1
  <2> QED
    BY <2>1, <2>2
<1>17. \A k \in revoked : k <= minted'
  BY <1>0, <1>9, <1>10, <1>15
<1> QED
  BY <1>4, <1>13, <1>16, <1>17 DEF RevokeInv

\* Steps that leave the credentials and the tokens alone.
LEMMA MoveRevokes ==
  ASSUME TypeOK, RevokeInv, NEW t \in Tasks,
         UNCHANGED <<security, minted, revoked, staleSwap>>,
         \A c \in Clients : Held(c)' \subseteq Held(c) \cup {0},
         \A u \in Tasks \ {t} : task'[u] = task[u],
         \/ task'[t].kills = {}
         \/ task'[t].kills = task[t].kills /\ task'[t].config = task[t].config
  PROVE  RevokeInv'
<1> SUFFICES ASSUME ~staleSwap PROVE RevokeInv'
  BY DEF RevokeInv
<1>1. HeldInv'
  BY HeldMoves DEF RevokeInv
<1>2. KillsInv'
  BY DEF RevokeInv, KillsInv
<1> QED
  BY <1>1, <1>2 DEF RevokeInv

LEMMA NextRevoke ==
  ASSUME TypeOK, TypeOK', ChangesAreSerial, StageInv, AgreeInv, RevokeInv, [Next]_vars
  PROVE  RevokeInv'
<1>0. /\ task \in [Tasks -> Task] /\ staleSwap \in BOOLEAN
      /\ \A c \in Clients : file.clients[c].token \in Held(c)
      /\ \A c \in Clients : service.clients[c].token \in Held(c)
  BY DEF TypeOK, Held
<1>1. CASE UNCHANGED vars
  BY <1>1 DEF RevokeInv, HeldInv, KillsInv, Held
<1>2. CASE Restart
  <2> SUFFICES ASSUME ~staleSwap PROVE RevokeInv'
    BY <1>2 DEF Restart, RevokeInv
  <2>1. \A c \in Clients : Held(c)' \subseteq Held(c) \cup {0}
    BY <1>2, DefaultTypes DEF Restart, Held
  <2>2. HeldInv'
    BY <1>2, <2>1, HeldMoves DEF Restart, RevokeInv
  <2>3. KillsInv'
    BY <1>2, DefaultTypes DEF Restart, KillsInv
  <2>4. \A c \in Clients : security'[c].token \notin revoked
    BY <1>0, <1>2 DEF Restart, RevokeInv, HeldInv
  <2> QED
    BY <1>2, <2>2, <2>3, <2>4 DEF Restart, RevokeInv
<1>3. ASSUME NEW t \in Tasks, Steps(t), ~staleSwap' PROVE RevokeInv'
  <2>0. task[t] \in Task /\ \A u \in Tasks \ {t} : task'[u] = task[u]
    BY <1>0, <1>3, Places
  <2>1. CASE t \in Admins /\ Edited(t)
    <3>1. ~staleSwap
      BY <1>3, <2>1 DEF Edited, Submit
    <3> QED
      BY <2>1, <3>1, EditRevokes
  <2>2. CASE WriteText(t)
    <3>1. /\ task'[t].pc = "written" /\ task'[t].config = task[t].config
          /\ task'[t].kills = task[t].kills /\ task[t].pc = "truncated"
      BY <1>0, <2>0, <2>2 DEF WriteText, Task
    <3>2. \A c \in Clients : file'.clients[c].token \in Held(c)
      BY <2>2, <3>1 DEF WriteText, Held
    <3>3. \A c \in Clients : Held(c)' \subseteq Held(c) \cup {0}
      <4>1. service' = service
        BY <2>2 DEF WriteText
      <4>2. \A u \in Tasks : task'[u].pc = "truncated" => task'[u] = task[u]
        BY <2>0, <3>1
      <4> QED
        BY <3>2, <4>1, <4>2 DEF Held
    <3> QED
      BY <2>0, <2>2, <3>1, <3>3, MoveRevokes DEF WriteText
  <2>3. CASE WriteFails(t) \/ Refused(t) \/ Drop(t)
    <3>1. /\ task'[t] = Idle
          /\ UNCHANGED <<file, service, security, minted, revoked, staleSwap>>
      BY <1>0, <2>3 DEF WriteFails, Refused, Drop
    <3>2. \A c \in Clients : Held(c)' \subseteq Held(c) \cup {0}
      BY <2>0, <3>1, DefaultTypes, HeldStays
    <3> QED
      BY <2>0, <3>1, <3>2, DefaultTypes, MoveRevokes
  <2>4. CASE Loaded(t)
    <3>1. /\ task'[t].pc = "building" /\ task'[t].config = file
          /\ task'[t].kills = task[t].kills
          /\ UNCHANGED <<file, service, security, minted, revoked, staleSwap>>
      BY <1>0, <2>4 DEF Loaded
    <3>2. \A c \in Clients : Held(c)' \subseteq Held(c) \cup {0}
      BY <2>0, <3>1, HeldStays
    <3>3. task[t].kills = {} \/ task[t].config = file
      BY <2>4 DEF Loaded, StageInv
    <3> QED
      BY <2>0, <3>1, <3>2, <3>3, MoveRevokes
  <2>5. CASE Build(t)
    <3>1. /\ task'[t].pc = "swapping" /\ task'[t].config = task[t].config
          /\ task'[t].kills = task[t].kills
          /\ UNCHANGED <<file, service, security, minted, revoked, staleSwap>>
      BY <1>0, <2>0, <2>5 DEF Build, Task
    <3>2. \A c \in Clients : Held(c)' \subseteq Held(c) \cup {0}
      BY <2>0, <3>1, HeldStays
    <3> QED
      BY <2>0, <3>1, <3>2, MoveRevokes
  <2>6. CASE SwapService(t)
    <3>1. /\ task'[t].pc = "securing" /\ task'[t].config = task[t].config
          /\ task'[t].kills = task[t].kills /\ t \notin outdated
          /\ UNCHANGED <<file, security, minted, revoked, staleSwap>>
      BY <1>0, <1>3, <2>0, <2>6 DEF SwapService, Task
    <3>2. service' = file
      BY <2>6, <3>1 DEF SwapService, AgreeInv, HasRead
    <3>3. \A c \in Clients : Held(c)' \subseteq Held(c) \cup {0}
      BY <2>0, <3>1, <3>2 DEF Held
    <3> QED
      BY <2>0, <3>1, <3>3, MoveRevokes
  <2>7. CASE SwapSecurity(t)
    <3>1. /\ task'[t] = Idle /\ t \notin outdated /\ ~staleSwap
          /\ UNCHANGED <<file, service, minted, staleSwap>>
          /\ revoked' = revoked \cup task[t].kills
          /\ task[t].pc = "securing"
      BY <1>0, <1>3, <2>7 DEF SwapSecurity
    <3>2. service = file /\ task[t].config = file /\ security' = file.clients
      BY <2>7, <3>1 DEF SwapSecurity, AgreeInv, HasRead
    <3>3. \A c \in Clients : Held(c)' \subseteq Held(c)
      BY <2>0, <3>1, DefaultTypes DEF Held
    <3>4. \A c \in Clients : file.clients[c].token \notin task[t].kills
      BY <3>1, <3>2 DEF RevokeInv, KillsInv
    <3>5. CASE t \in Admins
      <4>1. \A u \in Tasks : task[u].pc # "truncated"
        BY <3>1, <3>5 DEF StageInv, ChangesAreSerial
      <4>2. \A c \in Clients : Held(c) = {file.clients[c].token}
        BY <3>2, <4>1 DEF Held
      <4> QED
        <5>1. HeldInv'
          BY <3>1, <3>3, <3>4, <4>2 DEF RevokeInv, HeldInv
        <5>2. KillsInv'
          BY <2>0, <3>1, DefaultTypes DEF RevokeInv, KillsInv
        <5>3. \A c \in Clients : file.clients[c].token \notin revoked'
          BY <1>0, <3>1, <3>4 DEF RevokeInv, HeldInv
        <5>4. \A k \in revoked' : k <= minted
          BY <3>1 DEF RevokeInv, KillsInv
        <5> QED
          BY <3>1, <3>2, <5>1, <5>2, <5>3, <5>4 DEF RevokeInv
    <3>6. CASE t \notin Admins
      <4>1. revoked' = revoked
        BY <3>1, <3>6 DEF StageInv
      <4>2. HeldInv'
        BY <3>1, <3>3, <4>1 DEF RevokeInv, HeldInv
      <4>3. KillsInv'
        BY <2>0, <3>1, DefaultTypes DEF RevokeInv, KillsInv
      <4>4. \A c \in Clients : file.clients[c].token \notin revoked
        BY <1>0, <3>1 DEF RevokeInv, HeldInv
      <4> QED
        BY <3>1, <3>2, <4>1, <4>2, <4>3, <4>4 DEF RevokeInv
    <3> QED
      BY <3>5, <3>6
  <2> QED
    BY <1>3, <2>1, <2>2, <2>3, <2>4, <2>5, <2>6, <2>7 DEF Steps
<1>4. CASE staleSwap'
  BY <1>4 DEF RevokeInv
<1> QED
  BY <1>1, <1>2, <1>3, <1>4, NextSteps

\* A token whose rotation or removal was acknowledged never authenticates again,
\* with any number of requests, dropped ones and restarts, as long as no unlocked
\* reload installs what it had read before the last write.
THEOREM RevocationHolds == Spec => []RevokedWhenFresh
<1> DEFINE Inv == TypeOK /\ ChangesAreSerial /\ StageInv /\ AgreeInv /\ RevokeInv
<1>1. Init => Inv
  BY InitType, InitSerial, InitStage, InitAgree, InitRevoke
<1>2. Inv /\ [Next]_vars => Inv'
  <2> SUFFICES ASSUME Inv, [Next]_vars PROVE Inv'
    OBVIOUS
  <2>1. TypeOK'
    BY NextType
  <2> QED
    BY <2>1, NextSerial, NextStage, NextAgree, NextRevoke
<1>3. Inv => RevokedWhenFresh
  BY DEF RevokeInv, RevokedWhenFresh
<1> QED
  BY <1>1, <1>2, <1>3, PTL DEF Spec
=============================================================================
