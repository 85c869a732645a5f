------------------------------- MODULE Reload -------------------------------
(***************************************************************************)
(* Configuration changes in a running server                               *)
(* (crates/amatl-server/src/lib.rs).  An admin request takes the           *)
(* config_write_lock, computes its change from the RUNNING configuration,  *)
(* writes the file, and reloads: the file is read, a new service is built  *)
(* on another thread, and the service and then the credentials are         *)
(* swapped.  POST /reload and SIGHUP reload too, without the lock, and a   *)
(* request may be dropped at its await.                                    *)
(*                                                                         *)
(* The configuration is abstracted to a flag, which handlers change alone, *)
(* and the client entries, which they write back whole.  std::fs::write    *)
(* truncates the file before it writes it, and an empty file is read as    *)
(* the default configuration.                                              *)
(***************************************************************************)
EXTENDS Integers

CONSTANTS
  Admins,     \* admin requests that change the configuration
  Reloaders,  \* POST /reload requests and the SIGHUP listener
  Clients,    \* ids of [[server.clients]]
  Scopes,     \* capabilities a client may be given
  MaxTokens   \* bound: tokens minted

ASSUME ReloadAssumption ==
  /\ Admins \cap Reloaders = {}
  /\ MaxTokens \in Nat \ {0} /\ Scopes \subseteq Nat \ {0}

Tasks == Admins \cup Reloaders

\* A client entry has a credential and a capability; NoEntry: the id is free.
Tokens  == 1 .. MaxTokens
NoEntry == [token |-> 0, scope |-> 0]
Entry   == [token : Tokens, scope : Scopes] \cup {NoEntry}
Config  == [enabled : BOOLEAN, clients : [Clients -> Entry]]
Default == [enabled |-> FALSE, clients |-> [c \in Clients |-> NoEntry]]

VARIABLES
  envToken,  \* a default credential is in the environment
  file,      \* the configuration the file reads as
  service,   \* configuration of the running service
  security,  \* client entries the middleware authenticates against
  lock,      \* config_write_lock is held
  task,      \* task[t]: an admin request or a reload, see Task
  minted,    \* tokens handed out
  revoked,   \* auxiliary: tokens whose replacement or removal was acknowledged
  outdated,  \* auxiliary: reloads that read the file before its last write
  staleSwap, \* auxiliary: one of them installed what it had read
  pending    \* auxiliary: the file changed and no reload has applied it yet

running == <<service, security>>
aux     == <<revoked, outdated, staleSwap, pending>>
vars    == <<envToken, file, running, lock, task, minted, aux>>

\* Where a task is, the configuration it writes or has read, and the tokens its
\* answer declares dead.
Task == [pc : {"idle", "truncated", "written", "building", "swapping", "securing"},
         config : Config, kills : SUBSET Tokens]
Idle == [pc |-> "idle", config |-> Default, kills |-> {}]

\* resolve_clients: a configuration nobody could authenticate with is refused.
Resolvable(config) ==
  envToken \/ \E c \in Clients : config.clients[c].token # 0

\* The guard of the lock goes with the task.
Release(t) == lock' = IF t \in Admins THEN FALSE ELSE lock
----------------------------------------------------------------------------
Init ==
  /\ envToken \in BOOLEAN
  /\ \E b \in BOOLEAN, c \in Clients, s \in Scopes :
       file = [enabled |-> b,
               clients |-> [d \in Clients |->
                              IF d = c THEN [token |-> 1, scope |-> s] ELSE NoEntry]]
  /\ service = file
  /\ security = file.clients
  /\ lock = FALSE
  /\ task = [t \in Tasks |-> Idle]
  /\ minted = 1
  /\ revoked = {} /\ outdated = {} /\ staleSwap = FALSE /\ pending = FALSE

\* The file changes under the reloads that have read it.
FileChanges ==
  /\ outdated' = outdated \cup
                  {t \in Tasks : task[t].pc \in {"building", "swapping", "securing"}}
  /\ pending' = TRUE

\* The part of every admin handler up to the truncation of the file: the lock,
\* and the new text, which a setter computes from the file.
Submit(a, text, kills) ==
  /\ task[a].pc = "idle" /\ ~lock
  /\ lock' = TRUE
  /\ task' = [task EXCEPT ![a] = [pc |-> "truncated", config |-> text, kills |-> kills]]
  /\ file' = Default
  /\ FileChanges
  /\ UNCHANGED <<envToken, running, revoked, staleSwap>>

\* The file with the entry of c replaced, all of it.
Upsert(c, entry) == [file EXCEPT !.clients = [@ EXCEPT ![c] = entry]]

\* provider_toggle, answer_toggle: one field of the file changes.
Toggle(a, b) ==
  /\ Submit(a, [file EXCEPT !.enabled = b], {})
  /\ UNCHANGED minted

\* create_server_client: refused when the running configuration has the id.
CreateClient(a, c, s) ==
  /\ service.clients[c] = NoEntry
  /\ minted < MaxTokens
  /\ minted' = minted + 1
  /\ Submit(a, Upsert(c, [token |-> minted + 1, scope |-> s]), {})

\* Faulty variant: the id is not looked up first.
UpdateAnyClient(a, c, s) ==
  /\ Submit(a, Upsert(c, [token |-> service.clients[c].token, scope |-> s]), {})
  /\ UNCHANGED minted

\* update_server_client: the rest of the entry is carried over from the running
\* configuration, not from the file.
UpdateClient(a, c, s) ==
  /\ service.clients[c] # NoEntry
  /\ Submit(a, Upsert(c, [token |-> service.clients[c].token, scope |-> s]), {})
  /\ UNCHANGED minted

\* rotate_server_client_token.
RotateClient(a, c) ==
  /\ service.clients[c] # NoEntry
  /\ minted < MaxTokens
  /\ minted' = minted + 1
  /\ Submit(a, Upsert(c, [token |-> minted + 1, scope |-> service.clients[c].scope]),
            {service.clients[c].token})

\* delete_server_client.
DeleteClient(a, c) ==
  /\ service.clients[c] # NoEntry
  /\ Submit(a, Upsert(c, NoEntry), {service.clients[c].token})
  /\ UNCHANGED minted

\* The setter writes its text ...
WriteText(a) ==
  /\ task[a].pc = "truncated"
  /\ file' = task[a].config
  /\ task' = [task EXCEPT ![a] = [task[a] EXCEPT !.pc = "written"]]
  /\ FileChanges
  /\ UNCHANGED <<envToken, running, lock, minted, revoked, staleSwap>>

\* ... or fails after the truncation, and the handler answers with an error.
WriteFails(a) ==
  /\ task[a].pc = "truncated"
  /\ task' = [task EXCEPT ![a] = Idle]
  /\ Release(a)
  /\ UNCHANGED <<envToken, file, running, minted, aux>>

\* update_server_pending_config, a change that retires no credential, answers
\* once it has written the file and leaves the reload to the operator.
Pend(a) ==
  /\ task[a].pc = "written" /\ task[a].kills = {}
  /\ task' = [task EXCEPT ![a] = Idle]
  /\ Release(a)
  /\ outdated' = outdated \ {a}
  /\ UNCHANGED <<envToken, file, running, minted, revoked, staleSwap, pending>>

\* AppState::reload reads the file and resolves its clients; a refused
\* configuration ends the task.
Load(t) ==
  /\ task[t].pc = IF t \in Admins THEN "written" ELSE "idle"
  /\ IF Resolvable(file)
     THEN /\ task' = [task EXCEPT ![t] = [pc |-> "building", config |-> file,
                                          kills |-> task[t].kills]]
          /\ UNCHANGED lock
     ELSE /\ task' = [task EXCEPT ![t] = Idle]
          /\ Release(t)
  /\ outdated' = outdated \ {t}
  /\ UNCHANGED <<envToken, file, running, minted, revoked, staleSwap, pending>>

\* reloaded_detached returns the new service.
Build(t) ==
  /\ task[t].pc = "building"
  /\ task' = [task EXCEPT ![t] = [task[t] EXCEPT !.pc = "swapping"]]
  /\ UNCHANGED <<envToken, file, running, lock, minted, aux>>

\* Faulty variant: a dropped request keeps the lock.
DropLocked(t) ==
  /\ task[t].pc = "building"
  /\ task' = [task EXCEPT ![t] = Idle]
  /\ UNCHANGED <<envToken, file, running, lock, minted, aux>>

\* Faulty variant: the handler answers with success although the reload failed.
DropAcknowledged(t) ==
  /\ task[t].pc = "building"
  /\ task' = [task EXCEPT ![t] = Idle]
  /\ Release(t)
  /\ revoked' = revoked \cup task[t].kills
  /\ UNCHANGED <<envToken, file, running, minted, outdated, staleSwap, pending>>

\* The request times out, or the build fails, and its result is dropped.
Drop(t) ==
  /\ task[t].pc = "building"
  /\ task' = [task EXCEPT ![t] = Idle]
  /\ Release(t)
  /\ UNCHANGED <<envToken, file, running, minted, aux>>

\* The service is swapped ...
SwapService(t) ==
  /\ task[t].pc = "swapping"
  /\ service' = task[t].config
  /\ task' = [task EXCEPT ![t] = [task[t] EXCEPT !.pc = "securing"]]
  /\ staleSwap' = (staleSwap \/ t \in outdated)
  /\ UNCHANGED <<envToken, file, security, lock, minted, revoked, outdated, pending>>

\* Faulty variant: the credentials are those of the service before the reload.
SwapSecurityLate(t) ==
  /\ task[t].pc = "securing"
  /\ task' = [task EXCEPT ![t] = Idle]
  /\ Release(t)
  /\ revoked' = revoked \cup task[t].kills
  /\ staleSwap' = (staleSwap \/ t \in outdated)
  /\ pending' = (pending /\ t \in outdated)
  /\ UNCHANGED <<envToken, file, running, minted, outdated>>

\* ... and then the credentials, and the request answers.
SwapSecurity(t) ==
  /\ task[t].pc = "securing"
  /\ security' = task[t].config.clients
  /\ task' = [task EXCEPT ![t] = Idle]
  /\ Release(t)
  /\ revoked' = revoked \cup task[t].kills
  /\ staleSwap' = (staleSwap \/ t \in outdated)
  /\ pending' = (pending /\ t \in outdated)
  /\ UNCHANGED <<envToken, file, service, minted, outdated>>

\* The process dies and starts again from the file.
Restart ==
  /\ Resolvable(file)
  /\ service' = file
  /\ security' = file.clients
  /\ lock' = FALSE
  /\ task' = [t \in Tasks |-> Idle]
  /\ outdated' = {} /\ pending' = FALSE
  /\ UNCHANGED <<envToken, file, minted, revoked, staleSwap>>

Change(a) ==
  \/ \E b \in BOOLEAN : Toggle(a, b)
  \/ \E c \in Clients, s \in Scopes : CreateClient(a, c, s) \/ UpdateClient(a, c, s)
  \/ \E c \in Clients : RotateClient(a, c) \/ DeleteClient(a, c)

\* What a task does once it has begun.
Proceed(t) ==
  \/ (t \in Admins /\ (Load(t) \/ Pend(t))) \/ Build(t) \/ Drop(t) \/ SwapService(t) \/ SwapSecurity(t)

Next ==
  \/ \E a \in Admins : Change(a) \/ WriteText(a) \/ WriteFails(a)
  \/ \E r \in Reloaders : Load(r)
  \/ \E t \in Tasks : Proceed(t)
  \/ Restart

Spec == Init /\ [][Next]_vars

\* The runtime polls every task, and a build ends or its request times out.
Fairness ==
  \A t \in Tasks : WF_vars(Proceed(t)) /\ WF_vars(WriteText(t) \/ WriteFails(t))
FairSpec == Spec /\ Fairness
----------------------------------------------------------------------------
\* The types; an entry that is there has a credential.
TypeOK ==
  /\ envToken \in BOOLEAN
  /\ file \in Config /\ service \in Config
  /\ security \in [Clients -> Entry]
  /\ lock \in BOOLEAN
  /\ task \in [Tasks -> Task]
  /\ minted \in Tokens
  /\ revoked \in SUBSET Tokens
  /\ outdated \in SUBSET Tasks
  /\ staleSwap \in BOOLEAN /\ pending \in BOOLEAN

\* The section from the write of the file to the swap is not shared: the lock is
\* held exactly while one admin request is in it, and two never are.
ChangesAreSerial ==
  /\ lock <=> \E a \in Admins : task[a].pc # "idle"
  /\ \A a, b \in Admins : task[a].pc # "idle" /\ task[b].pc # "idle" => a = b

\* Once a reload has applied the last write of the file, the file, the service
\* and the credentials stay in agreement, whatever else is being reloaded,
\* unless an unlocked reload installs what it had read too early.
AgreeOnceApplied ==
  ~pending /\ ~staleSwap => service = file /\ security = file.clients

\* A token whose rotation or removal was acknowledged does not authenticate
\* again, through later changes, dropped requests and restarts, unless an
\* unlocked reload installed what it had read too early.
RevokedWhenFresh ==
  ~staleSwap => \A c \in Clients : security[c].token \notin revoked

\* The lock is always given back.
LockIsReleased == lock ~> ~lock

\* "The old token stops authenticating the instant the reload below swaps
\* SecurityState" (rotate_server_client_token), whatever else reloads.
RevokedStaysRevoked == \A c \in Clients : security[c].token \notin revoked
=============================================================================
