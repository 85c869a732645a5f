------------------------------- MODULE Access -------------------------------
(***************************************************************************)
(* The HTTP edge (amatl-server lib.rs, mcp.rs) and its audit trail         *)
(* (audit.rs): the checks of security_middleware in their order, the scope *)
(* a route needs, the credentials a reload puts in place, the tools an MCP *)
(* client may call, and the bounded background writes that record every    *)
(* refusal.  A reload swaps the service, with an audit trail of its own,   *)
(* and then the credentials; requests go on with what they read first.     *)
(***************************************************************************)
EXTENDS Integers, Sequences, FiniteSets, SequencesExt, FiniteSetsExt

CONSTANTS
  Callers,        \* requests in flight
  Routes,         \* the routes of RouteMethods that are called
  ServerConfigs,  \* [noAuth, declared]: the [server] sections an operator writes
  FirstConfig,    \* the one the server was started with
  Usable,         \* the tokens the environment or the file really provides
  Bearers,        \* the bearer tokens callers present
  Days,           \* the last day of the model
  MaxInFlight,    \* MAX_IN_FLIGHT of audit.rs
  MaxRefusals,    \* bound: refusals in one behaviour
  MaxServices     \* bound: services built by reloads

VARIABLES
  clients,   \* the accepted credentials, in order; empty when there is no auth
  pending,   \* the credentials of a reload that has swapped the service only
  service,   \* the number of the current service
  trail,     \* trail[s]: the audit trail of service s
  today,     \* the day credentials expire by
  visit      \* visit[c]: the request of c

accessVars == <<clients, pending, service, trail, today, visit>>

Scopes == {"search", "deep", "read", "write", "admin", "mcp"}
Tools == {"search", "fetch"}
Methods == {"GET", "POST", "PATCH", "DELETE", "OPTIONS"}

\* The reasons the checks before authentication refuse for.
EdgeFlaws == <<"headers_too_large", "body_too_large", "invalid_host", "invalid_origin",
               "rate_limited">>

NoVisit == [stage |-> "idle"]

\* An audit trail: the counter, and where the refusals it was handed went.
NewTrail(storage) ==
  [storage |-> storage, inFlight |-> 0, inserting |-> 0, closing |-> 0,
   written |-> 0, failed |-> 0, dropped |-> 0]

----------------------------------------------------------------------------
(* Routes: a route stands for all those with the same methods and scopes.   *)

RouteMethods ==
  [public   |-> {"GET"},              \* /health /ready /metrics and the assets
   search   |-> {"GET", "POST"},      \* /search
   deep     |-> {"GET", "POST"},      \* /deep
   answer   |-> {"POST", "PATCH"},    \* /answer
   read     |-> {"GET"},              \* /providers /status /policies /circuits ...
   library  |-> {"GET", "POST", "DELETE"},  \* /history /saved
   entry    |-> {"DELETE"},           \* /history/{id} /saved/{id}
   settings |-> {"GET", "PATCH"},     \* /persistence /telemetry /deep/limits ...
   admin    |-> {"GET", "POST", "PATCH", "DELETE"},  \* /reload /server/clients ...
   mcp      |-> {"POST"},             \* /mcp
   unknown  |-> {"GET"}]              \* no route: the asset handler says not found

\* required_scope, with its closed last arm.
RequiredScope(method, route) ==
  CASE route = "public" -> "none"
    [] route \in {"search", "deep", "read", "mcp"} -> route
    [] route = "answer" -> IF method = "PATCH" THEN "admin" ELSE "deep"
    [] route = "library" -> IF method \in {"POST", "PUT", "DELETE"} THEN "write" ELSE "read"
    [] route = "entry" -> "write"
    [] route = "settings" -> IF method = "PATCH" THEN "admin" ELSE "read"
    [] OTHER -> "admin"

----------------------------------------------------------------------------
(* Credentials.                                                             *)

\* resolve_clients: a client without a usable secret is left out.
ResolveClients(config) ==
  IF config.noAuth THEN <<>> ELSE SelectSeq(config.declared, LAMBDA c : c.token \in Usable)

\* A configuration that must authenticate and has no client is an error.
Resolves(config) == config.noAuth \/ ResolveClients(config) # <<>>

Unexpired(client, day) == ~client.expires \/ day <= client.lastDay

Refused(event) == [verdict |-> event, tools |-> {}]

\* authenticate and the scope check: the last credential that matches decides.
Authorize(accepted, ask, day) ==
  LET matching == {i \in DOMAIN accepted : accepted[i].token = ask.token}
      client == accepted[Max(matching)]
      scope == RequiredScope(ask.method, ask.route)
  IN CASE scope = "none" \/ ask.method = "OPTIONS" \/ accepted = <<>> ->
            [verdict |-> "allowed", tools |-> Tools]
       [] OTHER ->
            IF matching = {} THEN Refused("unauthorized")
            ELSE IF ~Unexpired(client, day) THEN Refused("credential_expired")
            ELSE IF scope \notin client.scopes THEN Refused("scope_denied")
            ELSE [verdict |-> "allowed", tools |-> client.tools]

\* security_middleware up to the handler: the first check that fails decides;
\* a preflight request is not counted against the rate limit.
Checked(accepted, ask, day) ==
  LET failing == {i \in DOMAIN EdgeFlaws :
                    /\ EdgeFlaws[i] \in ask.flaws
                    /\ ~(EdgeFlaws[i] = "rate_limited" /\ ask.method = "OPTIONS")}
  IN IF failing # {} THEN Refused(EdgeFlaws[Min(failing)]) ELSE Authorize(accepted, ask, day)

----------------------------------------------------------------------------
\* build_router_with_reload refuses to start without a credential.
ASSUME AccessAssumption ==
  /\ MaxInFlight \in Nat \ {0} /\ MaxRefusals \in Nat /\ MaxServices \in Nat \ {0} /\ Days \in Nat
  /\ FirstConfig \in ServerConfigs /\ Resolves(FirstConfig) /\ IsFiniteSet(Callers)

\* The clients of a configuration are a list.
ASSUME ClientsAssumption ==
  \A config \in ServerConfigs :
    LET resolved == ResolveClients(config)
    IN Len(resolved) \in Nat /\ DOMAIN resolved = 1 .. Len(resolved)

AccessInit ==
  /\ clients = ResolveClients(FirstConfig)
  /\ pending = clients
  /\ service = 1
  /\ trail = [s \in 1 .. MaxServices |-> NewTrail(TRUE)]
  /\ today = 0
  /\ visit = [c \in Callers |-> NoVisit]

\* How many refusals a behaviour has seen.
RefusalsSeen ==
  LET seen(s) == trail[s].inserting + trail[s].closing + trail[s].written + trail[s].failed
                 + trail[s].dropped
  IN MapThenSumSet(seen, 1 .. MaxServices)
     + Cardinality({c \in Callers : visit[c].stage \in {"refused", "dropping"}})

\* What a request asks for; a tool is named in the body of an MCP request.
Asks ==
  {ask \in [route : Routes, method : Methods, token : Bearers,
            flaws : {{}} \cup {{EdgeFlaws[i]} : i \in DOMAIN EdgeFlaws}, tool : Tools] :
     /\ ask.method \in RouteMethods[ask.route] \cup {"OPTIONS"}
     /\ ask.route # "mcp" => ask.tool = "search"}

\* The request once its checks are done: a preflight request is answered by the
\* CORS layer and reaches no handler, a tool the identity may not call is an
\* error of the tool, a refusal is recorded next with the service of that
\* moment, which a reload may have put in place after the checks.
Admitted(ask, outcome) ==
  CASE outcome.verdict # "allowed" -> [stage |-> "refused"]
    [] outcome.verdict = "allowed" /\ (ask.method = "OPTIONS" \/ (ask.route = "mcp" /\ ask.tool \notin outcome.tools)) -> NoVisit
    [] OTHER -> [stage |-> "running", ask |-> [ask EXCEPT !.flaws = {}], accepted |-> clients,
                 day |-> today]

Receive(c) ==
  /\ visit[c].stage = "idle"
  /\ RefusalsSeen < MaxRefusals
  /\ \E ask \in Asks :
       visit' = [visit EXCEPT ![c] = Admitted(ask, Checked(clients, ask, today))]
  /\ UNCHANGED <<clients, pending, service, trail, today>>

Answered(c) ==
  /\ visit[c].stage = "running"
  /\ visit' = [visit EXCEPT ![c] = NoVisit]
  /\ UNCHANGED <<clients, pending, service, trail, today>>

\* The timeout of the request drops its handler and is audited like a refusal.
TimesOut(c) ==
  /\ visit[c].stage = "running"
  /\ RefusalsSeen < MaxRefusals
  /\ visit' = [visit EXCEPT ![c] = [stage |-> "refused"]]
  /\ UNCHANGED <<clients, pending, service, trail, today>>

----------------------------------------------------------------------------
(* SecurityAudit::record and the task it spawns.                            *)

\* What record and its task do to a trail: take a place, give it back with the
\* event dropped, write the event or fail to, and give the place back.
Taken(t, full) == [t EXCEPT !.inFlight = @ + 1, !.inserting = IF full THEN @ ELSE @ + 1]
GivenBack(t) == [t EXCEPT !.inFlight = @ - 1, !.dropped = @ + 1]
Settled(t, ok) ==
  [t EXCEPT !.inserting = @ - 1, !.closing = @ + 1,
            !.written = IF ok THEN @ + 1 ELSE @, !.failed = IF ok THEN @ ELSE @ + 1]
Closed(t) == [t EXCEPT !.inFlight = @ - 1, !.closing = @ - 1]

\* fetch_add; the value before it decides between a task and a drop.  Without
\* storage nothing is recorded.
Record(c) ==
  LET s == service
      full == trail[s].inFlight >= MaxInFlight
  IN
  /\ visit[c].stage = "refused"
  /\ IF ~trail[s].storage
     THEN UNCHANGED trail /\ visit' = [visit EXCEPT ![c] = NoVisit]
     ELSE /\ trail' = [trail EXCEPT ![s] = Taken(trail[s], full)]
          /\ visit' = [visit EXCEPT ![c] =
               IF full THEN [stage |-> "dropping", service |-> s] ELSE NoVisit]
  /\ UNCHANGED <<clients, pending, service, today>>

\* Mutant: the place taken is not given back when the event is dropped.
DropLeaking(c) ==
  /\ visit[c].stage = "dropping"
  /\ trail' = [trail EXCEPT ![visit[c].service].dropped = @ + 1]
  /\ visit' = [visit EXCEPT ![c] = NoVisit]
  /\ UNCHANGED <<clients, pending, service, today>>

\* fetch_sub, and the drop is counted.
Drop(c) ==
  /\ visit[c].stage = "dropping"
  /\ trail' = [trail EXCEPT ![visit[c].service] = GivenBack(trail[visit[c].service])]
  /\ visit' = [visit EXCEPT ![c] = NoVisit]
  /\ UNCHANGED <<clients, pending, service, today>>

\* security_event_insert succeeds or fails.
Inserted(s, ok) ==
  /\ trail[s].inserting > 0
  /\ trail' = [trail EXCEPT ![s] = Settled(trail[s], ok)]
  /\ UNCHANGED <<clients, pending, service, today, visit>>

TaskEnds(s) ==
  /\ trail[s].closing > 0
  /\ trail' = [trail EXCEPT ![s] = Closed(trail[s])]
  /\ UNCHANGED <<clients, pending, service, today, visit>>

----------------------------------------------------------------------------
(* Reload: the service first, the credentials after it.                     *)

SwapService(config, storage) ==
  /\ service < MaxServices /\ pending = clients /\ Resolves(config)
  /\ service' = service + 1
  /\ trail' = [trail EXCEPT ![service + 1] = NewTrail(storage)]
  /\ pending' = ResolveClients(config)
  /\ UNCHANGED <<clients, today, visit>>

SwapSecurity ==
  /\ pending # clients
  /\ clients' = pending
  /\ UNCHANGED <<pending, service, trail, today, visit>>

NextDay ==
  /\ today < Days
  /\ today' = today + 1
  /\ UNCHANGED <<clients, pending, service, trail, visit>>

AccessNext ==
  \/ \E c \in Callers :
       \/ Receive(c) \/ Answered(c) \/ TimesOut(c) \/ Record(c) \/ Drop(c)
  \/ \E s \in 1 .. MaxServices : (\E ok \in BOOLEAN : Inserted(s, ok)) \/ TaskEnds(s)
  \/ \E config \in ServerConfigs, storage \in BOOLEAN : SwapService(config, storage)
  \/ SwapSecurity
  \/ NextDay

AccessSpec == AccessInit /\ [][AccessNext]_accessVars

----------------------------------------------------------------------------
\* A credential the request was checked with allows it.
Entitled(v) ==
  LET scope == RequiredScope(v.ask.method, v.ask.route)
  IN \/ scope = "none" /\ v.ask.route = "public"
     \/ v.accepted = <<>>
     \/ \E i \in DOMAIN v.accepted :
          /\ v.accepted[i].token = v.ask.token /\ Unexpired(v.accepted[i], v.day)
          /\ scope \in v.accepted[i].scopes
          /\ v.ask.route = "mcp" => v.ask.tool \in v.accepted[i].tools

\* Reloads, expiring credentials and preflight requests notwithstanding, a
\* handler runs only for a request entitled to it by the credentials it was
\* checked with; and no refusal takes a place of the audit trail for good: each
\* trail's counter is the writes in flight plus the drops about to be undone,
\* and never lets more than MAX_IN_FLIGHT writes run.
RequestsAccounted ==
  /\ \A c \in Callers : visit[c].stage = "running" => Entitled(visit[c])
  /\ \A s \in 1 .. MaxServices :
       LET dropping == {c \in Callers : visit[c].stage = "dropping" /\ visit[c].service = s}
       IN /\ trail[s].inFlight = trail[s].inserting + trail[s].closing + Cardinality(dropping)
          /\ trail[s].inserting + trail[s].closing <= MaxInFlight
=============================================================================
