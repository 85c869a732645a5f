------------------------------ MODULE Outbound ------------------------------
(***************************************************************************)
(* What may leave the machine: the data policy of a configuration          *)
(* (config/data_policy.rs), the validation that ties the other sections to *)
(* it (Config::validate), the service built from it (with_registry), and   *)
(* the calls its requests make.  An administrator changes the file through *)
(* patches that are checked against the running configuration and then     *)
(* reloaded; a request keeps the service it began with.                    *)
(***************************************************************************)
EXTENDS Integers, FiniteSets, TLC

CONSTANT Requests  \* requests in flight

VARIABLES
  file,     \* the configuration on disk
  running,  \* the configuration of the service in use
  request   \* request[r]: what it asks for, its service, whether it called out

outboundVars == <<file, running, request>>

Configs ==
  [profile : {"standard", "isolated"}, egress : {"deny", "governed"},
   inference : {"disabled", "local_only", "remote_explicit"}, answer : BOOLEAN,
   providers : BOOLEAN]

Default ==
  [profile |-> "standard", egress |-> "governed", inference |-> "disabled",
   answer |-> FALSE, providers |-> FALSE]

Kinds == {"search", "fetch", "embed", "answer"}
NoRequest == [kind |-> "none", config |-> Default, sent |-> FALSE]

----------------------------------------------------------------------------
(* The data policy and the checks of Config::validate.                      *)

AllowsNetwork(c) == c.profile # "isolated" /\ c.egress = "governed"
AllowsRemote(c) == AllowsNetwork(c) /\ c.inference = "remote_explicit"

ValidInference(c) == c.inference = "remote_explicit" => AllowsRemote(c)

\* Mutant: an enabled answer is not checked against the policy.
ValidAnswerAnywhere(c) == c.answer => TRUE

ValidAnswer(c) == c.answer => AllowsRemote(c)

Valid(c) ==
  /\ ValidInference(c) /\ ValidAnswer(c)
  /\ c.profile = "isolated" =>
       c.egress = "deny" /\ c.inference # "remote_explicit"
  /\ c.egress = "deny" => ~c.providers /\ c.inference # "remote_explicit"

----------------------------------------------------------------------------
(* The service built from a configuration.                                  *)

\* The HTTP transport and the fetcher refuse every call without network egress.
Transport(c) == AllowsNetwork(c)

\* InferenceRuntime::from_policy asks the policy again.
RemoteEmbeddings(c) == c.inference = "remote_explicit" /\ AllowsRemote(c)

\* The completion backend is built whenever answers are enabled.
AnswerBackend(c) == c.answer

\* Whether a request of this kind gets as far as a call.
Calls(kind, c) ==
  /\ Transport(c)
  /\ CASE kind = "search" -> c.providers
       [] kind = "fetch"  -> TRUE
       [] kind = "embed"  -> RemoteEmbeddings(c)
       [] kind = "answer" -> AnswerBackend(c)

----------------------------------------------------------------------------
OutboundInit ==
  /\ file = Default
  /\ running = file
  /\ request = [r \in Requests |-> NoRequest]

\* What one admin handler may change at once: some fields of its section.
Changes ==
  LET section == [profile : {"standard", "isolated"}, egress : {"deny", "governed"},
                  inference : {"disabled", "local_only", "remote_explicit"}]
      some(c, fields) == [f \in fields |-> c[f]]
  IN {some(c, fields) : c \in section, fields \in SUBSET {"profile", "egress", "inference"} \ {{}}}
     \cup [{"answer"} -> BOOLEAN] \cup [{"providers"} -> BOOLEAN]

\* The configuration with the fields of a change set.
Patched(config, change) == change @@ config

\* Every admin handler: the change must leave the running configuration valid,
\* and only its own fields are written to the file.
Patch(change) ==
  /\ Valid(Patched(running, change))
  /\ file' = Patched(file, change)
  /\ UNCHANGED <<running, request>>

\* load_optional, then the new service; a file that does not validate leaves
\* the old one running.
ReloadConfig ==
  /\ Valid(file)
  /\ running' = file
  /\ UNCHANGED <<file, request>>

Begin(r, kind) ==
  /\ request[r].kind = "none"
  /\ request' = [request EXCEPT ![r] = [kind |-> kind, config |-> running, sent |-> FALSE]]
  /\ UNCHANGED <<file, running>>

CallOut(r) ==
  /\ request[r].kind # "none" /\ Calls(request[r].kind, request[r].config)
  /\ request' = [request EXCEPT ![r].sent = TRUE]
  /\ UNCHANGED <<file, running>>

\* The request is answered, or found its backend, provider or transport missing.
Reply(r) ==
  /\ request[r].kind # "none"
  /\ request' = [request EXCEPT ![r] = NoRequest]
  /\ UNCHANGED <<file, running>>

OutboundNext ==
  \/ \E change \in Changes : Patch(change)
  \/ ReloadConfig
  \/ \E r \in Requests : (\E kind \in Kinds : Begin(r, kind)) \/ CallOut(r) \/ Reply(r)

OutboundSpec == OutboundInit /\ [][OutboundNext]_outboundVars

----------------------------------------------------------------------------
\* Nothing leaves the machine against the data policy of the service that sends
\* it, although answers are built without asking the policy, patches are checked
\* against another configuration than the one they are written to, and requests
\* outlive the service they began with.
EgressGoverned ==
  \A r \in Requests : request[r].sent =>
    /\ AllowsNetwork(request[r].config)
    /\ request[r].kind \in {"embed", "answer"} => AllowsRemote(request[r].config)
=============================================================================
