------------------------------ MODULE Settings ------------------------------
(***************************************************************************)
(* The settings an administrator edits through the server (lib.rs) and the *)
(* setters of the configuration file behind them (config/*.rs).  A handler *)
(* takes config_write_lock, lays its patch over the SERVED configuration,  *)
(* validates the result, and then edits the FILE: most setters write the   *)
(* fields the patch names, a policy replaces its whole table, the fields   *)
(* its body leaves out by their defaults, and a provider record is written *)
(* back whole, its unnamed fields as they are served.  A reload follows,   *)
(* except for [server].                                                    *)
(*                                                                         *)
(* Reload has the credentials and the liveness of the same protocol;       *)
(* Outbound has the sections that decide what leaves the machine.          *)
(***************************************************************************)
EXTENDS Integers

CONSTANTS
  Editors,    \* admin requests
  Listeners,  \* POST /reload and the SIGHUP listener, which take no lock
  Offered,    \* the numbers requests set limits to
  Light,      \* the fields whose changes take one of MaxEdits, the others two
  MaxEdits    \* bound: changes submitted, by what they take

ASSUME SettingsAssumption ==
  Editors \cap Listeners = {} /\ Offered \subseteq 0 .. 2 /\ MaxEdits \in Nat

Parties == Editors \cup Listeners

----------------------------------------------------------------------------
(* The configuration.  A number stands for a value; of the limits, 0 is one *)
(* out of range.  A patch leaves the fields it does not name Unset.         *)

Levels == 0 .. 2
Unset == -1

RecordFields == {"approval", "terms"}          \* [providers.<name>]
Fields ==
  RecordFields \cup
  {"weight",                             \* [ranking_policy]
   "cap", "ratio",                       \* [diversity_policy]
   "results",                            \* [search_policy]
   "backups", "interval",                \* [persistence]
   "window",                             \* [telemetry]
   "depth", "output", "renderer",        \* [deep] and its tables
   "isolated",                           \* [data_policy]
   "bind"}                               \* [server]; 1 is a loopback address

Document == [Fields -> Levels]
Change == [Fields -> Levels \cup {Unset}]

\* Config::default.
Factory ==
  [f \in Fields |->
     IF f \in RecordFields \cup {"backups", "renderer", "isolated"} THEN 0
     ELSE IF f \in {"cap", "results"} THEN 2 ELSE 1]

Nothing == [f \in Fields |-> Unset]

\* apply: what a patch names is set, the rest stays.
Overlaid(config, change) ==
  [f \in Fields |-> IF change[f] = Unset THEN config[f] ELSE change[f]]

\* Some of the given fields, at least one.
Patches(fields, values) ==
  {[f \in Fields |-> IF f \in fields THEN some[f] ELSE Unset] :
     some \in [fields -> values \cup {Unset}] \ {[f \in fields |-> Unset]}}

\* A policy as it is read from the body of a request, for the table of the
\* given fields: the body names some of them or none, and #[serde(default)]
\* gives the others their defaults.
Bodies(fields) ==
  {[f \in Fields |-> IF f \in fields THEN Overlaid(Factory, body)[f] ELSE Unset] :
     body \in Patches(fields, Offered) \cup {Nothing}}

\* What the bodies of requests name.
RecordPatches == Patches(RecordFields, {0, 1})
PolicyBodies == Bodies({"weight"}) \cup Bodies({"cap", "ratio"}) \cup Bodies({"results"})
PersistencePatches == Patches({"backups", "interval"}, {0, 1})
TelemetryPatches == Patches({"window"}, Offered)
DeepPatches == Patches({"depth"}, Offered)
ExtractorPatches == Patches({"output"}, Offered)
RendererPatches == Patches({"renderer"}, {0, 1})
DataPolicyPatches == Patches({"isolated"}, {0, 1})
ServerPatches == Patches({"bind"}, {1, 2})

\* The setters: the text of the file with the fields of a change in it, the
\* others and the comments as they stand.
Stored(text, change) == Overlaid(text, change)

----------------------------------------------------------------------------
(* Config::validate: the rules of a section, and those between sections.    *)

ValidPersistence(c) == c["backups"] = 1 => c["interval"] # 0
ValidTelemetry(c) == c["window"] # 0
ValidDeep(c) == c["depth"] # 0 /\ c["output"] # 0
ValidPolicies(c) ==
  /\ c["weight"] # 0 /\ c["cap"] # 0 /\ c["ratio"] # 0 /\ c["results"] # 0
  /\ c["results"] = c["cap"]
ValidProfile(c) == c["isolated"] = 1 => c["renderer"] = 0 /\ c["bind"] = 1

Acceptable(c) ==
  /\ ValidPersistence(c) /\ ValidTelemetry(c) /\ ValidDeep(c)
  /\ ValidPolicies(c) /\ ValidProfile(c)

----------------------------------------------------------------------------
VARIABLES
  document,  \* what the configuration file reads as
  served,    \* the configuration of the running service
  locked,    \* config_write_lock is held
  party,     \* party[t]: where an admin request or a reload is
  edits,     \* what the changes so far took of MaxEdits
  promise,   \* auxiliary: the fields whose last change was acknowledged
  late,      \* auxiliary: reloads that read the file before its last write
  astray     \* auxiliary: one of them, or one of a file half written, was installed

settingsVars == <<document, served, locked, party, edits, promise, late, astray>>

\* The text it writes or has read, what its request named, whether it reloads.
Resting == [pc |-> "idle", text |-> Factory, named |-> Nothing, reloads |-> TRUE]

\* An editor is between the truncation of the file and the end of its write.
Writing == {a \in Editors : party[a].pc = "writing"}

SettingsInit ==
  /\ document = Factory /\ served = Factory
  /\ locked = FALSE
  /\ party = [t \in Parties |-> Resting]
  /\ edits = 0 /\ promise = Nothing /\ late = {} /\ astray = FALSE

\* What a change takes of MaxEdits.
Weight(named) == IF {f \in Fields : named[f] # Unset} \subseteq Light THEN 1 ELSE 2

\* The reloads under way when the file changes.
Building == {t \in Parties : party[t].pc = "building"}

Free(t) == locked' = IF t \in Editors THEN FALSE ELSE locked

----------------------------------------------------------------------------
(* The handlers.                                                            *)

\* The lock, the validation against what is served, the setter up to the
\* truncation of the file.  What the change names is in doubt until it is
\* acknowledged.
Submit(a, named, written, reloads) ==
  /\ party[a].pc = "idle" /\ ~locked
  /\ edits + Weight(named) <= MaxEdits
  /\ Acceptable(Overlaid(served, named))
  /\ locked' = TRUE /\ edits' = edits + Weight(named)
  /\ party' = [party EXCEPT ![a] =
       [pc |-> "writing", text |-> Stored(document, written), named |-> named,
        reloads |-> reloads]]
  /\ document' = Factory
  /\ promise' = [f \in Fields |-> IF named[f] = Unset THEN promise[f] ELSE Unset]
  /\ late' = late \cup Building
  /\ UNCHANGED <<served, astray>>

\* Mutant: a record starts from the default one every time.
RecordAnew(patch) ==
  [f \in Fields |-> IF f \in RecordFields THEN Overlaid(Factory, patch)[f] ELSE Unset]

\* apply_provider_record_params: the record as it is served, and the patch.
RecordWith(patch) ==
  [f \in Fields |-> IF f \in RecordFields THEN Overlaid(served, patch)[f] ELSE Unset]

UpdateProviderRecord(a) ==
  \E patch \in RecordPatches : Submit(a, patch, RecordWith(patch), TRUE)

\* A handler whose setter writes what the request names.
Edit(a, patches, reloads) ==
  \E patch \in patches : Submit(a, patch, patch, reloads)

UpdatePolicy(a) == Edit(a, PolicyBodies, TRUE)
UpdatePersistence(a) == Edit(a, PersistencePatches, TRUE)
UpdateTelemetry(a) == Edit(a, TelemetryPatches, TRUE)
UpdateDeep(a) == Edit(a, DeepPatches, TRUE)
UpdateDeepExtractor(a) == Edit(a, ExtractorPatches, TRUE)
UpdateDeepRenderer(a) == Edit(a, RendererPatches, TRUE)
UpdateDataPolicy(a) == Edit(a, DataPolicyPatches, TRUE)
UpdateServerPending(a) == Edit(a, ServerPatches, FALSE)

----------------------------------------------------------------------------
WriteText(a) ==
  /\ party[a].pc = "writing"
  /\ document' = party[a].text
  /\ party' = [party EXCEPT ![a] = [party[a] EXCEPT !.pc = "written"]]
  /\ late' = late \cup Building
  /\ UNCHANGED <<served, locked, edits, promise, astray>>

\* The write fails after the truncation: every setting is gone.
WriteFails(a) ==
  /\ party[a].pc = "writing"
  /\ party' = [party EXCEPT ![a] = Resting]
  /\ Free(a)
  /\ promise' = Nothing
  /\ UNCHANGED <<document, served, edits, late, astray>>

\* update_server_pending_config answers without a reload.
ReportPending(a) ==
  /\ party[a].pc = "written" /\ ~party[a].reloads
  /\ party' = [party EXCEPT ![a] = Resting]
  /\ Free(a)
  /\ promise' = Overlaid(promise, party[a].named)
  /\ UNCHANGED <<document, served, edits, late, astray>>

\* AppState::reload: a file that does not validate is an error.
LoadFile(t) ==
  /\ \/ t \in Editors /\ party[t].pc = "written" /\ party[t].reloads
     \/ t \in Listeners /\ party[t].pc = "idle"
  /\ IF Acceptable(document)
     THEN /\ party' = [party EXCEPT ![t] = [party[t] EXCEPT !.pc = "building", !.text = document]]
          /\ UNCHANGED locked
     ELSE party' = [party EXCEPT ![t] = Resting] /\ Free(t)
  /\ late' = late \ {t}
  /\ UNCHANGED <<document, served, edits, promise, astray>>

\* The request times out at its await, or the new service cannot be built.
GiveUp(t) ==
  /\ party[t].pc = "building"
  /\ party' = [party EXCEPT ![t] = Resting]
  /\ Free(t)
  /\ UNCHANGED <<document, served, edits, promise, late, astray>>

\* The service is swapped and the request acknowledged.
Install(t) ==
  /\ party[t].pc = "building"
  /\ served' = party[t].text
  /\ party' = [party EXCEPT ![t] = Resting]
  /\ Free(t)
  /\ promise' = Overlaid(promise, party[t].named)
  /\ astray' = (astray \/ t \in late \/ Writing # {})
  /\ UNCHANGED <<document, edits, late>>

\* The process dies, perhaps inside a write, and starts again if the file lets it.
StartAgain ==
  /\ Acceptable(document)
  /\ served' = document
  /\ locked' = FALSE
  /\ party' = [t \in Parties |-> Resting]
  /\ promise' = IF Writing = {} THEN promise ELSE Nothing
  /\ late' = {}
  /\ UNCHANGED <<document, edits, astray>>

Handlers(a) ==
  \/ UpdateProviderRecord(a) \/ UpdatePolicy(a) \/ UpdatePersistence(a) \/ UpdateTelemetry(a)
  \/ UpdateDeep(a) \/ UpdateDeepExtractor(a) \/ UpdateDeepRenderer(a) \/ UpdateDataPolicy(a)
  \/ UpdateServerPending(a)

SettingsNext ==
  \/ \E a \in Editors : Handlers(a) \/ WriteText(a) \/ WriteFails(a) \/ ReportPending(a)
  \/ \E t \in Parties : LoadFile(t) \/ GiveUp(t) \/ Install(t)
  \/ StartAgain

SettingsSpec == SettingsInit /\ [][SettingsNext]_settingsVars

----------------------------------------------------------------------------
\* What the file says, or will once the write under way is done.
Text == IF Writing = {} THEN document ELSE party[CHOOSE a \in Writing : TRUE].text

\* A setting whose change was acknowledged stays in the file until somebody
\* changes that very setting or replaces the policy it belongs to, which sets
\* every field the body leaves out to its default.  That holds although records
\* are written back whole from a served configuration that lags behind the file
\* after a pending, dropped or failed change; only a failed write loses it, or
\* a reload without the lock that installed a file older than the last write.
SettingsKept ==
  ~astray => \A f \in Fields : promise[f] # Unset => Text[f] = promise[f]
=============================================================================
