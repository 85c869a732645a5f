---------------------------- MODULE SurfaceProofs ----------------------------
(***************************************************************************)
(* The theorems about the parts around the search that MCSurface puts side *)
(* by side: what leaves the machine, the settings, the access to the       *)
(* server, the labels of results, the cache of embeddings, the answers and *)
(* their sources, the pages of results.  The parts share no variable; each *)
(* section has its own inductive invariant.                                *)
(***************************************************************************)
EXTENDS Outbound, Settings, Access, Relevance, Embeddings, Answers, Results,
        SubsequencesProofs

----------------------------------------------------------------------------
(***************************************************************************)
(* Nothing leaves the machine against the data policy, for any number of   *)
(* requests.  The file may hold anything between two reloads; what is      *)
(* served has been validated, and so has what a request began with.        *)
(***************************************************************************)

Shape ==
  /\ request = [r \in Requests |-> request[r]]
  /\ \A r \in Requests :
       request[r] \in [kind : Kinds \cup {"none"}, config : {request[r].config}, sent : BOOLEAN]

\* A request that is served, and one that called out.
Served ==
  \A r \in Requests :
    /\ request[r].kind # "none" => Valid(request[r].config)
    /\ request[r].sent => /\ request[r].kind # "none"
                          /\ Calls(request[r].kind, request[r].config)
    /\ request[r].kind \in Kinds \cup {"none"}

OutboundInv == Shape /\ Served /\ Valid(running)

LEMMA DefaultIsValid == Valid(Default)
  BY DEF Valid, Default, ValidInference, ValidAnswer, AllowsRemote, AllowsNetwork

LEMMA NothingAsked == NoRequest.kind = "none" /\ ~NoRequest.sent
  BY DEF NoRequest

\* One request changes, to a record that satisfies what is asked of it.
LEMMA OneRequest ==
  ASSUME OutboundInv, NEW r \in Requests, NEW kind \in Kinds \cup {"none"}, NEW config,
         NEW sent \in BOOLEAN,
         request' = [request EXCEPT ![r] = [kind |-> kind, config |-> config, sent |-> sent]],
         kind # "none" => Valid(config),
         sent => kind # "none" /\ Calls(kind, config),
         running' = running
  PROVE  OutboundInv'
<1>1. \A q \in Requests :
        request'[q] = IF q = r THEN [kind |-> kind, config |-> config, sent |-> sent] ELSE request[q]
  BY DEF OutboundInv, Shape
<1>2. request' = [q \in Requests |-> request'[q]]
  BY DEF OutboundInv, Shape
<1>3. Shape'
  BY <1>1, <1>2 DEF OutboundInv, Shape
<1>4. Served'
  BY <1>1 DEF OutboundInv, Served
<1>5. Valid(running)'
  BY DEF OutboundInv, Valid, ValidInference, ValidAnswer, AllowsRemote, AllowsNetwork
<1> QED
  BY <1>3, <1>4, <1>5 DEF OutboundInv

LEMMA OutboundStep == OutboundInv /\ [OutboundNext]_outboundVars => OutboundInv'
<1> SUFFICES ASSUME OutboundInv, [OutboundNext]_outboundVars PROVE OutboundInv'
  OBVIOUS
<1>1. ASSUME NEW change \in Changes, Patch(change) PROVE OutboundInv'
  BY <1>1 DEF Patch, OutboundInv, Shape, Served
<1>2. CASE ReloadConfig
  BY <1>2 DEF ReloadConfig, OutboundInv, Shape, Served
<1>3. ASSUME NEW r \in Requests, NEW kind \in Kinds, Begin(r, kind) PROVE OutboundInv'
  <2>1. Valid(running)
    BY DEF OutboundInv
  <2>2. /\ request' = [request EXCEPT ![r] = [kind |-> kind, config |-> running, sent |-> FALSE]]
        /\ running' = running
    BY <1>3 DEF Begin
  <2> QED
    BY <2>1, <2>2, OneRequest
<1>4. ASSUME NEW r \in Requests, CallOut(r) PROVE OutboundInv'
  <2> DEFINE kind == request[r].kind  config == request[r].config
  <2>1. kind # "none" /\ Calls(kind, config) /\ kind \in Kinds \cup {"none"} /\ Valid(config)
    BY <1>4 DEF CallOut, OutboundInv, Served
  <2> DEFINE now == [request[r] EXCEPT !.sent = TRUE]
  <2>2. request[r] \in [kind : Kinds \cup {"none"}, config : {config}, sent : BOOLEAN]
    BY DEF OutboundInv, Shape
  <2>3. /\ now \in [kind : Kinds \cup {"none"}, config : {config}, sent : BOOLEAN]
        /\ now.kind = kind /\ now.config = config /\ now.sent = TRUE
    BY <2>2
  <2>5. now = [kind |-> kind, config |-> config, sent |-> TRUE]
    <3> HIDE DEF now
    <3> QED BY <2>3
  <2>4. /\ request' = [request EXCEPT ![r] = [kind |-> kind, config |-> config, sent |-> TRUE]]
        /\ running' = running
    BY <1>4, <2>5 DEF CallOut
  <2> HIDE DEF kind, config
  <2> QED
    BY <2>1, <2>4, OneRequest
<1>5. ASSUME NEW r \in Requests, Reply(r) PROVE OutboundInv'
  <2>1. /\ request' = [request EXCEPT ![r] = [kind |-> "none", config |-> Default, sent |-> FALSE]]
        /\ running' = running
    BY <1>5 DEF Reply, NoRequest
  <2> QED
    BY <2>1, OneRequest
<1>6. CASE UNCHANGED outboundVars
  BY <1>6 DEF outboundVars, OutboundInv, Shape, Served
<1> QED
  BY <1>1, <1>2, <1>3, <1>4, <1>5, <1>6 DEF OutboundNext

LEMMA OutboundStart == OutboundInit => OutboundInv
<1> SUFFICES ASSUME OutboundInit PROVE OutboundInv
  OBVIOUS
<1>1. Valid(running)
  BY DefaultIsValid DEF OutboundInit
<1>2. Shape /\ Served
  BY NothingAsked DEF OutboundInit, Shape, Served, NoRequest
<1> QED
  BY <1>1, <1>2 DEF OutboundInv

\* What calls out does so within the policy of its own configuration, because
\* that configuration was validated when it was installed.
LEMMA CallsAreGoverned ==
  ASSUME NEW c, NEW kind \in Kinds, Valid(c), Calls(kind, c)
  PROVE  AllowsNetwork(c) /\ (kind \in {"embed", "answer"} => AllowsRemote(c))
<1>1. AllowsNetwork(c)
  BY DEF Calls, Transport
<1>2. kind = "embed" => AllowsRemote(c)
  BY DEF Calls, RemoteEmbeddings
<1>3. kind = "answer" => AllowsRemote(c)
  BY DEF Calls, AnswerBackend, Valid, ValidAnswer
<1> QED
  BY <1>1, <1>2, <1>3

\* No request ever calls out against the data policy of the configuration it
\* began with, whatever is patched and reloaded meanwhile.
THEOREM EgressIsGoverned == OutboundSpec => []EgressGoverned
<1>1. OutboundInv => EgressGoverned
  BY CallsAreGoverned DEF OutboundInv, Served, EgressGoverned
<1> QED
  BY <1>1, OutboundStart, OutboundStep, PTL DEF OutboundSpec

----------------------------------------------------------------------------
(***************************************************************************)
(* Acknowledged settings stay in the file, for any number of admin         *)
(* requests and of reloads without the lock, and any number of changes.    *)
(***************************************************************************)

PCs == {"idle", "writing", "written", "building"}
Party == [pc : PCs, text : Document, named : Change, reloads : BOOLEAN]

SettingsTypes ==
  /\ document \in Document /\ served \in Document /\ promise \in Change
  /\ locked \in BOOLEAN /\ astray \in BOOLEAN /\ late \in SUBSET Parties
  /\ party \in [Parties -> Party]

\* One admin request at a time is in the locked section.
OneSection ==
  /\ \A a \in Editors : party[a].pc # "idle" => locked
  /\ \A a, b \in Editors : party[a].pc # "idle" /\ party[b].pc # "idle" => a = b

\* Listeners only load and install, and name nothing.
ListenersRead ==
  \A t \in Listeners : party[t].pc \in {"idle", "building"} /\ party[t].named = Nothing

\* Who is not late has read the file as it is; a request that holds the lock
\* is never late.
FreshReads ==
  /\ late \cap Editors = {}
  /\ \A t \in Parties : party[t].pc = "building" /\ t \notin late => party[t].text = document

Says(text, named) == \A f \in Fields : named[f] # Unset => text[f] = named[f]

\* What a request names is in what it writes, and then in the file; what it
\* names without a reload is in no record.
Carried ==
  \A a \in Editors :
    /\ party[a].pc = "writing" => Says(party[a].text, party[a].named)
    /\ party[a].pc \in {"written", "building"} => Says(document, party[a].named)
    /\ party[a].pc # "idle" /\ ~party[a].reloads =>
         \A f \in RecordFields : party[a].named[f] = Unset

\* The promises are in the file, or in what is being written.
PromisesKept ==
  ~astray => /\ Writing = {} => Says(document, promise)
             /\ \A a \in Writing : Says(party[a].text, promise)

\* The strengthening that makes whole records harmless: what they carry over
\* from the served configuration is what was promised.
RecordsServed ==
  ~astray => \A f \in RecordFields : promise[f] # Unset => served[f] = promise[f]

KeptInv ==
  /\ SettingsTypes /\ OneSection /\ ListenersRead /\ FreshReads /\ Carried
  /\ PromisesKept /\ RecordsServed

----------------------------------------------------------------------------
LEMMA SettingsConstants ==
  /\ Factory \in Document /\ Nothing \in Change /\ RecordFields \subseteq Fields
  /\ \A f \in Fields : Nothing[f] = Unset
  /\ Resting \in Party /\ Resting.pc = "idle" /\ Resting.named = Nothing
<1>1. Factory \in Document
  BY DEF Factory, Document, Levels
<1>2. Nothing \in Change /\ \A f \in Fields : Nothing[f] = Unset
  BY DEF Nothing, Change
<1>3. RecordFields \subseteq Fields
  BY DEF RecordFields, Fields
<1> QED
  BY <1>1, <1>2, <1>3 DEF Resting, Party, PCs

LEMMA OverlaidTypes ==
  ASSUME NEW d, NEW c \in Change
  PROVE  /\ d \in Document => Overlaid(d, c) \in Document
         /\ d \in Change => Overlaid(d, c) \in Change
         /\ \A f \in Fields : Overlaid(d, c)[f] = IF c[f] = Unset THEN d[f] ELSE c[f]
  BY DEF Overlaid, Document, Change

\* What a request writes says what it names, and beyond that only records as
\* they are served.
Faithful(named, written, reloads) ==
  /\ \A f \in Fields : named[f] # Unset => written[f] = named[f]
  /\ \A f \in Fields : named[f] = Unset =>
       written[f] = Unset \/ (f \in RecordFields /\ written[f] = served[f])
  /\ ~reloads => \A f \in RecordFields : named[f] = Unset

LEMMA PatchTypes ==
  ASSUME NEW fields \in SUBSET Fields, NEW values \in SUBSET Levels,
         NEW patch \in Patches(fields, values) \cup Bodies(fields)
  PROVE  patch \in Change /\ \A f \in Fields \ fields : patch[f] = Unset
<1>1. CASE patch \in Patches(fields, values)
  <2>1. PICK some \in [fields -> values \cup {Unset}] :
          patch = [f \in Fields |-> IF f \in fields THEN some[f] ELSE Unset]
    BY <1>1 DEF Patches
  <2> QED
    BY <2>1 DEF Change
<1>2. CASE patch \in Bodies(fields)
  <2>1. PICK body \in Patches(fields, Offered) \cup {Nothing} :
          patch = [f \in Fields |-> IF f \in fields THEN Overlaid(Factory, body)[f] ELSE Unset]
    BY <1>2 DEF Bodies
  <2>2. Offered \subseteq Levels
    BY SettingsAssumption DEF Levels
  <2>3. body \in Change
    <3>1. CASE body \in Patches(fields, Offered)
      <4>1. PICK some \in [fields -> Offered \cup {Unset}] :
              body = [f \in Fields |-> IF f \in fields THEN some[f] ELSE Unset]
        BY <3>1 DEF Patches
      <4> QED
        BY <2>2, <4>1 DEF Change
    <3> QED
      BY <3>1, SettingsConstants
  <2>4. Overlaid(Factory, body) \in Document
    BY <2>3, SettingsConstants, OverlaidTypes
  <2> QED
    BY <2>1, <2>4 DEF Change, Document
<1> QED
  BY <1>1, <1>2

\* A handler whose setter writes what is named.
LEMMA EditFaithful ==
  ASSUME NEW a \in Editors, NEW fields \in SUBSET Fields, NEW values \in SUBSET Levels,
         NEW reloads \in BOOLEAN, NEW patches \in SUBSET (Patches(fields, values) \cup Bodies(fields)),
         Edit(a, patches, reloads), ~reloads => fields \cap RecordFields = {}
  PROVE  \E named, written \in Change, r \in BOOLEAN :
           Submit(a, named, written, r) /\ Faithful(named, written, r)
<1>1. PICK patch \in patches : Submit(a, patch, patch, reloads)
  BY DEF Edit
<1>2. patch \in Change /\ \A f \in Fields \ fields : patch[f] = Unset
  BY PatchTypes
<1>3. Faithful(patch, patch, reloads)
  BY <1>2, SettingsConstants DEF Faithful
<1> QED
  BY <1>1, <1>2, <1>3

LEMMA RecordFaithful ==
  ASSUME served \in Document, NEW a \in Editors, UpdateProviderRecord(a)
  PROVE  \E named, written \in Change, r \in BOOLEAN :
           Submit(a, named, written, r) /\ Faithful(named, written, r)
<1>1. PICK patch \in RecordPatches : Submit(a, patch, RecordWith(patch), TRUE)
  BY DEF UpdateProviderRecord
<1>o. {0, 1} \in SUBSET Levels /\ RecordFields \in SUBSET Fields
  BY SettingsConstants DEF Levels
<1>2. patch \in Change /\ \A f \in Fields \ RecordFields : patch[f] = Unset
  BY <1>o, PatchTypes DEF RecordPatches
<1>3. /\ Overlaid(served, patch) \in Document
      /\ \A f \in Fields : Overlaid(served, patch)[f] = IF patch[f] = Unset THEN served[f] ELSE patch[f]
  BY <1>2, OverlaidTypes
<1>4. /\ RecordWith(patch) \in Change
      /\ \A f \in Fields : RecordWith(patch)[f] =
           IF f \in RecordFields THEN Overlaid(served, patch)[f] ELSE Unset
  BY <1>3 DEF RecordWith, Change, Document
<1>5. Faithful(patch, RecordWith(patch), TRUE)
  BY <1>2, <1>3, <1>4 DEF Faithful
<1> QED
  BY <1>1, <1>2, <1>4, <1>5

LEMMA HandlersFaithful ==
  ASSUME served \in Document, NEW a \in Editors, Handlers(a)
  PROVE  \E named, written \in Change, r \in BOOLEAN :
           Submit(a, named, written, r) /\ Faithful(named, written, r)
<1> DEFINE Goal == \E named, written \in Change, r \in BOOLEAN :
                     Submit(a, named, written, r) /\ Faithful(named, written, r)
<1>o. Offered \in SUBSET Levels /\ {0, 1} \in SUBSET Levels /\ {1, 2} \in SUBSET Levels
  BY SettingsAssumption DEF Levels
<1>1. CASE UpdateProviderRecord(a)
  BY <1>1, RecordFaithful
<1>2. CASE UpdatePolicy(a)
  <2>1. PICK body \in PolicyBodies : Submit(a, body, body, TRUE)
    BY <1>2 DEF UpdatePolicy, Edit
  <2>2. PICK fields \in SUBSET Fields : body \in Bodies(fields)
    BY DEF PolicyBodies, Fields
  <2>3. body \in Change
    BY <1>o, <2>2, PatchTypes
  <2>4. Faithful(body, body, TRUE)
    BY <2>3 DEF Faithful
  <2> QED
    BY <2>1, <2>3, <2>4
<1>3. CASE UpdatePersistence(a)
  <2>1. {"backups", "interval"} \in SUBSET Fields
    BY DEF Fields
  <2> QED
    BY <1>3, <1>o, <2>1, EditFaithful DEF UpdatePersistence, PersistencePatches
<1>4. CASE UpdateTelemetry(a)
  <2>1. {"window"} \in SUBSET Fields
    BY DEF Fields
  <2> QED
    BY <1>4, <1>o, <2>1, EditFaithful DEF UpdateTelemetry, TelemetryPatches
<1>5. CASE UpdateDeep(a)
  <2>1. {"depth"} \in SUBSET Fields
    BY DEF Fields
  <2> QED
    BY <1>5, <1>o, <2>1, EditFaithful DEF UpdateDeep, DeepPatches
<1>6. CASE UpdateDeepExtractor(a)
  <2>1. {"output"} \in SUBSET Fields
    BY DEF Fields
  <2> QED
    BY <1>6, <1>o, <2>1, EditFaithful DEF UpdateDeepExtractor, ExtractorPatches
<1>7. CASE UpdateDeepRenderer(a)
  <2>1. {"renderer"} \in SUBSET Fields
    BY DEF Fields
  <2> QED
    BY <1>7, <1>o, <2>1, EditFaithful DEF UpdateDeepRenderer, RendererPatches
<1>8. CASE UpdateDataPolicy(a)
  <2>1. {"isolated"} \in SUBSET Fields
    BY DEF Fields
  <2> QED
    BY <1>8, <1>o, <2>1, EditFaithful DEF UpdateDataPolicy, DataPolicyPatches
<1>9. CASE UpdateServerPending(a)
  <2>1. {"bind"} \in SUBSET Fields /\ {"bind"} \cap RecordFields = {}
    BY DEF Fields, RecordFields
  <2> QED
    BY <1>9, <1>o, <2>1, EditFaithful DEF UpdateServerPending, ServerPatches
<1> QED
  BY <1>1, <1>2, <1>3, <1>4, <1>5, <1>6, <1>7, <1>8, <1>9 DEF Handlers
----------------------------------------------------------------------------
(* The steps, one lemma each.                                               *)

LEMMA PartySets ==
  /\ \A a \in Editors : a \in Parties /\ a \notin Listeners
  /\ \A t \in Listeners : t \in Parties /\ t \notin Editors
  /\ \A t \in Parties : t \in Editors \/ t \in Listeners
  BY SettingsAssumption DEF Parties

\* One party moves.
LEMMA OneMoves ==
  ASSUME SettingsTypes, NEW t \in Parties, NEW x \in Party, party' = [party EXCEPT ![t] = x]
  PROVE  /\ party' \in [Parties -> Party]
         /\ \A u \in Parties : party'[u] = IF u = t THEN x ELSE party[u]
  BY DEF SettingsTypes

LEMMA SubmitKeeps ==
  ASSUME KeptInv, NEW a \in Editors, NEW named \in Change, NEW written \in Change,
         NEW r \in BOOLEAN, Submit(a, named, written, r), Faithful(named, written, r)
  PROVE  KeptInv'
<1> DEFINE x == [pc |-> "writing", text |-> Stored(document, written), named |-> named, reloads |-> r]
<1> USE DEF KeptInv
<1>1. /\ ~locked /\ locked' = TRUE /\ document' = Factory
      /\ party' = [party EXCEPT ![a] = x]
      /\ promise' = [f \in Fields |-> IF named[f] = Unset THEN promise[f] ELSE Unset]
      /\ late' = late \cup Building /\ UNCHANGED <<served, astray>>
  BY DEF Submit
<1>2. /\ Stored(document, written) \in Document
      /\ \A f \in Fields : Stored(document, written)[f] =
           IF written[f] = Unset THEN document[f] ELSE written[f]
  BY OverlaidTypes DEF Stored, SettingsTypes
<1>3. x \in Party /\ x.pc = "writing" /\ x.named = named /\ x.reloads = r
      /\ x.text = Stored(document, written)
  BY <1>2 DEF Party, PCs
<1> HIDE DEF x
<1>4. /\ party' \in [Parties -> Party]
      /\ \A u \in Parties : party'[u] = IF u = a THEN x ELSE party[u]
  BY <1>1, <1>3, PartySets, OneMoves
<1>5. \A b \in Editors : party[b].pc = "idle"
  BY <1>1 DEF OneSection
<1>6. Building \subseteq Parties /\ Building \cap Editors = {}
  BY <1>5 DEF Building
<1>7. promise' \in Change /\ \A f \in Fields : promise'[f] = IF named[f] = Unset THEN promise[f] ELSE Unset
  BY <1>1 DEF SettingsTypes, Change
<1>8. SettingsTypes'
  BY <1>1, <1>4, <1>6, <1>7, SettingsConstants DEF SettingsTypes
<1>9. OneSection'
  BY <1>1, <1>3, <1>4, <1>5, PartySets DEF OneSection
<1>10. ListenersRead'
  BY <1>4, PartySets DEF ListenersRead
<1>11. FreshReads'
  <2>1. \A t \in Parties : party'[t].pc = "building" => t \in late'
    BY <1>1, <1>3, <1>4 DEF Building
  <2> QED
    BY <1>1, <1>6, <2>1 DEF FreshReads
<1>12. Carried'
  <2>1. Says(x.text, named)
    BY <1>2, <1>3 DEF Says, Faithful
  <2>2. ~r => \A f \in RecordFields : named[f] = Unset
    BY DEF Faithful
  <2> QED
    BY <1>3, <1>4, <1>5, <2>1, <2>2, PartySets DEF Carried
<1>13. PromisesKept'
  <2> SUFFICES ASSUME ~astray PROVE Says(x.text, promise')
    <3>1. \A b \in Writing' : b = a
      BY <1>4, <1>5, PartySets DEF Writing
    <3>2. a \in Writing'
      BY <1>3, <1>4, PartySets DEF Writing
    <3>3. party'[a] = x
      BY <1>4, PartySets
    <3> QED
      BY <1>1, <3>1, <3>2, <3>3 DEF PromisesKept
  <2>1. Writing = {} /\ Says(document, promise)
    BY <1>5 DEF Writing, PromisesKept
  <2>2. ASSUME NEW f \in Fields, promise'[f] # Unset PROVE x.text[f] = promise'[f]
    <3>1. named[f] = Unset /\ promise'[f] = promise[f] /\ promise[f] # Unset
      BY <1>7, <2>2
    <3>2. CASE written[f] = Unset
      BY <1>2, <1>3, <2>1, <3>1, <3>2 DEF Says
    <3>3. CASE f \in RecordFields /\ written[f] = served[f] /\ written[f] # Unset
      <4>1. served[f] = promise[f]
        BY <3>1, <3>3 DEF RecordsServed
      <4> QED
        BY <1>2, <1>3, <3>1, <3>3, <4>1
    <3> QED
      BY <3>1, <3>2, <3>3 DEF Faithful
  <2> QED
    BY <2>2 DEF Says
<1>14. RecordsServed'
  BY <1>1, <1>7, SettingsConstants DEF RecordsServed
<1> QED
  BY <1>8, <1>9, <1>10, <1>11, <1>12, <1>13, <1>14

LEMMA WriteKeeps ==
  ASSUME KeptInv, NEW a \in Editors, WriteText(a)
  PROVE  KeptInv'
<1> DEFINE x == [party[a] EXCEPT !.pc = "written"]
<1> USE DEF KeptInv
<1>1. /\ party[a].pc = "writing" /\ document' = party[a].text
      /\ party' = [party EXCEPT ![a] = x] /\ late' = late \cup Building
      /\ UNCHANGED <<served, locked, promise, astray>>
  BY DEF WriteText
<1>2. party[a] \in Party /\ a \in Parties
  BY PartySets DEF SettingsTypes
<1>3. /\ x \in Party /\ x.pc = "written" /\ x.named = party[a].named
      /\ x.reloads = party[a].reloads
  BY <1>2 DEF Party, PCs
<1> HIDE DEF x
<1>4. /\ party' \in [Parties -> Party]
      /\ \A u \in Parties : party'[u] = IF u = a THEN x ELSE party[u]
  BY <1>1, <1>2, <1>3, OneMoves
<1>5. \A b \in Editors : b # a => party[b].pc = "idle"
  BY <1>1 DEF OneSection
<1>6. Building \subseteq Parties /\ Building \cap Editors = {}
  BY <1>1, <1>5 DEF Building
<1>7. SettingsTypes'
  BY <1>1, <1>2, <1>4, <1>6 DEF SettingsTypes, Party
<1>8. OneSection'
  BY <1>1, <1>3, <1>4, <1>5, PartySets DEF OneSection
<1>9. ListenersRead'
  BY <1>4, PartySets DEF ListenersRead
<1>10. FreshReads'
  <2>1. \A t \in Parties : party'[t].pc = "building" => t \in late'
    BY <1>1, <1>3, <1>4 DEF Building
  <2> QED
    BY <1>1, <1>6, <2>1 DEF FreshReads
<1>11. Carried'
  <2>1. Says(document', party[a].named)
    BY <1>1 DEF Carried
  <2> QED
    BY <1>1, <1>3, <1>4, <1>5, <2>1, PartySets DEF Carried
<1>12. PromisesKept'
  <2>1. a \in Writing /\ Writing' = {}
    BY <1>1, <1>3, <1>4, <1>5, PartySets DEF Writing
  <2> QED
    BY <1>1, <2>1 DEF PromisesKept
<1>13. RecordsServed'
  BY <1>1 DEF RecordsServed
<1> QED
  BY <1>7, <1>8, <1>9, <1>10, <1>11, <1>12, <1>13

\* A party rests again, and an admin request gives the lock back: what does not
\* depend on the promises and on what is served.
LEMMA RestKeeps ==
  ASSUME KeptInv, NEW t \in Parties, party' = [party EXCEPT ![t] = Resting], Free(t),
         t \in Editors => party[t].pc # "idle", UNCHANGED document, late' \in {late, late \ {t}}, served' \in Document,
         promise' \in Change, astray' \in BOOLEAN
  PROVE  /\ SettingsTypes' /\ OneSection' /\ ListenersRead' /\ FreshReads' /\ Carried'
         /\ Writing' = Writing \ {t}
         /\ \A u \in Writing' : party'[u] = party[u]
<1> USE DEF KeptInv
<1>1. /\ party' \in [Parties -> Party]
      /\ \A u \in Parties : party'[u] = IF u = t THEN Resting ELSE party[u]
  BY OneMoves, SettingsConstants
<1>2. locked' \in BOOLEAN
  BY DEF Free, SettingsTypes
<1>3. SettingsTypes'
  BY <1>1, <1>2 DEF SettingsTypes
<1>4. OneSection'
  <2>1. CASE t \in Editors
    <3>1. \A b \in Editors : party'[b].pc = "idle"
      BY <1>1, <2>1, SettingsConstants, PartySets DEF OneSection
    <3> QED
      BY <3>1 DEF OneSection
  <2>2. CASE t \notin Editors
    BY <1>1, <2>2, SettingsConstants, PartySets DEF OneSection, Free
  <2> QED
    BY <2>1, <2>2
<1>5. ListenersRead'
  BY <1>1, SettingsConstants, PartySets DEF ListenersRead
<1>6. FreshReads'
  BY <1>1, SettingsConstants DEF FreshReads
<1>7. Carried'
  BY <1>1, SettingsConstants, PartySets DEF Carried
<1>8. Writing' = Writing \ {t} /\ \A u \in Writing' : party'[u] = party[u]
  BY <1>1, SettingsConstants, PartySets DEF Writing
<1> QED
  BY <1>3, <1>4, <1>5, <1>6, <1>7, <1>8

LEMMA FailKeeps ==
  ASSUME KeptInv, NEW a \in Editors, WriteFails(a)
  PROVE  KeptInv'
<1>1. /\ a \in Parties /\ promise' = Nothing /\ promise' \in Change
      /\ served' \in Document /\ astray' \in BOOLEAN
  BY PartySets, SettingsConstants DEF WriteFails, KeptInv, SettingsTypes
<1>2. /\ SettingsTypes' /\ OneSection' /\ ListenersRead' /\ FreshReads' /\ Carried'
  BY <1>1, RestKeeps DEF WriteFails
<1>3. PromisesKept' /\ RecordsServed'
  BY <1>1, SettingsConstants DEF PromisesKept, RecordsServed, Says
<1> QED
  BY <1>2, <1>3 DEF KeptInv

LEMMA PendingKeeps ==
  ASSUME KeptInv, NEW a \in Editors, ReportPending(a)
  PROVE  KeptInv'
<1> USE DEF KeptInv
<1>1. /\ a \in Parties /\ party[a] \in Party /\ party[a].named \in Change
      /\ promise \in Change /\ served \in Document
  BY PartySets DEF SettingsTypes, Party
<1>2. /\ promise' \in Change
      /\ \A f \in Fields : promise'[f] = IF party[a].named[f] = Unset THEN promise[f] ELSE party[a].named[f]
  BY <1>1, OverlaidTypes DEF ReportPending
<1>3. /\ SettingsTypes' /\ OneSection' /\ ListenersRead' /\ FreshReads' /\ Carried'
      /\ Writing' = Writing \ {a}
  BY <1>1, <1>2, RestKeeps DEF ReportPending, SettingsTypes
<1>4. Writing = {} /\ Says(document, party[a].named)
  BY DEF ReportPending, Writing, OneSection, Carried
<1>5. PromisesKept'
  BY <1>2, <1>3, <1>4 DEF PromisesKept, Says, ReportPending
<1>6. RecordsServed'
  <2>1. \A f \in RecordFields : party[a].named[f] = Unset
    BY DEF Carried, ReportPending
  <2> QED
    BY <1>2, <2>1, SettingsConstants DEF RecordsServed, ReportPending
<1> QED
  BY <1>3, <1>5, <1>6

LEMMA LoadKeeps ==
  ASSUME KeptInv, NEW t \in Parties, LoadFile(t)
  PROVE  KeptInv'
<1> USE DEF KeptInv
<1>1. /\ t \in Editors => party[t].pc = "written"
      /\ t \in Listeners => party[t].pc = "idle"
      /\ late' = late \ {t} /\ UNCHANGED <<document, served, promise, astray>>
  BY PartySets DEF LoadFile
<1>2. CASE ~Acceptable(document)
  <2>1. /\ SettingsTypes' /\ OneSection' /\ ListenersRead' /\ FreshReads' /\ Carried'
        /\ Writing' = Writing \ {t} /\ \A u \in Writing' : party'[u] = party[u]
    BY <1>1, <1>2, RestKeeps DEF LoadFile, SettingsTypes
  <2>2. t \notin Writing
    BY <1>1 DEF Writing
  <2>3. PromisesKept'
    BY <1>1, <2>1, <2>2 DEF PromisesKept
  <2> QED
    BY <1>1, <2>1, <2>3 DEF RecordsServed
<1>3. CASE Acceptable(document)
  <2> DEFINE x == [party[t] EXCEPT !.pc = "building", !.text = document]
  <2>1. party' = [party EXCEPT ![t] = x] /\ UNCHANGED locked
    BY <1>3 DEF LoadFile
  <2>2. party[t] \in Party /\ document \in Document
    BY DEF SettingsTypes
  <2>3. /\ x \in Party /\ x.pc = "building" /\ x.named = party[t].named
        /\ x.reloads = party[t].reloads /\ x.text = document
    BY <2>2 DEF Party, PCs
  <2> HIDE DEF x
  <2>4. /\ party' \in [Parties -> Party]
        /\ \A u \in Parties : party'[u] = IF u = t THEN x ELSE party[u]
    BY <2>1, <2>3, OneMoves
  <2>5. SettingsTypes'
    BY <1>1, <2>1, <2>4 DEF SettingsTypes
  <2>6. OneSection'
    BY <1>1, <2>1, <2>3, <2>4, PartySets DEF OneSection
  <2>7. ListenersRead'
    BY <2>3, <2>4, PartySets DEF ListenersRead
  <2>8. FreshReads'
    BY <1>1, <2>3, <2>4 DEF FreshReads
  <2>9. Carried'
    BY <1>1, <2>3, <2>4, PartySets DEF Carried
  <2>10. Writing' = Writing /\ \A u \in Writing : party'[u] = party[u]
    BY <1>1, <2>3, <2>4, PartySets DEF Writing
  <2>11. PromisesKept'
    BY <1>1, <2>10 DEF PromisesKept
  <2> QED
    BY <1>1, <2>5, <2>6, <2>7, <2>8, <2>9, <2>11 DEF RecordsServed
<1> QED
  BY <1>2, <1>3

LEMMA GiveUpKeeps ==
  ASSUME KeptInv, NEW t \in Parties, GiveUp(t)
  PROVE  KeptInv'
<1> USE DEF KeptInv
<1>1. /\ SettingsTypes' /\ OneSection' /\ ListenersRead' /\ FreshReads' /\ Carried'
      /\ Writing' = Writing \ {t} /\ \A u \in Writing' : party'[u] = party[u]
  BY RestKeeps DEF GiveUp, SettingsTypes
<1>2. t \notin Writing
  BY DEF Writing, GiveUp
<1>3. PromisesKept'
  BY <1>1, <1>2 DEF PromisesKept, GiveUp
<1> QED
  BY <1>1, <1>3 DEF RecordsServed, GiveUp

LEMMA InstallKeeps ==
  ASSUME KeptInv, NEW t \in Parties, Install(t)
  PROVE  KeptInv'
<1> USE DEF KeptInv
<1>1. /\ party[t] \in Party /\ party[t].named \in Change /\ party[t].text \in Document
      /\ promise \in Change
  BY DEF SettingsTypes, Party
<1>2. /\ party[t].pc = "building" /\ served' = party[t].text
      /\ astray' = (astray \/ t \in late \/ Writing # {}) /\ UNCHANGED <<document, late>>
  BY DEF Install
<1>3. /\ promise' \in Change
      /\ \A f \in Fields : promise'[f] = IF party[t].named[f] = Unset THEN promise[f] ELSE party[t].named[f]
  BY <1>1, OverlaidTypes DEF Install
<1>4. /\ SettingsTypes' /\ OneSection' /\ ListenersRead' /\ FreshReads' /\ Carried'
      /\ Writing' = Writing \ {t}
  BY <1>1, <1>2, <1>3, RestKeeps DEF Install
<1>5. Says(document, party[t].named)
  BY <1>2, PartySets, SettingsConstants DEF Carried, ListenersRead, Says
<1>6. CASE astray'
  BY <1>4, <1>6 DEF PromisesKept, RecordsServed
<1>7. CASE ~astray'
  <2>1. ~astray /\ Writing = {} /\ t \notin late
    BY <1>2, <1>7
  <2>2. Says(document, promise) /\ served' = document
    BY <1>2, <2>1 DEF PromisesKept, FreshReads
  <2>3. Says(document, promise')
    BY <1>3, <1>5, <2>2 DEF Says
  <2> QED
    BY <1>2, <1>4, <2>1, <2>2, <2>3, SettingsConstants DEF PromisesKept, RecordsServed, Says
<1> QED
  BY <1>6, <1>7

LEMMA StartKeeps ==
  ASSUME KeptInv, StartAgain
  PROVE  KeptInv'
<1> USE DEF KeptInv
<1>1. /\ served' = document /\ UNCHANGED <<document, astray>> /\ late' = {} /\ locked' = FALSE
      /\ promise' = IF Writing = {} THEN promise ELSE Nothing
      /\ \A t \in Parties : party'[t] = Resting
      /\ party' \in [Parties -> Party]
  BY SettingsConstants DEF StartAgain
<1>2. SettingsTypes'
  BY <1>1, SettingsConstants DEF SettingsTypes
<1>3. OneSection' /\ ListenersRead' /\ FreshReads' /\ Carried'
  BY <1>1, SettingsConstants, PartySets DEF OneSection, ListenersRead, FreshReads, Carried
<1>4. Writing' = {}
  BY <1>1, SettingsConstants, PartySets DEF Writing
<1>5. ~astray => Says(document, promise')
  BY <1>1, SettingsConstants DEF PromisesKept, Says
<1> QED
  BY <1>1, <1>2, <1>3, <1>4, <1>5, SettingsConstants DEF PromisesKept, RecordsServed, Says

LEMMA SettingsStep == KeptInv /\ [SettingsNext]_settingsVars => KeptInv'
<1> SUFFICES ASSUME KeptInv, [SettingsNext]_settingsVars PROVE KeptInv'
  OBVIOUS
<1>1. ASSUME NEW a \in Editors, Handlers(a) PROVE KeptInv'
  <2>1. served \in Document
    BY DEF KeptInv, SettingsTypes
  <2>2. PICK named, written \in Change, r \in BOOLEAN :
          Submit(a, named, written, r) /\ Faithful(named, written, r)
    BY <1>1, <2>1, HandlersFaithful
  <2> QED
    BY <2>2, SubmitKeeps
<1>2. CASE UNCHANGED settingsVars
  BY <1>2 DEF settingsVars, KeptInv, SettingsTypes, OneSection, ListenersRead, FreshReads, Carried,
              PromisesKept, RecordsServed, Writing
<1> QED
  BY <1>1, <1>2, WriteKeeps, FailKeeps, PendingKeeps, LoadKeeps, GiveUpKeeps, InstallKeeps,
     StartKeeps DEF SettingsNext

LEMMA SettingsStart == SettingsInit => KeptInv
<1> SUFFICES ASSUME SettingsInit PROVE KeptInv
  OBVIOUS
<1>1. \A t \in Parties : party[t] = Resting
  BY DEF SettingsInit
<1>2. SettingsTypes
  BY SettingsConstants DEF SettingsInit, SettingsTypes
<1>3. OneSection /\ ListenersRead /\ FreshReads /\ Carried
  BY <1>1, SettingsConstants, PartySets
  DEF SettingsInit, OneSection, ListenersRead, FreshReads, Carried
<1>4. PromisesKept /\ RecordsServed
  BY SettingsConstants DEF SettingsInit, PromisesKept, RecordsServed, Says
<1> QED
  BY <1>2, <1>3, <1>4 DEF KeptInv

\* A setting whose change was acknowledged stays in the file until it is
\* changed again or its policy is replaced, for any number of administrators, reloads and changes, unless
\* a reload without the lock installed an older file or a write failed.
THEOREM AcknowledgedSettingsStay == SettingsSpec => []SettingsKept
<1>1. KeptInv => SettingsKept
  <2> SUFFICES ASSUME KeptInv, ~astray PROVE Says(Text, promise)
    BY DEF SettingsKept, Says
  <2>1. CASE Writing = {}
    BY <2>1 DEF KeptInv, PromisesKept, Text
  <2>2. CASE Writing # {}
    <3>1. (CHOOSE a \in Writing : TRUE) \in Writing
      BY <2>2
    <3> QED
      BY <2>2, <3>1 DEF KeptInv, PromisesKept, Text
  <2> QED
    BY <2>1, <2>2
<1> QED
  BY <1>1, SettingsStart, SettingsStep, PTL DEF SettingsSpec

----------------------------------------------------------------------------
(***************************************************************************)
(* Entitlement and the audit counter, for any callers, configurations and  *)
(* cap.  What has to be added to make them inductive: credentials are      *)
(* lists, so that the last match exists; and nobody is dropping an event   *)
(* of a service that has not been built, whose trail a reload resets.      *)
(***************************************************************************)

Dropping(s) == {c \in Callers : visit[c].stage = "dropping" /\ visit[c].service = s}

Lists == {ResolveClients(config) : config \in ServerConfigs}

Trails ==
  [storage : BOOLEAN, inFlight : Int, inserting : Nat, closing : Nat,
   written : Nat, failed : Nat, dropped : Nat]

AccessTypes ==
  /\ clients \in Lists /\ pending \in Lists
  /\ service \in 1 .. MaxServices
  /\ trail \in [1 .. MaxServices -> Trails]
  /\ visit = [c \in Callers |-> visit[c]]
  /\ \A c \in Callers : visit[c].stage = "dropping" => visit[c].service \in 1 .. service

Entitlement == \A c \in Callers : visit[c].stage = "running" => Entitled(visit[c])

Balance ==
  \A s \in 1 .. MaxServices :
    /\ trail[s].inFlight = trail[s].inserting + trail[s].closing + Cardinality(Dropping(s))
    /\ trail[s].inserting + trail[s].closing <= MaxInFlight

AccessInv == AccessTypes /\ Entitlement /\ Balance

----------------------------------------------------------------------------
(* Lists and the last match.                                                *)

Less == {ss \in Nat \X Nat : ss[1] < ss[2]}

LEMMA LessWellFounded == IsWellFoundedOn(Less, Nat)
<1>1. Less = OpToRel(<, Nat)
  BY DEF Less, OpToRel
<1> QED
  BY <1>1, NatLessThanWellFounded, Zenon

\* A set of numbers has a first one.
LEMMA FirstPosition ==
  ASSUME NEW T \in SUBSET Nat, T # {}
  PROVE  /\ Min(T) \in T
         /\ \A y \in T : Min(T) <= y
<1>1. PICK x \in T : \A y \in T : ~(<<y, x>> \in Less)
  BY LessWellFounded, WFMin, Zenon
<1>2. ASSUME NEW y \in T PROVE x <= y
  <2>1. x \in Nat /\ y \in Nat /\ ~(<<y, x>> \in Less)
    BY <1>1
  <2>2. y < x => <<y, x>> \in Less
    BY <2>1 DEF Less
  <2> QED
    BY <2>1, <2>2
<1> QED
  BY <1>2 DEF Min

\* A set of positions of a list has a last one.
LEMMA LastPosition ==
  ASSUME NEW n \in Nat, NEW T \in SUBSET (1 .. n), T # {}
  PROVE  Max(T) \in T
<1> DEFINE D == {n - x : x \in T}
<1>1. D \in SUBSET Nat /\ D # {}
  <2>1. \A x \in T : n - x \in Nat
    OBVIOUS
  <2> QED
    BY <2>1
<1>2. Min(D) \in D /\ \A y \in D : Min(D) <= y
  <2> HIDE DEF D
  <2> QED
    BY <1>1, FirstPosition
<1>3. PICK x \in T : Min(D) = n - x
  BY <1>2
<1>4. \A y \in T : x >= y
  <2> SUFFICES ASSUME NEW y \in T PROVE x >= y
    OBVIOUS
  <2>1. n - x <= n - y
    BY <1>2, <1>3
  <2>2. x \in Int /\ y \in Int
    OBVIOUS
  <2> QED
    BY <2>1, <2>2
<1> QED
  BY <1>4 DEF Max

LEMMA ListPositions ==
  ASSUME NEW accepted \in Lists
  PROVE  Len(accepted) \in Nat /\ DOMAIN accepted = 1 .. Len(accepted)
BY ClientsAssumption DEF Lists

\* A request that a check refuses is not allowed, so what is allowed was authorised.
LEMMA AllowedIsAuthorized ==
  ASSUME NEW accepted, NEW ask, NEW day, Checked(accepted, ask, day).verdict = "allowed"
  PROVE  Checked(accepted, ask, day) = Authorize(accepted, ask, day)
<1> DEFINE failing == {i \in DOMAIN EdgeFlaws :
                         /\ EdgeFlaws[i] \in ask.flaws
                         /\ ~(EdgeFlaws[i] = "rate_limited" /\ ask.method = "OPTIONS")}
<1>1. CASE failing # {}
  <2>1. failing \in SUBSET Nat
    BY DEF EdgeFlaws
  <2>2. Min(failing) \in failing
    BY <1>1, <2>1, FirstPosition
  <2>3. Min(failing) \in 1 .. 5
    BY <2>2 DEF EdgeFlaws
  <2>4. EdgeFlaws[Min(failing)] # "allowed"
    BY <2>3 DEF EdgeFlaws
  <2> QED
    BY <1>1, <2>4 DEF Checked, Refused
<1>2. CASE failing = {}
  BY <1>2 DEF Checked
<1> QED
  BY <1>1, <1>2

\* What the checks let through to a handler is entitled to it.
LEMMA AdmittedIsEntitled ==
  ASSUME clients \in Lists, NEW ask \in Asks,
         NEW v, v = Admitted(ask, Checked(clients, ask, today)), v.stage = "running"
  PROVE  Entitled(v)
<1> DEFINE outcome == Checked(clients, ask, today)
           matching == {i \in DOMAIN clients : clients[i].token = ask.token}
           client == clients[Max(matching)]
           scope == RequiredScope(ask.method, ask.route)
<1>1. outcome.verdict = "allowed" /\ ask.method # "OPTIONS"
      /\ (ask.route = "mcp" => ask.tool \in outcome.tools)
  BY DEF Admitted, NoVisit
<1>2. v = [stage |-> "running", ask |-> [ask EXCEPT !.flaws = {}], accepted |-> clients,
           day |-> today]
  BY <1>1 DEF Admitted
<1>3. /\ v.ask.method = ask.method /\ v.ask.route = ask.route
      /\ v.ask.token = ask.token /\ v.ask.tool = ask.tool
      /\ v.accepted = clients /\ v.day = today
  BY <1>2 DEF Asks
<1>4. outcome = Authorize(clients, ask, today)
  BY <1>1, AllowedIsAuthorized
<1>5. CASE scope = "none"
  BY <1>3, <1>5 DEF RequiredScope, Entitled
<1>6. CASE clients = <<>>
  BY <1>3, <1>6 DEF Entitled
<1>7. CASE scope # "none" /\ clients # <<>>
  <2> HIDE DEF matching, client, scope, outcome
  <2>a. /\ Refused("unauthorized").verdict # "allowed"
        /\ Refused("credential_expired").verdict # "allowed"
        /\ Refused("scope_denied").verdict # "allowed"
    BY DEF Refused
  <2>b. outcome = IF matching = {} THEN Refused("unauthorized")
                  ELSE IF ~Unexpired(client, today) THEN Refused("credential_expired")
                  ELSE IF scope \notin client.scopes THEN Refused("scope_denied")
                  ELSE [verdict |-> "allowed", tools |-> client.tools]
    BY <1>1, <1>4, <1>7 DEF Authorize, matching, client, scope
  <2>1. /\ matching # {} /\ Unexpired(client, today) /\ scope \in client.scopes
        /\ outcome.tools = client.tools
    BY <1>1, <2>a, <2>b
  <2> USE DEF matching, client, scope, outcome
  <2>2. Max(matching) \in matching
    BY <2>1, ListPositions, LastPosition
  <2> QED
    BY <1>1, <1>3, <2>1, <2>2 DEF Entitled
<1> QED
  BY <1>5, <1>6, <1>7
----------------------------------------------------------------------------
(* The steps.                                                               *)

LEMMA InitialAccess == AccessInit => AccessInv
<1> SUFFICES ASSUME AccessInit PROVE AccessInv
  OBVIOUS
<1>1. \A c \in Callers : visit[c].stage = "idle"
  BY DEF AccessInit, NoVisit
<1>2. \A s \in 1 .. MaxServices : Dropping(s) = {}
  BY <1>1 DEF Dropping
<1>3. AccessTypes
  BY <1>1, AccessAssumption DEF AccessInit, AccessTypes, Lists, Trails, NewTrail
<1>4. ASSUME NEW s \in 1 .. MaxServices
      PROVE  /\ trail[s].inFlight = trail[s].inserting + trail[s].closing + Cardinality(Dropping(s))
             /\ trail[s].inserting + trail[s].closing <= MaxInFlight
  <2>1. trail[s].inFlight = 0 /\ trail[s].inserting = 0 /\ trail[s].closing = 0
    BY DEF AccessInit, NewTrail
  <2>2. Cardinality(Dropping(s)) = 0
    BY <1>2, FS_EmptySet
  <2> QED
    BY <2>1, <2>2, AccessAssumption
<1> QED
  BY <1>1, <1>3, <1>4 DEF AccessInv, Entitlement, Balance

LEMMA DroppingFinite ==
  ASSUME NEW s
  PROVE  IsFiniteSet(Dropping(s)) /\ Cardinality(Dropping(s)) \in Nat
<1>1. Dropping(s) \in SUBSET Callers
  BY DEF Dropping
<1> QED
  BY <1>1, FS_Subset, FS_CardinalityType, AccessAssumption

\* A request moves between stages other than dropping.
LEMMA OneVisit ==
  ASSUME AccessInv, NEW c \in Callers, visit[c].stage # "dropping", NEW v,
         visit' = [visit EXCEPT ![c] = v], v.stage # "dropping",
         v.stage = "running" => Entitled(v),
         UNCHANGED <<clients, pending, service>>
  PROVE  /\ Entitlement'
         /\ \A s \in 1 .. MaxServices : Dropping(s)' = Dropping(s)
         /\ trail' \in [1 .. MaxServices -> Trails] => AccessTypes'
<1>1. \A d \in Callers : visit'[d] = IF d = c THEN v ELSE visit[d]
  BY DEF AccessInv, AccessTypes
<1>2. visit' = [d \in Callers |-> visit'[d]]
  BY DEF AccessInv, AccessTypes
<1>3. Entitlement'
  BY <1>1 DEF AccessInv, Entitlement, Entitled
<1>4. \A s \in 1 .. MaxServices : Dropping(s)' = Dropping(s)
  BY <1>1 DEF Dropping
<1> QED
  BY <1>1, <1>2, <1>3, <1>4 DEF AccessInv, AccessTypes

\* Nothing about requests, trails or services changes.
LEMMA SameTrail ==
  ASSUME Balance, trail' = trail, \A s \in 1 .. MaxServices : Dropping(s)' = Dropping(s)
  PROVE  Balance'
BY DEF Balance

\* What each operation does to a trail.
LEMMA TakenTrail ==
  ASSUME NEW t \in Trails, NEW full \in BOOLEAN
  PROVE  /\ Taken(t, full) \in Trails
         /\ Taken(t, full).inFlight = t.inFlight + 1
         /\ Taken(t, full).inserting = IF full THEN t.inserting ELSE t.inserting + 1
         /\ Taken(t, full).closing = t.closing
<1> DEFINE u == [t EXCEPT !.inFlight = @ + 1]
           n == IF full THEN t.inserting ELSE t.inserting + 1
<1>1. u \in Trails /\ n \in Nat /\ u.inserting = t.inserting
  BY DEF Trails
<1>2. Taken(t, full) = [u EXCEPT !.inserting = n]
  BY DEF Taken
<1>3. [u EXCEPT !.inserting = n] \in Trails
  <2> HIDE DEF u, n
  <2> QED
    BY <1>1 DEF Trails
<1> QED
  BY <1>2, <1>3 DEF Taken, Trails

LEMMA GivenBackTrail ==
  ASSUME NEW t \in Trails
  PROVE  /\ GivenBack(t) \in Trails /\ GivenBack(t).inFlight = t.inFlight - 1
         /\ GivenBack(t).inserting = t.inserting /\ GivenBack(t).closing = t.closing
<1> DEFINE u == [t EXCEPT !.inFlight = @ - 1]
           n == t.dropped + 1
<1>1. u \in Trails /\ n \in Nat
  BY DEF Trails
<1>2. [u EXCEPT !.dropped = n] \in Trails
  <2> HIDE DEF u, n
  <2> QED
    BY <1>1 DEF Trails
<1> QED
  BY <1>2 DEF GivenBack, Trails

LEMMA SettledTrail ==
  ASSUME NEW t \in Trails, NEW ok \in BOOLEAN, t.inserting > 0
  PROVE  /\ Settled(t, ok) \in Trails /\ Settled(t, ok).inFlight = t.inFlight
         /\ Settled(t, ok).inserting = t.inserting - 1
         /\ Settled(t, ok).closing = t.closing + 1
<1> DEFINE a == t.inserting - 1
           b == t.closing + 1
           w == IF ok THEN t.written + 1 ELSE t.written
           f == IF ok THEN t.failed ELSE t.failed + 1
           u1 == [t EXCEPT !.inserting = a]
           u2 == [u1 EXCEPT !.closing = b]
           u3 == [u2 EXCEPT !.written = w]
<1>1. a \in Nat /\ b \in Nat /\ w \in Nat /\ f \in Nat
  BY DEF Trails
<1>2. Settled(t, ok) = [u3 EXCEPT !.failed = f]
  BY DEF Settled
<1> HIDE DEF a, b, w, f
<1>3. u1 \in Trails
  BY <1>1 DEF Trails
<1>4. u2 \in Trails
  <2> HIDE DEF u1
  <2> QED
    BY <1>1, <1>3 DEF Trails
<1>5. u3 \in Trails
  <2> HIDE DEF u2
  <2> QED
    BY <1>1, <1>4 DEF Trails
<1>6. [u3 EXCEPT !.failed = f] \in Trails
  <2> HIDE DEF u3
  <2> QED
    BY <1>1, <1>5 DEF Trails
<1> QED
  BY <1>2, <1>6 DEF Settled, Trails

LEMMA ClosedTrail ==
  ASSUME NEW t \in Trails, t.closing > 0
  PROVE  /\ Closed(t) \in Trails /\ Closed(t).inFlight = t.inFlight - 1
         /\ Closed(t).inserting = t.inserting /\ Closed(t).closing = t.closing - 1
<1> DEFINE u == [t EXCEPT !.inFlight = @ - 1]
           n == t.closing - 1
<1>1. u \in Trails /\ n \in Nat
  BY DEF Trails
<1>2. [u EXCEPT !.closing = n] \in Trails
  <2> HIDE DEF u, n
  <2> QED
    BY <1>1 DEF Trails
<1> QED
  BY <1>2 DEF Closed, Trails

\* One trail changes and keeps its account.
LEMMA OneTrail ==
  ASSUME AccessInv, NEW s \in 1 .. MaxServices, NEW r \in Trails,
         trail' = [trail EXCEPT ![s] = r],
         \A t \in 1 .. MaxServices : t # s => Dropping(t)' = Dropping(t),
         r.inFlight = r.inserting + r.closing + Cardinality(Dropping(s)'),
         r.inserting + r.closing <= MaxInFlight
  PROVE  trail' \in [1 .. MaxServices -> Trails] /\ Balance'
<1>1. \A t \in 1 .. MaxServices : trail'[t] = IF t = s THEN r ELSE trail[t]
  BY DEF AccessInv, AccessTypes
<1>2. trail' \in [1 .. MaxServices -> Trails]
  BY DEF AccessInv, AccessTypes
<1>3. ASSUME NEW t \in 1 .. MaxServices
      PROVE  /\ trail'[t].inFlight
                  = trail'[t].inserting + trail'[t].closing + Cardinality(Dropping(t)')
             /\ trail'[t].inserting + trail'[t].closing <= MaxInFlight
  <2>1. CASE t = s
    BY <1>1, <2>1
  <2>2. CASE t # s
    <3>1. Cardinality(Dropping(t)') = Cardinality(Dropping(t))
      BY <2>2
    <3> QED
      BY <1>1, <2>2, <3>1 DEF AccessInv, Balance
  <2> QED
    BY <2>1, <2>2
<1> QED
  BY <1>2, <1>3 DEF Balance

\* The account of one trail before a step.
LEMMA Account ==
  ASSUME AccessInv, NEW s \in 1 .. MaxServices
  PROVE  /\ trail[s] \in Trails
         /\ trail[s].inFlight \in Int /\ trail[s].inserting \in Nat /\ trail[s].closing \in Nat
         /\ trail[s].inFlight = trail[s].inserting + trail[s].closing + Cardinality(Dropping(s))
         /\ trail[s].inserting + trail[s].closing <= MaxInFlight
         /\ Cardinality(Dropping(s)) \in Nat /\ MaxInFlight \in Nat \ {0}
BY DroppingFinite, AccessAssumption DEF AccessInv, AccessTypes, Trails, Balance

LEMMA ReceiveStep ==
  ASSUME AccessInv, NEW c \in Callers, Receive(c)
  PROVE  AccessInv'
<1>1. PICK ask \in Asks : visit' = [visit EXCEPT ![c] = Admitted(ask, Checked(clients, ask, today))]
  BY DEF Receive
<1> DEFINE v == Admitted(ask, Checked(clients, ask, today))
<1>2. v.stage # "dropping"
  BY DEF Admitted, NoVisit
<1>3. v.stage = "running" => Entitled(v)
  <2> HIDE DEF v
  <2>1. clients \in Lists
    BY DEF AccessInv, AccessTypes
  <2> QED
    BY <2>1, AdmittedIsEntitled DEF v
<1>4. visit[c].stage # "dropping"
  BY DEF Receive
<1> HIDE DEF v
<1>5. Entitlement' /\ AccessTypes' /\ \A s \in 1 .. MaxServices : Dropping(s)' = Dropping(s)
  BY <1>1, <1>2, <1>3, <1>4, OneVisit DEF Receive, AccessInv, AccessTypes, v
<1> QED
  BY <1>5, SameTrail DEF AccessInv, Receive

LEMMA EndStep ==
  ASSUME AccessInv, NEW c \in Callers, Answered(c) \/ TimesOut(c)
  PROVE  AccessInv'
<1>1. PICK v \in {NoVisit, [stage |-> "refused"]} : visit' = [visit EXCEPT ![c] = v]
  BY DEF Answered, TimesOut
<1>2. v.stage \notin {"dropping", "running"} /\ visit[c].stage # "dropping"
  BY DEF NoVisit, Answered, TimesOut
<1>3. Entitlement' /\ AccessTypes' /\ \A s \in 1 .. MaxServices : Dropping(s)' = Dropping(s)
  BY <1>1, <1>2, OneVisit DEF Answered, TimesOut, AccessInv, AccessTypes
<1> QED
  BY <1>3, SameTrail DEF AccessInv, Answered, TimesOut

\* A refusal takes a place and, when there was none, is about to give it back.
LEMMA RecordStep ==
  ASSUME AccessInv, NEW c \in Callers, Record(c)
  PROVE  AccessInv'
<1> DEFINE s == service
<1>1. visit[c].stage = "refused" /\ UNCHANGED <<clients, pending, service>> /\ s \in 1 .. MaxServices
  BY DEF Record, AccessInv, AccessTypes
<1>2. NoVisit.stage \notin {"dropping", "running"}
  BY DEF NoVisit
<1>6. trail[s] \in Trails /\ trail[s].inFlight \in Int /\ MaxInFlight \in Int
  BY <1>1, Account
<1>3. CASE ~trail[s].storage
  <2>1. trail' = trail /\ visit' = [visit EXCEPT ![c] = NoVisit]
    BY <1>3 DEF Record
  <2>2. Entitlement' /\ AccessTypes' /\ \A t \in 1 .. MaxServices : Dropping(t)' = Dropping(t)
    BY <1>1, <1>2, <2>1, OneVisit DEF AccessInv, AccessTypes
  <2> QED
    BY <2>1, <2>2, SameTrail DEF AccessInv
<1>4. CASE trail[s].storage /\ trail[s].inFlight < MaxInFlight
  <2> DEFINE r == Taken(trail[s], FALSE)
  <2>1. trail' = [trail EXCEPT ![s] = r] /\ visit' = [visit EXCEPT ![c] = NoVisit]
    <3>1. (trail[s].inFlight >= MaxInFlight) = FALSE
      BY <1>4, <1>6
    <3> QED
      BY <1>4, <3>1 DEF Record
  <2>2. /\ r \in Trails /\ r.inFlight = trail[s].inFlight + 1
        /\ r.inserting = trail[s].inserting + 1 /\ r.closing = trail[s].closing
    BY <1>6, TakenTrail
  <2> HIDE DEF r
  <2>3. trail' \in [1 .. MaxServices -> Trails]
    BY <2>1, <2>2 DEF AccessInv, AccessTypes
  <2>4. Entitlement' /\ AccessTypes' /\ \A t \in 1 .. MaxServices : Dropping(t)' = Dropping(t)
    BY <1>1, <1>2, <2>1, <2>3, OneVisit
  <2>5. /\ r.inFlight = r.inserting + r.closing + Cardinality(Dropping(s)')
        /\ r.inserting + r.closing <= MaxInFlight
    BY <1>1, <1>4, <2>2, <2>4, Account
  <2>6. Balance'
    BY <1>1, <2>1, <2>2, <2>4, <2>5, OneTrail
  <2> QED
    BY <2>4, <2>6 DEF AccessInv
<1>5. CASE trail[s].storage /\ trail[s].inFlight >= MaxInFlight
  <2> DEFINE v == [stage |-> "dropping", service |-> s]
  <2> DEFINE r == Taken(trail[s], TRUE)
  <2>1. trail' = [trail EXCEPT ![s] = r] /\ visit' = [visit EXCEPT ![c] = v]
    <3>1. (trail[s].inFlight >= MaxInFlight) = TRUE
      BY <1>5
    <3> QED
      BY <1>5, <3>1 DEF Record
  <2>2. /\ r \in Trails /\ r.inFlight = trail[s].inFlight + 1
        /\ r.inserting = trail[s].inserting /\ r.closing = trail[s].closing
    BY <1>6, TakenTrail
  <2> HIDE DEF r
  <2>3. \A d \in Callers : visit'[d] = IF d = c THEN v ELSE visit[d]
    BY <2>1 DEF AccessInv, AccessTypes
  <2>4. visit' = [d \in Callers |-> visit'[d]]
    BY <2>1 DEF AccessInv, AccessTypes
  <2>5. \A t \in 1 .. MaxServices :
          Dropping(t)' = IF t = s THEN Dropping(t) \cup {c} ELSE Dropping(t)
    BY <1>1, <2>3 DEF Dropping
  <2>6. Cardinality(Dropping(s)') = Cardinality(Dropping(s)) + 1
    <3>1. c \notin Dropping(s) /\ Dropping(s)' = Dropping(s) \cup {c}
      BY <1>1, <2>5 DEF Dropping
    <3> QED
      BY <3>1, FS_AddElement, DroppingFinite
  <2>7. /\ r.inFlight = r.inserting + r.closing + Cardinality(Dropping(s)')
        /\ r.inserting + r.closing <= MaxInFlight
    BY <1>1, <2>2, <2>6, Account
  <2>8. trail' \in [1 .. MaxServices -> Trails] /\ Balance'
    BY <1>1, <2>1, <2>2, <2>5, <2>7, OneTrail
  <2>9. AccessTypes'
    BY <1>1, <2>3, <2>4, <2>8 DEF AccessInv, AccessTypes
  <2>10. Entitlement'
    BY <2>3 DEF AccessInv, Entitlement, Entitled
  <2> QED
    BY <2>8, <2>9, <2>10 DEF AccessInv
<1>7. trail[s].inFlight < MaxInFlight \/ trail[s].inFlight >= MaxInFlight
  BY <1>6
<1> QED
  BY <1>3, <1>4, <1>5, <1>7, Zenon

LEMMA DropStep ==
  ASSUME AccessInv, NEW c \in Callers, Drop(c)
  PROVE  AccessInv'
<1>0. visit[c].stage = "dropping" /\ UNCHANGED <<clients, pending, service>>
  BY DEF Drop
<1>1. PICK s \in 1 .. MaxServices : s = visit[c].service /\ s <= service
  BY <1>0, AccessAssumption DEF AccessInv, AccessTypes
<1> DEFINE r == GivenBack(trail[s])
<1>2. trail' = [trail EXCEPT ![s] = r] /\ visit' = [visit EXCEPT ![c] = NoVisit]
  BY <1>1 DEF Drop
<1>3. \A d \in Callers : visit'[d] = IF d = c THEN NoVisit ELSE visit[d]
  BY <1>2 DEF AccessInv, AccessTypes
<1>4. visit' = [d \in Callers |-> visit'[d]]
  BY <1>2 DEF AccessInv, AccessTypes
<1>5. /\ r \in Trails
      /\ r.inFlight = trail[s].inFlight - 1
      /\ r.inserting = trail[s].inserting /\ r.closing = trail[s].closing
  BY <1>1, Account, GivenBackTrail
<1>6. \A t \in 1 .. MaxServices :
        Dropping(t)' = IF t = s THEN Dropping(t) \ {c} ELSE Dropping(t)
  BY <1>0, <1>1, <1>3 DEF Dropping, NoVisit
<1>7. Cardinality(Dropping(s)') = Cardinality(Dropping(s)) - 1
  <2>1. c \in Dropping(s) /\ Dropping(s)' = Dropping(s) \ {c}
    <3>1. c \in Dropping(s)
      BY <1>0, <1>1 DEF Dropping
    <3> QED
      BY <1>1, <1>6, <3>1
  <2> QED
    BY <2>1, FS_RemoveElement, DroppingFinite
<1>8. /\ r.inFlight = r.inserting + r.closing + Cardinality(Dropping(s)')
      /\ r.inserting + r.closing <= MaxInFlight
  <2> HIDE DEF r
  <2> QED
    BY <1>1, <1>5, <1>7, Account
<1> HIDE DEF r
<1>9. trail' \in [1 .. MaxServices -> Trails] /\ Balance'
  BY <1>1, <1>2, <1>5, <1>6, <1>8, OneTrail
<1>10. AccessTypes' /\ Entitlement'
  BY <1>0, <1>3, <1>4, <1>9 DEF AccessInv, AccessTypes, Entitlement, Entitled, NoVisit
<1> QED
  BY <1>9, <1>10 DEF AccessInv

\* A task moves on: what it leaves in one stage of its trail it takes to the next.
LEMMA TaskStep ==
  ASSUME AccessInv, NEW s \in 1 .. MaxServices, (\E ok \in BOOLEAN : Inserted(s, ok)) \/ TaskEnds(s)
  PROVE  AccessInv'
<1>1. UNCHANGED <<clients, pending, service, visit>>
  BY DEF Inserted, TaskEnds
<1>2. \A t \in 1 .. MaxServices : Dropping(t)' = Dropping(t)
  BY <1>1 DEF Dropping
<1>3. ASSUME NEW ok \in BOOLEAN, Inserted(s, ok)
      PROVE  trail' \in [1 .. MaxServices -> Trails] /\ Balance'
  <2> DEFINE r == Settled(trail[s], ok)
  <2>1. trail[s].inserting > 0 /\ trail' = [trail EXCEPT ![s] = r] /\ trail[s] \in Trails
    BY <1>3, Account DEF Inserted
  <2>2. /\ r \in Trails /\ r.inFlight = trail[s].inFlight
        /\ r.inserting = trail[s].inserting - 1 /\ r.closing = trail[s].closing + 1
    BY <2>1, SettledTrail
  <2> HIDE DEF r
  <2>3. /\ r.inFlight = r.inserting + r.closing + Cardinality(Dropping(s)')
        /\ r.inserting + r.closing <= MaxInFlight
    BY <1>2, <2>2, Account
  <2> QED
    BY <1>2, <2>1, <2>2, <2>3, OneTrail
<1>4. ASSUME TaskEnds(s)
      PROVE  trail' \in [1 .. MaxServices -> Trails] /\ Balance'
  <2> DEFINE r == Closed(trail[s])
  <2>1. trail[s].closing > 0 /\ trail' = [trail EXCEPT ![s] = r] /\ trail[s] \in Trails
    BY <1>4, Account DEF TaskEnds
  <2>2. /\ r \in Trails /\ r.inFlight = trail[s].inFlight - 1
        /\ r.inserting = trail[s].inserting /\ r.closing = trail[s].closing - 1
    BY <2>1, ClosedTrail
  <2> HIDE DEF r
  <2>3. /\ r.inFlight = r.inserting + r.closing + Cardinality(Dropping(s)')
        /\ r.inserting + r.closing <= MaxInFlight
    BY <1>2, <2>2, Account
  <2> QED
    BY <1>2, <2>1, <2>2, <2>3, OneTrail
<1>5. trail' \in [1 .. MaxServices -> Trails] /\ Balance'
  BY <1>3, <1>4
<1>6. Entitlement'
  BY <1>1 DEF AccessInv, Entitlement, Entitled
<1> QED
  BY <1>1, <1>5, <1>6 DEF AccessInv, AccessTypes

\* A new service begins with a trail nobody has written to.
LEMMA SwapServiceStep ==
  ASSUME AccessInv, NEW config \in ServerConfigs, NEW storage \in BOOLEAN, SwapService(config, storage)
  PROVE  AccessInv'
<1>1. /\ service' = service + 1 /\ service' \in 1 .. MaxServices
      /\ UNCHANGED <<clients, visit>> /\ pending' \in Lists
      /\ trail' = [trail EXCEPT ![service + 1] = NewTrail(storage)]
  BY AccessAssumption DEF SwapService, AccessInv, AccessTypes, Lists
<1>2. trail' \in [1 .. MaxServices -> Trails]
  BY <1>1 DEF AccessInv, AccessTypes, Trails, NewTrail
<1>3. AccessTypes'
  BY <1>1, <1>2 DEF AccessInv, AccessTypes
<1>4. Entitlement'
  BY <1>1 DEF AccessInv, Entitlement, Entitled
<1>5. ASSUME NEW t \in 1 .. MaxServices
      PROVE  /\ trail'[t].inFlight
                  = trail'[t].inserting + trail'[t].closing + Cardinality(Dropping(t)')
             /\ trail'[t].inserting + trail'[t].closing <= MaxInFlight
  <2>1. Dropping(t)' = Dropping(t)
    BY <1>1 DEF Dropping
  <2>2. CASE t = service + 1
    <3>1. Dropping(t) = {}
      BY <2>2 DEF Dropping, AccessInv, AccessTypes
    <3>2. Cardinality(Dropping(t)') = 0
      BY <2>1, <3>1, FS_EmptySet
    <3>3. trail'[t].inFlight = 0 /\ trail'[t].inserting = 0 /\ trail'[t].closing = 0
      BY <1>1, <2>2 DEF AccessInv, AccessTypes, NewTrail
    <3> QED
      BY <3>2, <3>3, AccessAssumption
  <2>3. CASE t # service + 1
    BY <1>1, <2>1, <2>3 DEF AccessInv, AccessTypes, Balance
  <2> QED
    BY <2>2, <2>3
<1> QED
  BY <1>3, <1>4, <1>5 DEF AccessInv, Balance

LEMMA AccessStep == AccessInv /\ [AccessNext]_accessVars => AccessInv'
<1> SUFFICES ASSUME AccessInv, [AccessNext]_accessVars PROVE AccessInv'
  OBVIOUS
<1>1. ASSUME NEW c \in Callers, Receive(c) PROVE AccessInv'
  BY <1>1, ReceiveStep
<1>2. ASSUME NEW c \in Callers, Answered(c) \/ TimesOut(c) PROVE AccessInv'
  BY <1>2, EndStep
<1>3. ASSUME NEW c \in Callers, Record(c) PROVE AccessInv'
  BY <1>3, RecordStep
<1>4. ASSUME NEW c \in Callers, Drop(c) PROVE AccessInv'
  BY <1>4, DropStep
<1>5. ASSUME NEW s \in 1 .. MaxServices, (\E ok \in BOOLEAN : Inserted(s, ok)) \/ TaskEnds(s)
      PROVE  AccessInv'
  BY <1>5, TaskStep
<1>6. ASSUME NEW config \in ServerConfigs, NEW storage \in BOOLEAN, SwapService(config, storage)
      PROVE  AccessInv'
  BY <1>6, SwapServiceStep
<1>7. ASSUME SwapSecurity \/ NextDay \/ UNCHANGED accessVars PROVE AccessInv'
  <2>1. /\ UNCHANGED <<pending, service, trail, visit>>
        /\ clients' = clients \/ clients' = pending
    BY <1>7 DEF SwapSecurity, NextDay, accessVars
  <2>2. AccessTypes'
    BY <2>1 DEF AccessInv, AccessTypes
  <2>3. Entitlement'
    BY <2>1 DEF AccessInv, Entitlement, Entitled
  <2>4. \A s \in 1 .. MaxServices : Dropping(s)' = Dropping(s)
    BY <2>1 DEF Dropping
  <2> QED
    BY <2>1, <2>2, <2>3, <2>4, SameTrail DEF AccessInv
<1> QED
  BY <1>1, <1>2, <1>3, <1>4, <1>5, <1>6, <1>7 DEF AccessNext

\* A handler runs only for a request entitled to it by the credentials it was
\* checked with, and the counter of every audit trail is what is in flight
\* (security_middleware, SecurityAudit::record), for any callers and cap.
THEOREM RequestsAreAccounted == AccessSpec => []RequestsAccounted
<1>1. AccessInv => RequestsAccounted
  BY DEF AccessInv, Entitlement, Balance, Dropping, RequestsAccounted
<1> QED
  BY <1>1, InitialAccess, AccessStep, PTL DEF AccessSpec

----------------------------------------------------------------------------
(***************************************************************************)
(* What the label relevant says of the texts it was given to.  The ladder  *)
(* accepts a quoted phrase before it looks at contradictions; a quoted     *)
(* query has no intent, and so nothing to contradict.                      *)
(***************************************************************************)

Uncontradicted(f) ==
  /\ SufficientText(f)
  /\ ~Blocking(f)
  /\ f.phrase \/ LexicalStrong(f) \/ SubjectMatch(f) \/ EntityMatch(f)

LEMMA QuotedHasNoIntent ==
  ASSUME NEW f, f.quoted
  PROVE  ~Blocking(f)
  BY DEF Blocking, EntityMismatch, SubjectMismatch, DetectIntent

LEMMA RescueNeedsSubject ==
  ASSUME NEW f, StrongRescue(f) \/ IntentRescue(f)
  PROVE  SubjectMatch(f) \/ EntityMatch(f)
  BY DEF StrongRescue, IntentRescue

LEMMA RelevantIsUncontradicted ==
  ASSUME NEW f, f.phrase \in BOOLEAN, Consistent(f), Classification(f) = "relevant"
  PROVE  Uncontradicted(f)
<1>1. SufficientText(f)
  BY DEF Classification
<1>2. CASE f.phrase
  BY <1>1, <1>2, QuotedHasNoIntent DEF Consistent, Uncontradicted
<1>3. CASE ~f.phrase
  <2>1. DemoteWeak(f) # "relevant"
    BY DEF DemoteWeak
  <2>2. \/ LexicalStrong(f) /\ ~Blocking(f)
        \/ ~Blocking(f) /\ IntentRescue(f)
        \/ StrongRescue(f)
    BY <1>1, <1>3, <2>1 DEF Classification
  <2>3. StrongRescue(f) => ~Blocking(f)
    BY DEF StrongRescue
  <2> QED
    BY <1>1, <2>2, <2>3, RescueNeedsSubject DEF Uncontradicted
<1> QED
  BY <1>2, <1>3

\* relevance.rs calls a result relevant only with enough text to judge it and no
\* contradiction of the subject or the entity that was asked for, and never on an
\* alias or a stem alone.
THEOREM RelevanceIsUncontradicted == RelevanceSpec => []RelevanceUncontradicted
<1>1. RelevanceInit => RelevanceUncontradicted
  BY DEF RelevanceInit, RelevanceUncontradicted
<1>2. ASSUME RelevanceUncontradicted, [RelevanceNext]_relevanceVars
      PROVE  RelevanceUncontradicted'
  <2>1. ASSUME NEW f \in Facts, Assess(f) PROVE RelevanceUncontradicted'
    <3>a. f.phrase \in BOOLEAN
      BY DEF Facts
    <3>b. Consistent(f) /\ label' = Classification(f)
      BY <2>1 DEF Assess
    <3>1. ASSUME label' = "relevant" PROVE Uncontradicted(f)
      <4>1. Classification(f) = "relevant"
        BY <3>b, <3>1
      <4> QED
        BY <3>a, <3>b, <4>1, RelevantIsUncontradicted
    <3> QED
      BY <2>1, <3>1 DEF Assess, RelevanceUncontradicted, Uncontradicted, SufficientText,
         Blocking, EntityMismatch, SubjectMismatch, DetectIntent, LexicalStrong, Covers,
         Combined, SubjectMatch, EntityMatch
  <2>2. CASE Forgotten
    BY <2>2 DEF Forgotten, RelevanceUncontradicted
  <2>3. CASE UNCHANGED relevanceVars
    BY <1>2, <2>3 DEF relevanceVars, RelevanceUncontradicted, SufficientText,
       Blocking, EntityMismatch, SubjectMismatch, DetectIntent, LexicalStrong, Covers,
       Combined, SubjectMatch, EntityMatch
  <2> QED
    BY <1>2, <2>1, <2>2, <2>3 DEF RelevanceNext
<1> QED
  BY <1>1, <1>2, PTL DEF RelevanceSpec

----------------------------------------------------------------------------
(***************************************************************************)
(* The vectors that a call returns, for any spaces, given, runtimes and    *)
(* capacity.                                                               *)
(***************************************************************************)

\* An entry holds the vector its key stands for.
Entries ==
  {e \in [key : Spaces \X Inputs, vector : Spaces \X Inputs] :
     e.vector = Vector(e.key[1], e.key[2])}

\* What a copy may be: within the capacity, and every key once.
Copies ==
  {copy \in Seq(Entries) :
     /\ Len(copy) <= Capacity
     /\ \A i, j \in 1 .. Len(copy) : copy[i].key = copy[j].key => i = j}

LEMMA EmptyCopy == <<>> \in Copies
  BY EmbeddingsAssumption DEF Copies

\* A sequence of distinct keys has as many of them as it is long.
LEMMA CopyKeys ==
  ASSUME NEW copy \in Copies
  PROVE  Cardinality(Keys(copy)) = Len(copy)
<1> DEFINE D == 1 .. Len(copy)
           f == [i \in D |-> copy[i].key]
<1>1. Len(copy) \in Nat
  BY DEF Copies
<1>2. f \in Bijection(D, Keys(copy))
  <2>1. f \in [D -> Keys(copy)]
    BY DEF Keys
  <2>2. \A i, j \in D : f[i] = f[j] => i = j
    BY DEF Copies
  <2>3. \A key \in Keys(copy) : \E i \in D : f[i] = key
    BY DEF Keys
  <2> HIDE DEF f, D
  <2> QED
    BY <2>1, <2>2, <2>3 DEF Bijection, Injection, Surjection, IsInjective
<1>3. IsFiniteSet(D) /\ Cardinality(D) = Len(copy)
  BY <1>1, UpTo
<1> HIDE DEF f, D
<1>4. ExistsBijection(D, Keys(copy))
  BY <1>2 DEF ExistsBijection
<1> QED
  BY <1>3, <1>4, FS_Bijection

LEMMA PositionIs ==
  ASSUME NEW copy, NEW key \in Keys(copy)
  PROVE  Position(copy, key) \in 1 .. Len(copy) /\ copy[Position(copy, key)].key = key
  BY DEF Position, Keys

LEMMA Concatenated ==
  ASSUME NEW S, NEW a \in Seq(S), NEW b \in Seq(S)
  PROVE  a \o b \in Seq(S) /\ Len(a \o b) = Len(a) + Len(b)
  OBVIOUS

LEMMA RemovedAt ==
  ASSUME NEW S, NEW seq \in Seq(S), NEW p \in 1 .. Len(seq)
  PROVE  /\ RemoveAt(seq, p) \in Seq(S)
         /\ Len(RemoveAt(seq, p)) = Len(seq) - 1
         /\ \A n \in 1 .. Len(seq) - 1 :
              RemoveAt(seq, p)[n] = IF n < p THEN seq[n] ELSE seq[n + 1]
<1>1. Len(seq) \in Nat /\ p \in Nat
  OBVIOUS
<1> DEFINE a == SubSeq(seq, 1, p - 1)
           b == SubSeq(seq, p + 1, Len(seq))
<1>2. a \in Seq(S) /\ Len(a) = p - 1 /\ \A n \in 1 .. p - 1 : a[n] = seq[n]
  BY <1>1
<1>3. b \in Seq(S) /\ Len(b) = Len(seq) - p /\ \A n \in 1 .. Len(seq) - p : b[n] = seq[n + p]
  BY <1>1
<1>4. RemoveAt(seq, p) = a \o b
  BY DEF RemoveAt
<1> HIDE DEF a, b
<1>5. a \o b \in Seq(S) /\ Len(a \o b) = Len(seq) - 1
  <2>1. a \o b \in Seq(S) /\ Len(a \o b) = Len(a) + Len(b)
    BY <1>2, <1>3, Concatenated
  <2>2. (p - 1) + (Len(seq) - p) = Len(seq) - 1
    BY <1>1
  <2> QED
    BY <1>2, <1>3, <2>1, <2>2
<1>6. ASSUME NEW n \in 1 .. Len(seq) - 1
      PROVE  (a \o b)[n] = IF n < p THEN seq[n] ELSE seq[n + 1]
  <2>1. CASE n < p
    BY <1>1, <1>2, <1>3, <2>1
  <2>2. CASE ~(n < p)
    <3>1. (a \o b)[n] = b[n - (p - 1)]
      BY <1>1, <1>2, <1>3, <2>2
    <3>2. n - (p - 1) \in 1 .. Len(seq) - p
      BY <1>1, <2>2
    <3>3. b[n - (p - 1)] = seq[(n - (p - 1)) + p]
      BY <1>3, <3>2
    <3>4. (n - (p - 1)) + p = n + 1
      BY <1>1
    <3> QED
      BY <2>2, <3>1, <3>3, <3>4
  <2> QED
    BY <2>1, <2>2
<1> QED
  BY <1>4, <1>5, <1>6

\* What is left without a key does not have it.
LEMMA WithoutIs ==
  ASSUME NEW copy \in Copies, NEW key
  PROVE  /\ WithoutKey(copy, key) \in Copies
         /\ key \notin Keys(WithoutKey(copy, key))
         /\ key \in Keys(copy) => Len(WithoutKey(copy, key)) < Len(copy)
<1>1. CASE key \notin Keys(copy)
  BY <1>1 DEF WithoutKey
<1>2. CASE key \in Keys(copy)
  <2> DEFINE p == Position(copy, key)
             rest == RemoveAt(copy, p)
  <2>1. p \in 1 .. Len(copy) /\ copy[p].key = key
    BY <1>2, PositionIs
  <2>2. copy \in Seq(Entries) /\ Len(copy) \in Nat /\ Len(copy) <= Capacity
    BY DEF Copies
  <2>3. rest = WithoutKey(copy, key)
    BY <1>2 DEF WithoutKey
  <2> HIDE DEF p, rest
  <2>4. /\ rest \in Seq(Entries) /\ Len(rest) = Len(copy) - 1
        /\ \A n \in 1 .. Len(copy) - 1 : rest[n] = IF n < p THEN copy[n] ELSE copy[n + 1]
    BY <2>1, <2>2, RemovedAt DEF rest
  <2>5. \A i, j \in 1 .. Len(copy) : copy[i].key = copy[j].key => i = j
    BY DEF Copies
  <2>6. ASSUME NEW i \in 1 .. Len(rest)
        PROVE  \E k \in 1 .. Len(copy) : k # p /\ rest[i] = copy[k] /\ k = IF i < p THEN i ELSE i + 1
    BY <2>1, <2>2, <2>4
  <2>7. ASSUME NEW i \in 1 .. Len(rest), NEW j \in 1 .. Len(rest), rest[i].key = rest[j].key
        PROVE  i = j
    <3>1. PICK k \in 1 .. Len(copy) : rest[i] = copy[k] /\ k = IF i < p THEN i ELSE i + 1
      BY <2>6
    <3>2. PICK m \in 1 .. Len(copy) : rest[j] = copy[m] /\ m = IF j < p THEN j ELSE j + 1
      BY <2>6
    <3>3. k = m
      BY <2>5, <2>7, <3>1, <3>2
    <3> QED
      BY <2>1, <2>4, <3>1, <3>2, <3>3
  <2>8. key \notin Keys(rest)
    <3> SUFFICES ASSUME NEW i \in 1 .. Len(rest), rest[i].key = key PROVE FALSE
      BY DEF Keys
    <3>1. PICK k \in 1 .. Len(copy) : k # p /\ rest[i] = copy[k]
      BY <2>6
    <3> QED
      BY <2>1, <2>5, <3>1
  <2>9. rest \in Copies
    BY <2>2, <2>4, <2>7, EmbeddingsAssumption DEF Copies
  <2> QED
    BY <2>2, <2>3, <2>4, <2>8, <2>9
<1> QED
  BY <1>1, <1>2

\* A new key at the end.
Extended == {copy \in Seq(Entries) :
               \A i, j \in 1 .. Len(copy) : copy[i].key = copy[j].key => i = j}

LEMMA AppendIs ==
  ASSUME NEW copy \in Copies, NEW e \in Entries, e.key \notin Keys(copy)
  PROVE  Append(copy, e) \in Extended /\ Len(Append(copy, e)) = Len(copy) + 1
<1> DEFINE more == Append(copy, e)
<1>1. copy \in Seq(Entries) /\ Len(copy) \in Nat
  BY DEF Copies
<1>2. /\ more \in Seq(Entries) /\ Len(more) = Len(copy) + 1
      /\ more[Len(copy) + 1] = e
      /\ \A n \in 1 .. Len(copy) : more[n] = copy[n]
  BY <1>1
<1> HIDE DEF more
<1>3. ASSUME NEW i \in 1 .. Len(more), NEW j \in 1 .. Len(more), more[i].key = more[j].key
      PROVE  i = j
  <2>1. \A n \in 1 .. Len(copy) : copy[n].key # e.key
    BY DEF Keys
  <2>2. \A n, m \in 1 .. Len(copy) : copy[n].key = copy[m].key => n = m
    BY DEF Copies
  <2>3. (i \in 1 .. Len(copy) \/ i = Len(copy) + 1) /\ (j \in 1 .. Len(copy) \/ j = Len(copy) + 1)
    BY <1>1, <1>2
  <2> QED
    BY <1>2, <1>3, <2>1, <2>2, <2>3
<1>4. more \in Extended
  BY <1>2, <1>3 DEF Extended
<1> QED
  BY <1>2, <1>4 DEF more

LEMMA TrimmedIs ==
  ASSUME NEW copy \in Extended
  PROVE  Trimmed(copy) \in Copies
<1>1. copy \in Seq(Entries) /\ Len(copy) \in Nat /\ Capacity \in Nat \ {0}
  BY EmbeddingsAssumption DEF Extended
<1>2. \A i, j \in 1 .. Len(copy) : copy[i].key = copy[j].key => i = j
  BY DEF Extended
<1>3. CASE ~(Len(copy) > Capacity)
  BY <1>1, <1>2, <1>3 DEF Trimmed, Copies
<1>4. CASE Len(copy) > Capacity
  <2> DEFINE d == Len(copy) - Capacity
             last == SubSeq(copy, d + 1, Len(copy))
  <2>1. d \in Nat /\ d + Capacity = Len(copy) /\ Len(copy) - (d + 1) + 1 = Capacity
    BY <1>1, <1>4
  <2>2. last = Trimmed(copy)
    BY <1>4 DEF Trimmed
  <2>3. last \in Seq(Entries) /\ Len(last) = Capacity /\ \A n \in 1 .. Capacity : last[n] = copy[n + d]
    <3>1. d + 1 \in Nat /\ d + 1 <= Len(copy) + 1 /\ d + 1 >= 1
      BY <1>1, <2>1
    <3> HIDE DEF d
    <3> QED
      BY <1>1, <2>1, <3>1
  <2> HIDE DEF last, d
  <2>4. ASSUME NEW i \in 1 .. Capacity, NEW j \in 1 .. Capacity, last[i].key = last[j].key
        PROVE  i = j
    <3>1. i + d \in 1 .. Len(copy) /\ j + d \in 1 .. Len(copy)
      BY <1>1, <2>1
    <3>2. i + d = j + d
      BY <1>2, <2>3, <2>4, <3>1
    <3> QED
      BY <1>1, <2>1, <3>2
  <2>5. last \in Copies
    BY <1>1, <2>3, <2>4 DEF Copies
  <2> QED
    BY <2>2, <2>5
<1> QED
  BY <1>3, <1>4

LEMMA CopyExtends == Copies \subseteq Extended
  BY DEF Copies, Extended

LEMMA EntryIs ==
  ASSUME NEW copy \in Copies, NEW key \in Keys(copy)
  PROVE  Entry(copy, key) \in Entries /\ Entry(copy, key).key = key
  BY PositionIs DEF Entry, Copies

LEMMA LookupIs ==
  ASSUME NEW copy \in Copies, NEW key
  PROVE  Lookup(copy, key) \in Copies
<1>1. CASE key \notin Keys(copy)
  BY <1>1 DEF Lookup
<1>2. CASE key \in Keys(copy)
  <2> DEFINE rest == WithoutKey(copy, key)
             more == Append(rest, Entry(copy, key))
  <2>1. rest \in Copies /\ key \notin Keys(rest) /\ Len(rest) < Len(copy)
    BY <1>2, WithoutIs
  <2>2. more \in Extended /\ Len(more) = Len(rest) + 1
    BY <1>2, <2>1, EntryIs, AppendIs
  <2>3. Len(rest) \in Nat /\ Len(copy) \in Nat /\ Len(copy) <= Capacity
    BY <2>1 DEF Copies
  <2>4. Lookup(copy, key) = more
    BY <1>2 DEF Lookup
  <2> HIDE DEF rest, more
  <2>5. Len(more) <= Capacity
    BY <2>1, <2>2, <2>3, EmbeddingsAssumption
  <2> QED
    BY <2>2, <2>4, <2>5 DEF Copies, Extended
<1> QED
  BY <1>1, <1>2

LEMMA InsertIs ==
  ASSUME NEW copy \in Copies, NEW space \in Spaces, NEW text \in Inputs
  PROVE  Insert(copy, CacheKey(space, text), Vector(space, text)) \in Copies
<1> DEFINE e == [key |-> CacheKey(space, text), vector |-> Vector(space, text)]
           rest == WithoutKey(copy, CacheKey(space, text))
<1>1. e \in Entries /\ e.key = CacheKey(space, text)
  BY DEF Entries, CacheKey, Vector
<1>2. rest \in Copies /\ CacheKey(space, text) \notin Keys(rest)
  BY WithoutIs
<1>3. Insert(copy, CacheKey(space, text), Vector(space, text)) = Trimmed(Append(rest, e))
  BY DEF Insert
<1> HIDE DEF e, rest
<1> QED
  BY <1>1, <1>2, <1>3, AppendIs, TrimmedIs

LEMMA LoadIs ==
  ASSUME NEW f, f.state = "whole" => f.entries \in Copies
  PROVE  Load(f) \in Copies
  BY TrimmedIs, EmptyCopy, CopyExtends DEF Load

\* n steps, one after the other.
Runs(f, c, n, g) == f[0] = c /\ \A k \in 1 .. n : f[k] = g[k][f[k - 1]]

LEMMA Stepwise ==
  ASSUME NEW C, NEW c \in C, NEW n \in Nat, NEW g \in [1 .. n -> [C -> C]]
  PROVE  \E f \in [0 .. n -> C] : Runs(f, c, n, g)
<1> USE DEF Runs
<1> DEFINE Upto(k) == \E f \in [0 .. k -> C] : f[0] = c /\ \A m \in 1 .. k : f[m] = g[m][f[m - 1]]
           T == {k \in Nat : k <= n => Upto(k)}
<1>1. 0 \in T
  <2>1. [m \in 0 .. 0 |-> c] \in [0 .. 0 -> C] /\ [m \in 0 .. 0 |-> c][0] = c
    OBVIOUS
  <2>2. 1 .. 0 = {}
    OBVIOUS
  <2>3. Upto(0)
    BY <2>1, <2>2
  <2> QED
    BY <2>3
<1>2. ASSUME NEW k \in Nat, k \in T PROVE k + 1 \in T
  <2> SUFFICES ASSUME k + 1 <= n PROVE Upto(k + 1)
    OBVIOUS
  <2>1. k <= n /\ k + 1 \in 1 .. n
    OBVIOUS
  <2>2. PICK f \in [0 .. k -> C] : f[0] = c /\ \A m \in 1 .. k : f[m] = g[m][f[m - 1]]
    BY <1>2, <2>1
  <2> DEFINE h == [m \in 0 .. k + 1 |-> IF m <= k THEN f[m] ELSE g[k + 1][f[k]]]
  <2>3. f[k] \in C /\ g[k + 1] \in [C -> C]
    BY <2>1, <2>2
  <2>4. g[k + 1][f[k]] \in C
    BY <2>3
  <2>5. h \in [0 .. k + 1 -> C]
    BY <2>4
  <2>6. h[0] = c
    BY <2>2
  <2>7. ASSUME NEW m \in 1 .. k + 1 PROVE h[m] = g[m][h[m - 1]]
    <3>1. h[m - 1] = f[m - 1]
      OBVIOUS
    <3>2. CASE m <= k
      BY <2>2, <3>1, <3>2
    <3>3. CASE m = k + 1
      BY <3>1, <3>3
    <3> QED
      BY <3>2, <3>3
  <2> HIDE DEF h
  <2> QED
    BY <2>5, <2>6, <2>7
<1> HIDE DEF T
<1>3. n \in T
  BY <1>1, <1>2, Induction
<1> QED
  BY <1>3 DEF T

\* The copy after a call has looked its texts up.
LEMMA LookedUpIs ==
  ASSUME NEW copy \in Copies, NEW space, NEW given \in Seq(Inputs)
  PROVE  LookedUp(copy, space, given) \in Copies
<1> DEFINE N == Len(given)
           one(x, n) == Lookup(x, CacheKey(space, given[n]))
           body(h) == [n \in 0 .. N |-> IF n = 0 THEN copy ELSE one(h[n - 1], n)]
           after == CHOOSE h : h = body(h)
           g == [n \in 1 .. N |-> [x \in Copies |-> one(x, n)]]
<1>1. N \in Nat
  OBVIOUS
<1>2. \A n \in 1 .. N : \A x \in Copies : one(x, n) \in Copies
  BY LookupIs
<1>3. LookedUp(copy, space, given) = after[N]
  BY DEF LookedUp
<1> HIDE DEF N, one
<1>4. g \in [1 .. N -> [Copies -> Copies]]
  BY <1>2
<1>5. PICK f \in [0 .. N -> Copies] : Runs(f, copy, N, g)
  <2> HIDE DEF g
  <2> QED
    BY <1>1, <1>4, Stepwise
<1>6. f = body(f)
  <2>1. ASSUME NEW k \in 1 .. N PROVE f[k] = one(f[k - 1], k)
    <3>1. k - 1 \in 0 .. N
      BY <1>1
    <3>2. f[k - 1] \in Copies
      BY <3>1
    <3> QED
      BY <1>5, <3>2 DEF Runs
  <2>2. f[0] = copy
    BY <1>5 DEF Runs
  <2>3. \A k \in 0 .. N : k = 0 \/ k \in 1 .. N
    BY <1>1
  <2> HIDE DEF g
  <2> QED
    BY <2>1, <2>2, <2>3
<1>7. after = body(after)
  BY <1>6
<1> DEFINE T == {k \in Nat : k <= N => after[k] \in Copies}
<1> HIDE DEF after
<1>8. 0 \in T
  BY <1>1, <1>7
<1>9. ASSUME NEW k \in Nat, k \in T PROVE k + 1 \in T
  <2> SUFFICES ASSUME k + 1 <= N PROVE after[k + 1] \in Copies
    OBVIOUS
  <2>1. k + 1 \in 0 .. N /\ k + 1 \in 1 .. N /\ k + 1 # 0 /\ (k + 1) - 1 = k /\ k <= N
    BY <1>1
  <2>2. after[k + 1] = one(after[k], k + 1)
    BY <1>7, <2>1
  <2> QED
    BY <1>2, <1>9, <2>1, <2>2
<1> HIDE DEF T
<1>10. N \in T
  BY <1>1, <1>8, <1>9, Induction
<1> QED
  BY <1>1, <1>3, <1>10 DEF T

\* The copy after a call has inserted the texts that were missing.
LEMMA FilledIs ==
  ASSUME NEW copy \in Copies, NEW space \in Spaces, NEW given \in Seq(Inputs), NEW missing
  PROVE  Filled(copy, space, given, missing) \in Copies
<1> DEFINE N == Len(given)
           one(x, n) == IF n \in missing
                        THEN Insert(x, CacheKey(space, given[n]), Vector(space, given[n]))
                        ELSE x
           body(h) == [n \in 0 .. N |-> IF n = 0 THEN copy ELSE one(h[n - 1], n)]
           after == CHOOSE h : h = body(h)
           g == [n \in 1 .. N |-> [x \in Copies |-> one(x, n)]]
<1>1. N \in Nat
  OBVIOUS
<1>2. \A n \in 1 .. N : \A x \in Copies : one(x, n) \in Copies
  BY InsertIs
<1>3. Filled(copy, space, given, missing) = after[N]
  BY DEF Filled
<1> HIDE DEF N, one
<1>4. g \in [1 .. N -> [Copies -> Copies]]
  BY <1>2
<1>5. PICK f \in [0 .. N -> Copies] : Runs(f, copy, N, g)
  <2> HIDE DEF g
  <2> QED
    BY <1>1, <1>4, Stepwise
<1>6. f = body(f)
  <2>1. ASSUME NEW k \in 1 .. N PROVE f[k] = one(f[k - 1], k)
    <3>1. k - 1 \in 0 .. N
      BY <1>1
    <3>2. f[k - 1] \in Copies
      BY <3>1
    <3> QED
      BY <1>5, <3>2 DEF Runs
  <2>2. f[0] = copy
    BY <1>5 DEF Runs
  <2>3. \A k \in 0 .. N : k = 0 \/ k \in 1 .. N
    BY <1>1
  <2> HIDE DEF g
  <2> QED
    BY <2>1, <2>2, <2>3
<1>7. after = body(after)
  BY <1>6
<1> DEFINE T == {k \in Nat : k <= N => after[k] \in Copies}
<1> HIDE DEF after
<1>8. 0 \in T
  BY <1>1, <1>7
<1>9. ASSUME NEW k \in Nat, k \in T PROVE k + 1 \in T
  <2> SUFFICES ASSUME k + 1 <= N PROVE after[k + 1] \in Copies
    OBVIOUS
  <2>1. k + 1 \in 0 .. N /\ k + 1 \in 1 .. N /\ k + 1 # 0 /\ (k + 1) - 1 = k /\ k <= N
    BY <1>1
  <2>2. after[k + 1] = one(after[k], k + 1)
    BY <1>7, <2>1
  <2> QED
    BY <1>2, <1>9, <2>1, <2>2
<1> HIDE DEF T
<1>10. N \in T
  BY <1>1, <1>8, <1>9, Induction
<1> QED
  BY <1>1, <1>3, <1>10 DEF T

CacheFiles == [state : {"absent", "truncated", "torn", "whole"}, entries : Copies]
RuntimeRecords ==
  [state : {"off", "live", "writing", "written"}, space : Spaces \cup {"none"}, copy : Copies,
   inode : {"none", "tmp", "disk", "gone"}]
CallRecords ==
  [state : {"idle", "awaiting", "returned"}, runtime : Runtimes \cup {"none"},
   texts : Seq(Inputs), vectors : Seq({NoVector} \cup (Spaces \X Inputs))]

\* A call under way: its runtime is there, and what it knows are the vectors of
\* its texts in that runtime's space.
Answering(call, serving) ==
  /\ call.runtime \in Runtimes
  /\ serving[call.runtime].state = "live"
  /\ Len(call.vectors) = Len(call.texts)
  /\ \A n \in 1 .. Len(call.texts) :
       \/ call.vectors[n] = Vector(serving[call.runtime].space, call.texts[n])
       \/ call.state = "awaiting" /\ call.vectors[n] = NoVector

EmbeddingsInv ==
  /\ disk \in CacheFiles /\ tmp \in CacheFiles
  /\ runtime \in [Runtimes -> RuntimeRecords]
  /\ \A i \in Runtimes : runtime[i].state = "live" => runtime[i].space \in Spaces
  /\ job \in [Jobs -> CallRecords]
  /\ \A c \in Jobs : job[c].state # "idle" => Answering(job[c], runtime)

LEMMA NothingYet ==
  /\ {Absent, Truncated, Torn} \subseteq CacheFiles
  /\ NoRuntime \in RuntimeRecords /\ NoRuntime.state = "off"
  /\ NoJob \in CallRecords /\ NoJob.state = "idle"
  BY EmptyCopy DEF CacheFiles, Absent, Truncated, Torn, File, NoRuntime, RuntimeRecords, NoJob,
                   CallRecords

LEMMA InitialEmbeddings == EmbeddingsInit => EmbeddingsInv
  BY NothingYet DEF EmbeddingsInit, EmbeddingsInv

\* A runtime that no call holds may become anything; a call sees its own one.
LEMMA OtherRuntimes ==
  ASSUME EmbeddingsInv, NEW i \in Runtimes, NEW r \in RuntimeRecords,
         runtime' = [runtime EXCEPT ![i] = r],
         r.state = "live" => r.space \in Spaces,
         UNCHANGED job,
         \A c \in Jobs : job[c].state # "idle" /\ job[c].runtime = i
           => r.state = "live" /\ r.space = runtime[i].space
  PROVE  /\ runtime' \in [Runtimes -> RuntimeRecords]
         /\ \A k \in Runtimes : runtime'[k].state = "live" => runtime'[k].space \in Spaces
         /\ \A c \in Jobs : job'[c].state # "idle" => Answering(job'[c], runtime')
<1>1. runtime' \in [Runtimes -> RuntimeRecords]
  BY DEF EmbeddingsInv
<1>2. \A k \in Runtimes : runtime'[k] = IF k = i THEN r ELSE runtime[k]
  BY DEF EmbeddingsInv
<1>3. \A k \in Runtimes : runtime'[k].state = "live" => runtime'[k].space \in Spaces
  BY <1>2 DEF EmbeddingsInv
<1>4. ASSUME NEW c \in Jobs, job[c].state # "idle" PROVE Answering(job[c], runtime')
  <2>1. Answering(job[c], runtime)
    BY <1>4 DEF EmbeddingsInv
  <2>2. /\ runtime'[job[c].runtime].state = "live"
        /\ runtime'[job[c].runtime].space = runtime[job[c].runtime].space
    BY <1>2, <1>4, <2>1 DEF Answering
  <2> QED
    BY <2>1, <2>2 DEF Answering
<1> QED
  BY <1>1, <1>3, <1>4

LEMMA RuntimeStep ==
  ASSUME EmbeddingsInv, NEW i \in Runtimes,
         \/ \E space \in Spaces : OpenRuntime(i, space)
         \/ OpenTmp(i) \/ WriteCopy(i) \/ SaveFails(i)
  PROVE  EmbeddingsInv'
<1>r. runtime[i] \in RuntimeRecords /\ runtime \in [Runtimes -> RuntimeRecords]
  BY DEF EmbeddingsInv
<1>h. ASSUME NEW c \in Jobs, job[c].state # "idle", job[c].runtime = i
      PROVE  runtime[i].state = "live"
  BY <1>h DEF EmbeddingsInv, Answering
<1>1. ASSUME NEW space \in Spaces, OpenRuntime(i, space) PROVE EmbeddingsInv'
  <2> DEFINE r == [state |-> "live", space |-> space, copy |-> Load(disk), inode |-> "none"]
  <2>1. Load(disk) \in Copies
    BY LoadIs DEF EmbeddingsInv, CacheFiles
  <2>2. r \in RuntimeRecords /\ r.state = "live" /\ r.space \in Spaces
    BY <2>1 DEF RuntimeRecords
  <2>3. runtime' = [runtime EXCEPT ![i] = r] /\ UNCHANGED <<disk, tmp, job>> /\ runtime[i].state = "off"
    BY <1>1 DEF OpenRuntime
  <2> HIDE DEF r
  <2> QED
    BY <1>h, <2>2, <2>3, OtherRuntimes DEF EmbeddingsInv
<1>2. CASE OpenTmp(i)
  <2> DEFINE r == [state |-> "writing", space |-> "none", copy |-> runtime[i].copy, inode |-> "tmp"]
  <2>1. r \in RuntimeRecords /\ r.state = "writing"
    BY <1>r DEF RuntimeRecords
  <2>2. runtime' = [runtime EXCEPT ![i] = r] /\ UNCHANGED <<disk, job>> /\ tmp' = Truncated
    BY <1>2 DEF OpenTmp
  <2>3. \A c \in Jobs : job[c].state = "idle" \/ job[c].runtime # i
    BY <1>2 DEF OpenTmp
  <2> HIDE DEF r
  <2> QED
    BY <2>1, <2>2, <2>3, OtherRuntimes, NothingYet DEF EmbeddingsInv
<1>3. CASE WriteCopy(i)
  <2> DEFINE r == [runtime[i] EXCEPT !.state = "written", !.copy = <<>>]
             content == File("whole", runtime[i].copy)
  <2>1. r \in RuntimeRecords /\ r.state = "written"
    BY <1>r, EmptyCopy DEF RuntimeRecords
  <2>2. runtime' = [runtime EXCEPT ![i] = r] /\ UNCHANGED job /\ runtime[i].state = "writing"
    BY <1>3, <1>r DEF WriteCopy
  <2>3. content \in CacheFiles
    BY <1>r DEF CacheFiles, File, RuntimeRecords
  <2>4. disk' \in {disk, content, Torn} /\ tmp' \in {tmp, content, Torn}
    BY <1>3 DEF WriteCopy, Overwritten
  <2> HIDE DEF r, content
  <2>5. disk' \in CacheFiles /\ tmp' \in CacheFiles
    BY <2>3, <2>4, NothingYet DEF EmbeddingsInv
  <2> QED
    BY <1>h, <2>1, <2>2, <2>5, OtherRuntimes DEF EmbeddingsInv
<1>4. CASE SaveFails(i)
  <2>1. runtime' = [runtime EXCEPT ![i] = NoRuntime] /\ UNCHANGED <<disk, tmp, job>>
        /\ runtime[i].state = "writing"
    BY <1>4 DEF SaveFails
  <2> QED
    BY <1>h, <2>1, OtherRuntimes, NothingYet DEF EmbeddingsInv
<1> QED
  BY <1>1, <1>2, <1>3, <1>4

LEMMA RenameStep ==
  ASSUME EmbeddingsInv, NEW i \in Runtimes, RenameTmp(i)
  PROVE  EmbeddingsInv'
<1>h. ASSUME NEW c \in Jobs, job[c].state # "idle"
      PROVE  job[c].runtime # i
  BY <1>h DEF EmbeddingsInv, Answering, RenameTmp
<1>1. CASE tmp = Absent
  BY <1>1, <1>h, OtherRuntimes, NothingYet DEF EmbeddingsInv, RenameTmp
<1>2. CASE tmp # Absent
  <2>1. /\ disk' = tmp /\ tmp' = Absent /\ UNCHANGED job
        /\ runtime' = [k \in Runtimes |-> IF k = i THEN NoRuntime
                         ELSE [runtime[k] EXCEPT !.inode = Moved(@)]]
    BY <1>2 DEF RenameTmp
  <2>2. ASSUME NEW k \in Runtimes, k # i
        PROVE  /\ runtime'[k] \in RuntimeRecords
               /\ runtime'[k].state = runtime[k].state /\ runtime'[k].space = runtime[k].space
    <3>1. runtime[k] \in RuntimeRecords
      BY DEF EmbeddingsInv
    <3>2. Moved(runtime[k].inode) \in {"none", "tmp", "disk", "gone"}
      BY <3>1 DEF RuntimeRecords, Moved
    <3>3. runtime'[k] = [runtime[k] EXCEPT !.inode = Moved(@)]
      BY <2>1, <2>2
    <3> QED
      BY <3>1, <3>2, <3>3 DEF RuntimeRecords
  <2>3. runtime'[i] = NoRuntime
    BY <2>1
  <2>4. runtime' \in [Runtimes -> RuntimeRecords]
    BY <2>1, <2>2, <2>3, NothingYet
  <2>5. \A k \in Runtimes : runtime'[k].state = "live" => runtime'[k].space \in Spaces
    BY <2>2, <2>3, NothingYet DEF EmbeddingsInv
  <2>6. ASSUME NEW c \in Jobs, job[c].state # "idle" PROVE Answering(job[c], runtime')
    <3>1. Answering(job[c], runtime) /\ job[c].runtime # i
      BY <1>h, <2>6 DEF EmbeddingsInv
    <3> QED
      BY <2>2, <3>1 DEF Answering
  <2> QED
    BY <2>1, <2>4, <2>5, <2>6, NothingYet DEF EmbeddingsInv
<1> QED
  BY <1>1, <1>2

LEMMA KillStep ==
  ASSUME EmbeddingsInv, NEW i \in Runtimes, KillRuntime(i)
  PROVE  EmbeddingsInv'
<1>1. /\ runtime' = [runtime EXCEPT ![i] = NoRuntime] /\ UNCHANGED <<disk, tmp>>
      /\ job' = [c \in Jobs |-> IF job[c].runtime = i THEN NoJob ELSE job[c]]
  BY DEF KillRuntime
<1>2. \A k \in Runtimes : runtime'[k] = IF k = i THEN NoRuntime ELSE runtime[k]
  BY <1>1 DEF EmbeddingsInv
<1>3. runtime' \in [Runtimes -> RuntimeRecords] /\ job' \in [Jobs -> CallRecords]
  BY <1>1, NothingYet DEF EmbeddingsInv
<1>4. \A k \in Runtimes : runtime'[k].state = "live" => runtime'[k].space \in Spaces
  BY <1>2, NothingYet DEF EmbeddingsInv
<1>5. ASSUME NEW c \in Jobs, job'[c].state # "idle" PROVE Answering(job'[c], runtime')
  <2>1. job'[c] = job[c] /\ job[c].runtime # i
    BY <1>1, <1>5, NothingYet
  <2>2. Answering(job[c], runtime)
    BY <1>5, <2>1 DEF EmbeddingsInv
  <2> QED
    BY <1>2, <2>1, <2>2 DEF Answering
<1> QED
  BY <1>1, <1>3, <1>4, <1>5 DEF EmbeddingsInv

\* A runtime whose copy changes, and a call on it that goes on with what it says.
LEMMA CallGoesOn ==
  ASSUME EmbeddingsInv, NEW i \in Runtimes, NEW copy \in Copies, NEW c \in Jobs,
         NEW call \in CallRecords,
         runtime' = [runtime EXCEPT ![i].copy = copy], job' = [job EXCEPT ![c] = call],
         UNCHANGED <<disk, tmp>>, call.state # "idle" => Answering(call, runtime)
  PROVE  EmbeddingsInv'
<1>1. \A k \in Runtimes : runtime'[k].state = runtime[k].state /\ runtime'[k].space = runtime[k].space
  BY DEF EmbeddingsInv, RuntimeRecords
<1>2. runtime' \in [Runtimes -> RuntimeRecords] /\ job' \in [Jobs -> CallRecords]
  <2>1. [runtime[i] EXCEPT !.copy = copy] \in RuntimeRecords
    BY DEF EmbeddingsInv, RuntimeRecords
  <2> QED
    BY <2>1 DEF EmbeddingsInv
<1>3. \A d \in Jobs : job'[d] = IF d = c THEN call ELSE job[d]
  BY DEF EmbeddingsInv
<1>4. ASSUME NEW d \in Jobs, job'[d].state # "idle" PROVE Answering(job'[d], runtime')
  <2>1. Answering(job'[d], runtime)
    BY <1>3, <1>4 DEF EmbeddingsInv
  <2> QED
    BY <1>1, <2>1 DEF Answering
<1> QED
  BY <1>1, <1>2, <1>4 DEF EmbeddingsInv

LEMMA LookUpStep ==
  ASSUME EmbeddingsInv, NEW c \in Jobs, NEW i \in Runtimes, NEW m \in 1 .. MaxInputs,
         NEW given \in [1 .. m -> Inputs], LookUpTexts(c, i, given)
  PROVE  EmbeddingsInv'
<1> DEFINE space == runtime[i].space
           copy == runtime[i].copy
           hit(text) == CacheKey(space, text) \in Keys(copy)
           vectors == [n \in 1 .. Len(given) |->
                        IF hit(given[n]) THEN Entry(copy, CacheKey(space, given[n])).vector
                        ELSE NoVector]
           call == [state |-> IF NoVector \in ToSet(vectors) THEN "awaiting" ELSE "returned",
                    runtime |-> i, texts |-> given, vectors |-> vectors]
<1>1. /\ runtime[i].state = "live" /\ UNCHANGED <<disk, tmp>>
      /\ runtime' = [runtime EXCEPT ![i].copy = LookedUp(runtime[i].copy, space, given)]
      /\ job' = [job EXCEPT ![c] = call]
  BY DEF LookUpTexts
<1>2. m \in Nat /\ given \in Seq(Inputs) /\ Len(given) = m
  BY EmbeddingsAssumption
<1>3. copy \in Copies /\ space \in Spaces
  BY <1>1 DEF EmbeddingsInv, RuntimeRecords
<1>4. ASSUME NEW n \in 1 .. Len(given), hit(given[n])
      PROVE  Entry(copy, CacheKey(space, given[n])).vector = Vector(space, given[n])
  <2> DEFINE e == Entry(copy, CacheKey(space, given[n]))
  <2>1. e \in Entries /\ e.key = CacheKey(space, given[n])
    BY <1>3, <1>4, EntryIs
  <2> HIDE DEF e
  <2>2. e.vector = Vector(e.key[1], e.key[2]) /\ e.key[1] = space /\ e.key[2] = given[n]
    BY <2>1 DEF Entries, CacheKey
  <2> QED
    BY <2>2 DEF e
<1>5. \A n \in 1 .. Len(given) : vectors[n] = Vector(space, given[n]) \/ vectors[n] = NoVector
  BY <1>4
<1>6. DOMAIN vectors = 1 .. Len(given)
  OBVIOUS
<1>7. LookedUp(runtime[i].copy, space, given) \in Copies
  BY <1>2, <1>3, LookedUpIs
<1> HIDE DEF vectors, hit
<1>8. vectors \in Seq({NoVector} \cup (Spaces \X Inputs)) /\ Len(vectors) = Len(given)
  <2>1. \A n \in 1 .. Len(given) : vectors[n] \in {NoVector} \cup (Spaces \X Inputs)
    <3>1. \A n \in 1 .. Len(given) : given[n] \in Inputs
      BY <1>2
    <3>2. \A n \in 1 .. Len(given) : Vector(space, given[n]) \in Spaces \X Inputs
      BY <1>2, <1>3, <3>1 DEF Vector
    <3> HIDE DEF vectors, space
    <3> QED
      BY <1>5, <3>2
  <2>2. vectors \in [1 .. Len(given) -> {NoVector} \cup (Spaces \X Inputs)]
    BY <2>1 DEF vectors
  <2> QED
    BY <1>2, <2>2
<1>9. call \in CallRecords
  BY <1>2, <1>8 DEF CallRecords
<1>10. Answering(call, runtime)
  <2>1. ASSUME NEW n \in 1 .. Len(given), vectors[n] = NoVector PROVE call.state = "awaiting"
    BY <1>6, <2>1 DEF ToSet
  <2> QED
    BY <1>1, <1>5, <1>8, <2>1 DEF Answering
<1> HIDE DEF call
<1> QED
  BY <1>1, <1>7, <1>9, <1>10, CallGoesOn

LEMMA InsertStep ==
  ASSUME EmbeddingsInv, NEW c \in Jobs, InsertTexts(c)
  PROVE  EmbeddingsInv'
<1> DEFINE i == job[c].runtime
           space == runtime[i].space
           given == job[c].texts
           missing == {n \in 1 .. Len(job[c].texts) : job[c].vectors[n] = NoVector}
           vectors == [n \in DOMAIN job[c].vectors |->
                        IF n \in missing THEN Vector(space, given[n]) ELSE job[c].vectors[n]]
           call == [job[c] EXCEPT !.state = "returned", !.vectors = vectors]
<1>1. job[c] \in CallRecords /\ job[c].state = "awaiting" /\ Answering(job[c], runtime)
  BY DEF EmbeddingsInv, InsertTexts
<1>2. i \in Runtimes /\ space \in Spaces /\ runtime[i].copy \in Copies /\ given \in Seq(Inputs)
  BY <1>1 DEF EmbeddingsInv, Answering, RuntimeRecords, CallRecords
<1>3. /\ runtime' = [runtime EXCEPT ![i].copy = Filled(runtime[i].copy, space, given, missing)]
      /\ UNCHANGED <<disk, tmp>>
  BY DEF InsertTexts
<1>4. job' = [job EXCEPT ![c] = call]
  BY <1>1 DEF InsertTexts, EmbeddingsInv, CallRecords
<1>5. Filled(runtime[i].copy, space, given, missing) \in Copies
  BY <1>2, FilledIs
<1>6. /\ Len(job[c].vectors) = Len(given) /\ Len(given) \in Nat
      /\ DOMAIN job[c].vectors = 1 .. Len(given)
  BY <1>1, <1>2 DEF Answering, CallRecords
<1>7. \A n \in 1 .. Len(given) : vectors[n] = Vector(space, given[n])
  BY <1>1, <1>6 DEF Answering
<1>8. vectors \in Seq({NoVector} \cup (Spaces \X Inputs)) /\ Len(vectors) = Len(given)
  <2>1. \A n \in 1 .. Len(given) : vectors[n] \in {NoVector} \cup (Spaces \X Inputs)
    <3>1. \A n \in 1 .. Len(given) : given[n] \in Inputs
      BY <1>2
    <3>2. \A n \in 1 .. Len(given) : Vector(space, given[n]) \in Spaces \X Inputs
      BY <1>2, <3>1 DEF Vector
    <3> HIDE DEF vectors, space, given
    <3> QED
      BY <1>7, <3>2
  <2>2. vectors \in [1 .. Len(given) -> {NoVector} \cup (Spaces \X Inputs)]
    BY <1>6, <2>1
  <2> HIDE DEF vectors
  <2> QED
    BY <1>6, <2>2
<1> HIDE DEF vectors, missing
<1>9. call \in CallRecords /\ call.texts = given /\ call.vectors = vectors /\ call.runtime = i
  BY <1>1, <1>8 DEF CallRecords
<1>10. Answering(call, runtime)
  BY <1>1, <1>7, <1>8, <1>9 DEF Answering
<1> HIDE DEF call
<1> QED
  BY <1>2, <1>3, <1>4, <1>5, <1>9, <1>10, CallGoesOn

LEMMA CallEnds ==
  ASSUME EmbeddingsInv, NEW c \in Jobs, EmbedFails(c) \/ EndJob(c)
  PROVE  EmbeddingsInv'
<1>1. job' = [job EXCEPT ![c] = NoJob] /\ UNCHANGED <<disk, tmp, runtime>>
  BY DEF EmbedFails, EndJob
<1>2. \A d \in Jobs : job'[d] = IF d = c THEN NoJob ELSE job[d]
  BY <1>1 DEF EmbeddingsInv
<1>3. job' \in [Jobs -> CallRecords]
  BY <1>1, NothingYet DEF EmbeddingsInv
<1>4. \A d \in Jobs : job'[d].state # "idle" => Answering(job'[d], runtime)
  BY <1>2, NothingYet DEF EmbeddingsInv
<1> QED
  BY <1>1, <1>3, <1>4 DEF EmbeddingsInv

LEMMA EmbeddingsStep == EmbeddingsInv /\ [EmbeddingsNext]_embeddingsVars => EmbeddingsInv'
<1> SUFFICES ASSUME EmbeddingsInv, [EmbeddingsNext]_embeddingsVars PROVE EmbeddingsInv'
  OBVIOUS
<1>1. CASE UNCHANGED embeddingsVars
  BY <1>1 DEF embeddingsVars, EmbeddingsInv
<1>2. ASSUME NEW i \in Runtimes,
             \/ \E space \in Spaces : OpenRuntime(i, space)
             \/ OpenTmp(i) \/ WriteCopy(i) \/ SaveFails(i) \/ RenameTmp(i) \/ KillRuntime(i)
      PROVE  EmbeddingsInv'
  BY <1>2, RuntimeStep, RenameStep, KillStep
<1>3. ASSUME NEW c \in Jobs,
             \/ \E i \in Runtimes, n \in 1 .. MaxInputs : \E given \in [1 .. n -> Inputs] :
                  LookUpTexts(c, i, given)
             \/ InsertTexts(c) \/ EmbedFails(c) \/ EndJob(c)
      PROVE  EmbeddingsInv'
  BY <1>3, LookUpStep, InsertStep, CallEnds
<1> QED
  BY <1>1, <1>2, <1>3 DEF EmbeddingsNext

\* Every call of embed returns, for each text, the vector of that text in the
\* space of its runtime, for any number of spaces, texts, calls and runtimes on
\* one file and any capacity, whatever racing writers and kills left in the file;
\* and no copy exceeds its capacity or holds a key twice.
THEOREM EmbeddingsAreTheirs == EmbeddingsSpec => []EmbeddingsMatch
<1>1. EmbeddingsInv => EmbeddingsMatch
  <2> SUFFICES ASSUME EmbeddingsInv PROVE EmbeddingsMatch
    OBVIOUS
  <2>1. ASSUME NEW c \in Jobs, job[c].state = "returned", NEW n \in 1 .. Len(job[c].texts)
        PROVE  job[c].vectors[n] = Vector(runtime[job[c].runtime].space, job[c].texts[n])
    BY <2>1 DEF EmbeddingsInv, Answering
  <2>2. ASSUME NEW i \in Runtimes
        PROVE  /\ Len(runtime[i].copy) <= Capacity
               /\ Cardinality(Keys(runtime[i].copy)) = Len(runtime[i].copy)
    <3>1. runtime[i].copy \in Copies
      BY DEF EmbeddingsInv, RuntimeRecords
    <3> QED
      BY <3>1, CopyKeys DEF Copies
  <2> QED
    BY <2>1, <2>2 DEF EmbeddingsMatch
<1> QED
  BY <1>1, InitialEmbeddings, EmbeddingsStep, PTL DEF EmbeddingsSpec

----------------------------------------------------------------------------
(***************************************************************************)
(* What an answer shows of its sources, for any texts and any number of    *)
(* sources.  The loop that looks for brackets is followed stop by stop;    *)
(* what has been stripped is scanned again, and its stops are those of the *)
(* answer that were kept.                                                  *)
(***************************************************************************)

LEMMA ClosingIs ==
  ASSUME NEW text \in Seq(Tokens), NEW i \in 1 .. Len(text)
  PROVE  \/ /\ Closing(text, i) = 0
            /\ \A j \in i + 1 .. Len(text) : text[i].kind # "open" \/ text[j].kind # "close"
         \/ /\ Closing(text, i) \in i + 1 .. Len(text)
            /\ text[i].kind = "open" /\ text[Closing(text, i)].kind = "close"
            /\ \A j \in i + 1 .. Closing(text, i) - 1 : text[j].kind # "close"
<1> DEFINE places == {j \in i + 1 .. Len(text) : text[i].kind = "open" /\ text[j].kind = "close"}
<1>1. Closing(text, i) = IF places = {} THEN 0 ELSE Min(places)
  BY DEF Closing
<1>2. CASE places = {}
  BY <1>1, <1>2
<1>3. CASE places # {}
  <2>1. places \in SUBSET Nat
    OBVIOUS
  <2>2. Min(places) \in places /\ \A y \in places : Min(places) <= y
    <3> HIDE DEF places
    <3> QED
      BY <1>3, <2>1, FirstPosition
  <2>3. Closing(text, i) = Min(places)
    BY <1>1, <1>3
  <2> DEFINE c == Min(places)
  <2>4. c \in i + 1 .. Len(text) /\ text[i].kind = "open" /\ text[c].kind = "close"
    BY <2>2
  <2>5. ASSUME NEW j \in i + 1 .. c - 1 PROVE text[j].kind # "close"
    <3>1. j \in i + 1 .. Len(text) /\ ~(c <= j)
      BY <2>4
    <3>2. j \notin places
      BY <2>2, <3>1
    <3> QED
      BY <2>4, <3>1, <3>2
  <2> QED
    BY <2>3, <2>4, <2>5
<1> QED
  BY <1>2, <1>3

\* A bracket that closes at c, and a place where nothing opens or closes.
LEMMA ClosesAt ==
  ASSUME NEW text \in Seq(Tokens), NEW i \in 1 .. Len(text), NEW c \in i + 1 .. Len(text),
         text[i].kind = "open", text[c].kind = "close",
         \A j \in i + 1 .. c - 1 : text[j].kind # "close"
  PROVE  Closing(text, i) = c
<1>1. Closing(text, i) # 0
  BY ClosingIs
<1>2. /\ Closing(text, i) \in i + 1 .. Len(text) /\ text[Closing(text, i)].kind = "close"
      /\ \A j \in i + 1 .. Closing(text, i) - 1 : text[j].kind # "close"
  BY <1>1, ClosingIs
<1> QED
  BY <1>2

LEMMA NeverCloses ==
  ASSUME NEW text \in Seq(Tokens), NEW i \in 1 .. Len(text),
         \A j \in i + 1 .. Len(text) : text[i].kind # "open" \/ text[j].kind # "close"
  PROVE  Closing(text, i) = 0
  BY ClosingIs

LEMMA AfterIs ==
  ASSUME NEW text \in Seq(Tokens), NEW i \in 1 .. Len(text)
  PROVE  After(text, i) \in i + 1 .. Len(text) + 1
  BY ClosingIs DEF After

\* The loop, round by round.
Loop(text, f) ==
  /\ f \in [0 .. Len(text) -> 1 .. Len(text) + 1]
  /\ f[0] = 1
  /\ \A k \in 1 .. Len(text) :
       f[k] = IF f[k - 1] > Len(text) THEN f[k - 1] ELSE After(text, f[k - 1])
  /\ Stops(text) = {f[k] : k \in 0 .. Len(text)} \cap 1 .. Len(text)

LEMMA LoopIs ==
  ASSUME NEW text \in Seq(Tokens)
  PROVE  \E f : Loop(text, f)
<1> DEFINE N == Len(text)
           C == 1 .. N + 1
           one(i) == IF i > N THEN i ELSE After(text, i)
           body(h) == [n \in 0 .. N |-> IF n = 0 THEN 1 ELSE one(h[n - 1])]
           index == CHOOSE h : h = body(h)
           g == [n \in 1 .. N |-> [i \in C |-> one(i)]]
<1>1. N \in Nat
  OBVIOUS
<1>2. \A i \in C : one(i) \in C
  <2> SUFFICES ASSUME NEW i \in C PROVE one(i) \in C
    OBVIOUS
  <2>1. CASE i > N
    BY <2>1
  <2>2. CASE ~(i > N)
    <3>1. i \in 1 .. Len(text)
      BY <1>1, <2>2
    <3> QED
      BY <1>1, <2>2, <3>1, AfterIs
  <2> QED
    BY <2>1, <2>2
<1>3. Stops(text) = {index[n] : n \in 0 .. N} \cap 1 .. N
  BY DEF Stops
<1>o. /\ \A i : one(i) = IF i > Len(text) THEN i ELSE After(text, i)
      /\ N = Len(text)
  OBVIOUS
<1>c. 1 \in C
  BY <1>1
<1> HIDE DEF N, one, C
<1>4. g \in [1 .. N -> [C -> C]]
  BY <1>2
<1>5. PICK f \in [0 .. N -> C] : Runs(f, 1, N, g)
  <2> HIDE DEF g
  <2> QED
    BY <1>1, <1>4, <1>c, Stepwise
<1>6. f = body(f)
  <2>1. ASSUME NEW k \in 1 .. N PROVE f[k] = one(f[k - 1])
    <3>1. k - 1 \in 0 .. N
      BY <1>1
    <3>2. f[k - 1] \in C
      BY <3>1
    <3> QED
      BY <1>5, <3>2 DEF Runs
  <2>2. f[0] = 1
    BY <1>5 DEF Runs
  <2>3. \A k \in 0 .. N : k = 0 \/ k \in 1 .. N
    BY <1>1
  <2> HIDE DEF g
  <2> QED
    BY <2>1, <2>2, <2>3
<1>7. index = body(index)
  BY <1>6
<1> DEFINE T == {k \in Nat : k <= N => index[k] \in C}
<1> HIDE DEF index
<1>8. 0 \in T
  BY <1>1, <1>7, <1>c
<1>9. ASSUME NEW k \in Nat, k \in T PROVE k + 1 \in T
  <2> SUFFICES ASSUME k + 1 <= N PROVE index[k + 1] \in C
    OBVIOUS
  <2>1. k + 1 \in 0 .. N /\ k + 1 \in 1 .. N /\ k + 1 # 0 /\ (k + 1) - 1 = k /\ k <= N
    BY <1>1
  <2>2. index[k + 1] = one(index[k])
    BY <1>7, <2>1
  <2> QED
    BY <1>2, <1>9, <2>1, <2>2
<1>10. \A k \in 0 .. N : index[k] \in C
  <2> HIDE DEF T
  <2>1. Nat \subseteq T
    BY <1>8, <1>9, Induction
  <2> QED
    BY <2>1, <1>1 DEF T
<1>11. /\ index \in [0 .. N -> C] /\ index[0] = 1
       /\ \A k \in 1 .. N : index[k] = one(index[k - 1])
  <2>1. 0 \in 0 .. N /\ \A k \in 1 .. N : k \in 0 .. N /\ k # 0
    BY <1>1
  <2>2. index[0] = 1 /\ \A k \in 1 .. N : index[k] = one(index[k - 1])
    BY <1>7, <2>1
  <2>3. index \in [0 .. N -> C]
    BY <1>7, <1>10
  <2> QED
    BY <2>2, <2>3
<1>12. Loop(text, index)
  BY <1>3, <1>11, <1>o DEF Loop, C
<1> QED
  BY <1>12

\* A set of places that cuts a text the way the loops do: steps do not overlap
\* and cover the text.
Cuts(text, Q) ==
  /\ Q \subseteq 1 .. Len(text)
  /\ \A i, j \in Q : i < j => After(text, i) <= j
  /\ \A x \in 1 .. Len(text) : \E s \in Q : s <= x /\ x < After(text, s)

LEMMA StopsCut ==
  ASSUME NEW text \in Seq(Tokens)
  PROVE  Cuts(text, Stops(text))
<1> DEFINE N == Len(text)
<1>n. N \in Nat
  OBVIOUS
<1>1. PICK f : Loop(text, f)
  BY LoopIs
<1>2. /\ f \in [0 .. N -> 1 .. N + 1] /\ f[0] = 1
      /\ \A k \in 1 .. N : f[k] = IF f[k - 1] > N THEN f[k - 1] ELSE After(text, f[k - 1])
      /\ Stops(text) = {f[k] : k \in 0 .. N} \cap 1 .. N
  BY <1>1 DEF Loop
<1>3. \A i \in 1 .. N : After(text, i) \in i + 1 .. N + 1
  BY AfterIs
<1> HIDE DEF N
<1>4. ASSUME NEW k \in Nat, k + 1 <= N
      PROVE  /\ k \in 0 .. N /\ k + 1 \in 0 .. N /\ f[k] \in 1 .. N + 1 /\ f[k + 1] \in 1 .. N + 1
             /\ f[k] <= f[k + 1]
             /\ f[k] <= N => f[k + 1] = After(text, f[k]) /\ f[k] < f[k + 1]
             /\ f[k] > N => f[k + 1] = f[k]
  <2>1. k + 1 \in 1 .. N /\ (k + 1) - 1 = k /\ k \in 0 .. N /\ k + 1 \in 0 .. N
    BY <1>n, <1>4
  <2>2. f[k + 1] = IF f[k] > N THEN f[k] ELSE After(text, f[k])
    BY <1>2, <2>1
  <2>3. f[k] \in 1 .. N + 1 /\ f[k + 1] \in 1 .. N + 1
    BY <1>2, <2>1
  <2>4. CASE f[k] > N
    BY <2>1, <2>2, <2>3, <2>4, <1>n
  <2>5. CASE ~(f[k] > N)
    <3>1. f[k] \in 1 .. N
      BY <2>3, <2>5, <1>n
    <3>2. After(text, f[k]) \in f[k] + 1 .. N + 1
      BY <3>1, <1>3
    <3> QED
      BY <2>1, <2>2, <2>3, <2>5, <3>1, <3>2, <1>n
  <2> QED
    BY <2>4, <2>5
<1>5. \A k \in 0 .. N : \A l \in 0 .. k : f[l] <= f[k]
  <2> DEFINE T == {k \in Nat : k <= N => \A l \in 0 .. k : f[l] <= f[k]}
  <2>1. 0 \in T
    BY <1>2, <1>n
  <2>2. ASSUME NEW k \in Nat, k \in T PROVE k + 1 \in T
    <3> SUFFICES ASSUME k + 1 <= N, NEW l \in 0 .. k + 1 PROVE f[l] <= f[k + 1]
      OBVIOUS
    <3>1. f[k] <= f[k + 1] /\ f[k] \in Int /\ f[k + 1] \in Int /\ k <= N
      BY <1>4, <1>n
    <3>2. CASE l = k + 1
      BY <3>1, <3>2
    <3>3. CASE l \in 0 .. k
      <4>1. l \in 0 .. N
        BY <3>3, <3>1, <1>n
      <4>2. f[l] \in Int
        BY <4>1, <1>2
      <4>3. f[l] <= f[k]
        BY <2>2, <3>1, <3>3
      <4> QED
        BY <3>1, <4>2, <4>3
    <3> QED
      BY <3>2, <3>3
  <2> HIDE DEF T
  <2>3. Nat \subseteq T
    BY <2>1, <2>2, Induction
  <2> QED
    BY <2>3, <1>n DEF T
<1>6. f[N] = N + 1
  <2> DEFINE T == {k \in Nat : k <= N => f[k] >= k + 1}
  <2>1. 0 \in T
    BY <1>2
  <2>2. ASSUME NEW k \in Nat, k \in T PROVE k + 1 \in T
    <3> SUFFICES ASSUME k + 1 <= N PROVE f[k + 1] >= k + 1 + 1
      OBVIOUS
    <3>1. f[k] >= k + 1
      BY <2>2, <1>n
    <3>2. f[k] \in 1 .. N + 1 /\ f[k + 1] \in 1 .. N + 1
      BY <1>4
    <3>3. f[k] > N \/ f[k] < f[k + 1]
      BY <1>4, <3>2, <1>n
    <3>4. f[k] > N => f[k + 1] = f[k]
      BY <1>4
    <3> QED
      BY <3>1, <3>2, <3>3, <3>4, <1>n
  <2> HIDE DEF T
  <2>3. Nat \subseteq T
    BY <2>1, <2>2, Induction
  <2>4. f[N] >= N + 1 /\ f[N] \in 1 .. N + 1
    BY <2>3, <1>n, <1>2 DEF T
  <2> QED
    BY <2>4, <1>n
<1>7. ASSUME NEW i \in Stops(text), NEW j \in Stops(text), i < j PROVE After(text, i) <= j
  <2>1. PICK a \in 0 .. N : f[a] = i
    BY <1>2
  <2>2. PICK b \in 0 .. N : f[b] = j
    BY <1>2
  <2>3. i \in 1 .. N /\ j \in 1 .. N
    BY <1>2
  <2>4. a < b
    <3>1. CASE b <= a
      <4>1. f[b] <= f[a]
        BY <3>1, <1>5
      <4> QED
        BY <4>1, <2>1, <2>2, <2>3, <1>7
    <3> QED
      BY <3>1
  <2>5. a \in Nat /\ a + 1 <= N /\ a + 1 \in 0 .. b /\ f[a] <= N
    BY <2>1, <2>3, <2>4, <1>n
  <2>6. f[a + 1] = After(text, f[a])
    BY <1>4, <2>5
  <2>7. f[a + 1] <= f[b]
    BY <1>5, <2>5
  <2> QED
    BY <2>1, <2>2, <2>6, <2>7
<1>8. ASSUME NEW x \in 1 .. N PROVE \E s \in Stops(text) : s <= x /\ x < After(text, s)
  <2> DEFINE T == {k \in 0 .. N : f[k] > x}
  <2>1. N \in T /\ T \subseteq Nat
    BY <1>6, <1>n
  <2>2. PICK k \in T : \A m \in T : k <= m
    BY <2>1, LeastNatural
  <2>3. k # 0
    BY <2>2, <1>2
  <2>4. k - 1 \in Nat /\ (k - 1) + 1 = k /\ (k - 1) + 1 <= N /\ k - 1 \in 0 .. N
    BY <2>2, <2>3, <1>n
  <2>5. ~(k - 1 \in T)
    BY <2>2, <2>4
  <2>6. f[k - 1] \in 1 .. N + 1 /\ ~(f[k - 1] > x)
    BY <2>4, <2>5, <1>2
  <2>7. f[k - 1] <= x /\ f[k - 1] <= N /\ f[k - 1] \in 1 .. N
    BY <2>6, <1>n
  <2>8. f[(k - 1) + 1] = After(text, f[k - 1])
    BY <2>4, <2>7, <1>4
  <2>9. f[k - 1] \in Stops(text)
    BY <1>2, <2>4, <2>7
  <2> QED
    BY <2>2, <2>4, <2>7, <2>8, <2>9
<1> QED
  BY <1>2, <1>7, <1>8 DEF Cuts, N

\* There is one such set.
LEMMA OneCut ==
  ASSUME NEW text \in Seq(Tokens), NEW Q, NEW R, Cuts(text, Q), Cuts(text, R)
  PROVE  Q = R
<1> DEFINE D == (Q \ R) \cup (R \ Q)
<1> SUFFICES ASSUME D # {} PROVE FALSE
  OBVIOUS
<1>1. Q \subseteq 1 .. Len(text) /\ R \subseteq 1 .. Len(text) /\ D \subseteq Nat
  BY DEF Cuts
<1>2. PICK x \in D : \A y \in D : x <= y
  BY <1>1, LeastNatural
<1>3. ASSUME NEW A, NEW B, Cuts(text, A), Cuts(text, B), x \in A, x \notin B,
             \A y \in A \cup B : y < x => (y \in A /\ y \in B)
      PROVE  FALSE
  <2>1. x \in 1 .. Len(text)
    BY <1>3 DEF Cuts
  <2>2. PICK s \in B : s <= x /\ x < After(text, s)
    BY <2>1, <1>3 DEF Cuts
  <2>3. s \in 1 .. Len(text) /\ s # x
    BY <1>3 DEF Cuts
  <2>4. s < x
    BY <2>1, <2>2, <2>3
  <2>5. s \in A
    BY <1>3, <2>4
  <2>6. After(text, s) <= x
    BY <1>3, <2>4, <2>5 DEF Cuts
  <2>7. After(text, s) \in Int
    BY <2>3, AfterIs
  <2> QED
    BY <2>1, <2>2, <2>6, <2>7
<1>4. \A y \in Q \cup R : y < x => (y \in Q /\ y \in R)
  BY <1>1, <1>2
<1> QED
  BY <1>2, <1>3, <1>4


\* Positions picked in a row stay in a row.
LEMMA PickedRun ==
  ASSUME NEW S, NEW seq \in Seq(S), NEW P, P \subseteq DOMAIN seq,
         NEW k \in 1 .. Cardinality(P), NEW e \in Int, Nth(P, k) .. e \subseteq P
  PROVE  \A d \in 0 .. e - Nth(P, k) :
           k + d \in 1 .. Cardinality(P) /\ Nth(P, k + d) = Nth(P, k) + d
<1> DEFINE m == Cardinality(P)  i == Nth(P, k)
           T == {d \in Nat : d <= e - i => k + d \in 1 .. m /\ Nth(P, k + d) = i + d}
<1>1. P \subseteq Nat /\ m \in Nat
  BY PositionsFinite
<1>2. /\ \A a \in 1 .. m : Nth(P, a) \in P
      /\ \A a, b \in 1 .. m : a < b => Nth(P, a) < Nth(P, b)
      /\ \A x \in P : \E a \in 1 .. m : Nth(P, a) = x
  BY PickedIs
<1>3. i \in Nat /\ k \in 1 .. m /\ i .. e \subseteq P /\ Nth(P, k) = i
  BY <1>1, <1>2
<1> HIDE DEF m, i
<1>4. 0 \in T
  BY <1>3
<1>5. ASSUME NEW d \in Nat, d \in T PROVE d + 1 \in T
  <2> SUFFICES ASSUME d + 1 <= e - i PROVE k + (d + 1) \in 1 .. m /\ Nth(P, k + (d + 1)) = i + (d + 1)
    OBVIOUS
  <2>1. k + d \in 1 .. m /\ Nth(P, k + d) = i + d
    BY <1>5, <1>3
  <2>2. i + d + 1 \in i .. e
    BY <1>3
  <2>3. PICK a \in 1 .. m : Nth(P, a) = i + d + 1
    BY <1>2, <1>3, <2>2
  <2>4. a > k + d
    <3>1. CASE a < k + d
      <4>1. Nth(P, a) < Nth(P, k + d)
        BY <1>2, <2>1, <3>1
      <4> QED
        BY <4>1, <2>1, <2>3, <1>3
    <3>2. CASE a = k + d
      BY <3>2, <2>1, <2>3, <1>3
    <3> QED
      BY <3>1, <3>2, <2>1
  <2>5. ~(a > k + d + 1)
    <3> SUFFICES ASSUME a > k + d + 1 PROVE FALSE
      OBVIOUS
    <3>1. k + d + 1 \in 1 .. m
      BY <1>1, <1>3, <2>1
    <3>2. Nth(P, k + d) < Nth(P, k + d + 1) /\ Nth(P, k + d + 1) < Nth(P, a)
      BY <1>2, <2>1, <3>1
    <3>3. Nth(P, k + d + 1) \in Nat
      BY <1>1, <1>2, <3>1
    <3> QED
      BY <3>2, <3>3, <2>1, <2>3, <1>3
  <2>6. a = k + (d + 1)
    BY <2>4, <2>5, <1>3
  <2> QED
    BY <2>3, <2>6, <1>3
<1> HIDE DEF T
<1>6. Nat \subseteq T
  BY <1>4, <1>5, Induction
<1>7. \A d \in 0 .. e - i : k + d \in 1 .. m /\ Nth(P, k + d) = i + d
  BY <1>6, <1>3 DEF T
<1> QED
  BY <1>7 DEF m, i

\* What is dropped and kept of a text.
Dropped(text, valid) ==
  UNION {i .. Closing(text, i) : i \in {j \in Stops(text) : IndexAt(text, j) \notin valid \cup {-1}}}
Kept(text, valid) == DOMAIN text \ Dropped(text, valid)

\* A step of the scan is dropped whole, when its index is invalid, or kept whole.
LEMMA KeptWhole ==
  ASSUME NEW text \in Seq(Tokens), NEW valid, NEW s \in Stops(text),
         NEW x \in Kept(text, valid), s <= x, x < After(text, s)
  PROVE  /\ s .. After(text, s) - 1 \subseteq Kept(text, valid)
         /\ IndexAt(text, s) \in valid \cup {-1}
<1> DEFINE N == Len(text)
<1>1. /\ Stops(text) \subseteq 1 .. N
      /\ \A i, j \in Stops(text) : i < j => After(text, i) <= j
  BY StopsCut DEF Cuts
<1>2. DOMAIN text = 1 .. N /\ N \in Nat /\ x \in 1 .. N /\ s \in 1 .. N
  BY <1>1 DEF Kept
<1>3. After(text, s) \in s + 1 .. N + 1
  BY <1>2, AfterIs
<1>4. ASSUME NEW j \in Stops(text), IndexAt(text, j) \notin valid \cup {-1}
      PROVE  Closing(text, j) = After(text, j) - 1 /\ j \in 1 .. N /\ After(text, j) \in j + 1 .. N + 1
  <2>1. j \in 1 .. N
    BY <1>1
  <2>2. IndexAt(text, j) # -1
    BY <1>4
  <2>3. Closing(text, j) = j + 2
    BY <2>2 DEF IndexAt
  <2> QED
    BY <2>1, <2>3, AfterIs DEF After
<1>5. IndexAt(text, s) \in valid \cup {-1}
  <2> SUFFICES ASSUME IndexAt(text, s) \notin valid \cup {-1} PROVE FALSE
    OBVIOUS
  <2>1. x \in s .. Closing(text, s)
    BY <1>4, <1>2, <1>3
  <2>2. x \in Dropped(text, valid)
    BY <2>1 DEF Dropped
  <2> QED
    BY <2>2 DEF Kept
<1>6. ASSUME NEW y \in s .. After(text, s) - 1 PROVE y \in Kept(text, valid)
  <2>1. y \in 1 .. N
    BY <1>2, <1>3
  <2>2. ASSUME y \in Dropped(text, valid) PROVE FALSE
    <3>1. PICK j \in Stops(text) : IndexAt(text, j) \notin valid \cup {-1} /\ y \in j .. Closing(text, j)
      BY <2>2 DEF Dropped
    <3>2. Closing(text, j) = After(text, j) - 1 /\ j \in 1 .. N /\ After(text, j) \in j + 1 .. N + 1
      BY <1>4, <3>1
    <3>3. j # s
      BY <1>5, <3>1
    <3>4. j < s => After(text, j) <= s
      BY <1>1
    <3>5. s < j => After(text, s) <= j
      BY <1>1
    <3> QED
      BY <1>2, <1>3, <3>1, <3>2, <3>3, <3>4, <3>5
  <2> QED
    BY <1>2, <2>1, <2>2 DEF Kept
<1> QED
  BY <1>5, <1>6

\* A kept step is read in what is left as it was read in the text.
LEMMA KeptStep ==
  ASSUME NEW text \in Seq(Tokens), NEW valid,
         NEW k \in 1 .. Cardinality(Kept(text, valid)), Nth(Kept(text, valid), k) \in Stops(text)
  PROVE  LET i == Nth(Kept(text, valid), k)
             left == StripInvalid(text, valid)
         IN /\ After(left, k) = k + (After(text, i) - i)
            /\ IndexAt(left, k) = IndexAt(text, i)
            /\ k + (After(text, i) - 1 - i) \in 1 .. Cardinality(Kept(text, valid))
            /\ Nth(Kept(text, valid), k + (After(text, i) - 1 - i)) = After(text, i) - 1
<1> DEFINE P == Kept(text, valid)  m == Cardinality(P)  i == Nth(P, k)
           left == StripInvalid(text, valid)  N == Len(text)  e == After(text, i) - 1
<1>1. P \subseteq DOMAIN text /\ DOMAIN text = 1 .. N /\ N \in Nat
  BY DEF Kept
<1>2. left = Picked(text, P)
  BY DEF StripInvalid, Kept, Dropped
<1>3. /\ left \in Seq(Tokens) /\ Len(left) = m /\ DOMAIN left = 1 .. m
      /\ \A a \in 1 .. m : Nth(P, a) \in P /\ left[a] = text[Nth(P, a)]
      /\ \A a, b \in 1 .. m : a < b => Nth(P, a) < Nth(P, b)
  BY <1>1, <1>2, PickedIs
<1>4. m \in Nat
  BY <1>1, PositionsFinite
<1>5. i \in P /\ i \in 1 .. N /\ i \in Stops(text)
  BY <1>1, <1>3
<1>6. After(text, i) \in i + 1 .. N + 1 /\ e \in i .. N
  BY <1>5, AfterIs
<1>7. i .. e \subseteq P
  <2>1. i <= i /\ i < After(text, i)
    BY <1>5, <1>6
  <2> HIDE DEF i
  <2> QED
    BY <1>5, <2>1, KeptWhole
<1>8. \A d \in 0 .. e - i : k + d \in 1 .. m /\ Nth(P, k + d) = i + d
  <2>1. /\ e \in Int /\ i .. e \subseteq P /\ P \subseteq DOMAIN text
        /\ k \in 1 .. Cardinality(P)
    BY <1>1, <1>5, <1>6, <1>7
  <2>2. Nth(P, k) .. e \subseteq P
    BY <2>1
  <2> HIDE DEF P, e, i, m
  <2>3. \A d \in 0 .. e - Nth(P, k) :
          k + d \in 1 .. Cardinality(P) /\ Nth(P, k + d) = Nth(P, k) + d
    BY <2>1, <2>2, PickedRun
  <2> QED
    BY <2>3 DEF i, m
<1>9. \A d \in 0 .. e - i : k + d \in 1 .. m /\ left[k + d] = text[i + d]
  BY <1>3, <1>8
<1>10. e - i \in 0 .. e - i /\ i + (e - i) = e
  BY <1>5, <1>6
<1>11. left[k] = text[i] /\ k \in 1 .. m
  BY <1>3
<1>l. left \in Seq(Tokens) /\ Len(left) = m
  BY <1>3
<1>o. After(text, i) = e + 1 /\ k \in Int /\ i \in Int /\ e \in Int
  BY <1>5, <1>6
<1>d. /\ After(left, k) = IF Closing(left, k) = 0 THEN k + 1 ELSE Closing(left, k) + 1
      /\ After(text, i) = IF Closing(text, i) = 0 THEN i + 1 ELSE Closing(text, i) + 1
      /\ IndexAt(left, k) = IF Closing(left, k) = k + 2 /\ left[k + 1].kind = "number"
                            THEN left[k + 1].value ELSE -1
      /\ IndexAt(text, i) = IF Closing(text, i) = i + 2 /\ text[i + 1].kind = "number"
                            THEN text[i + 1].value ELSE -1
  BY DEF After, IndexAt
<1>12. After(left, k) = k + (e - i) + 1 /\ IndexAt(left, k) = IndexAt(text, i)
  <2> HIDE DEF P, m, i, left, N, e
  <2>1. CASE Closing(text, i) = 0
    <3>1. \A j \in i + 1 .. N : text[i].kind # "open" \/ text[j].kind # "close"
      BY <1>5, <2>1, ClosingIs DEF N
    <3>2. ASSUME NEW a \in k + 1 .. m PROVE left[k].kind # "open" \/ left[a].kind # "close"
      <4>1. a \in 1 .. m /\ k < a
        BY <1>4, <1>11
      <4>2. Nth(P, k) < Nth(P, a) /\ Nth(P, a) \in P
        BY <1>3, <1>11, <4>1
      <4>3. Nth(P, a) \in i + 1 .. N
        BY <1>1, <1>5, <4>2 DEF i
      <4> QED
        BY <1>3, <1>11, <3>1, <4>1, <4>3
    <3>3. Closing(left, k) = 0
      BY <1>l, <1>11, <3>2, NeverCloses
    <3>4. e = i
      BY <1>d, <1>o, <2>1
    <3>5. After(left, k) = k + 1 /\ IndexAt(left, k) = -1
      BY <1>d, <3>3, <1>11
    <3>6. IndexAt(text, i) = -1
      BY <1>d, <2>1, <1>5
    <3> QED
      BY <3>4, <3>5, <3>6, <1>o
  <2>2. CASE Closing(text, i) # 0
    <3>1. /\ Closing(text, i) \in i + 1 .. N /\ text[i].kind = "open"
          /\ text[Closing(text, i)].kind = "close"
          /\ \A j \in i + 1 .. Closing(text, i) - 1 : text[j].kind # "close"
      BY <1>5, <2>2, ClosingIs DEF N
    <3>2. Closing(text, i) = e
      BY <1>d, <1>o, <2>2, <3>1, <1>5
    <3> DEFINE c == k + (e - i)
    <3>3. c \in 1 .. m /\ left[c] = text[e]
      BY <1>9, <1>10
    <3>4. c \in k + 1 .. m
      BY <3>1, <3>2, <3>3, <1>o
    <3>5. ASSUME NEW a \in k + 1 .. c - 1 PROVE left[a].kind # "close"
      <4>1. a - k \in 0 .. e - i /\ k + (a - k) = a /\ i + (a - k) \in i + 1 .. e - 1
        BY <1>o
      <4>2. left[a] = text[i + (a - k)]
        BY <1>9, <4>1
      <4> QED
        BY <3>1, <3>2, <4>1, <4>2
    <3>6. Closing(left, k) = c
      <4> HIDE DEF c
      <4> QED
        BY <1>l, <1>11, <3>1, <3>2, <3>3, <3>4, <3>5, ClosesAt
    <3>7. After(left, k) = k + (e - i) + 1
      BY <1>d, <3>4, <3>6, <1>11
    <3>8. Closing(left, k) = k + 2 <=> Closing(text, i) = i + 2
      BY <3>2, <3>6, <1>o
    <3>9. Closing(text, i) = i + 2 => left[k + 1] = text[i + 1]
      <4> SUFFICES ASSUME Closing(text, i) = i + 2 PROVE left[k + 1] = text[i + 1]
        OBVIOUS
      <4>1. 1 \in 0 .. e - i
        BY <3>2, <1>o
      <4> QED
        BY <1>9, <4>1
    <3> QED
      BY <1>d, <3>7, <3>8, <3>9
  <2> QED
    BY <2>1, <2>2
<1>13. k + (After(text, i) - i) = k + (e - i) + 1 /\ After(text, i) - 1 - i = e - i
  BY <1>o
<1> QED
  BY <1>8, <1>10, <1>12, <1>13

\* The loops stop in what is left where they stopped in the text.
LEMMA StopsLeft ==
  ASSUME NEW text \in Seq(Tokens), NEW valid
  PROVE  Stops(StripInvalid(text, valid)) =
           {k \in 1 .. Cardinality(Kept(text, valid)) : Nth(Kept(text, valid), k) \in Stops(text)}
<1> DEFINE P == Kept(text, valid)  m == Cardinality(P)  N == Len(text)
           left == StripInvalid(text, valid)
           R == {k \in 1 .. m : Nth(P, k) \in Stops(text)}
           last(k) == k + (After(text, Nth(P, k)) - 1 - Nth(P, k))
<1>1. P \subseteq DOMAIN text /\ DOMAIN text = 1 .. N /\ N \in Nat
  BY DEF Kept
<1>2. left = Picked(text, P)
  BY DEF StripInvalid, Kept, Dropped
<1>3. /\ left \in Seq(Tokens) /\ Len(left) = m
      /\ \A a \in 1 .. m : Nth(P, a) \in P
      /\ \A a, b \in 1 .. m : a < b => Nth(P, a) < Nth(P, b)
      /\ \A x \in P : \E a \in 1 .. m : Nth(P, a) = x
  BY <1>1, <1>2, PickedIs
<1>4. m \in Nat
  BY <1>1, PositionsFinite
<1>5. /\ Stops(text) \subseteq 1 .. N
      /\ \A i, j \in Stops(text) : i < j => After(text, i) <= j
      /\ \A x \in 1 .. N : \E s \in Stops(text) : s <= x /\ x < After(text, s)
  BY StopsCut DEF Cuts
<1>6. \A i \in 1 .. N : After(text, i) \in i + 1 .. N + 1
  BY AfterIs
<1>7. ASSUME NEW k \in R
      PROVE  /\ k \in 1 .. m /\ Nth(P, k) \in Stops(text) /\ Nth(P, k) \in 1 .. N
             /\ last(k) \in 1 .. m /\ After(left, k) = last(k) + 1
             /\ Nth(P, last(k)) = After(text, Nth(P, k)) - 1
  <2>1. k \in 1 .. m /\ Nth(P, k) \in Stops(text) /\ Nth(P, k) \in 1 .. N
    BY <1>5
  <2>2. After(text, Nth(P, k)) \in Int
    BY <2>1, <1>6
  <2>3. /\ After(left, k) = k + (After(text, Nth(P, k)) - Nth(P, k))
        /\ last(k) \in 1 .. m /\ Nth(P, last(k)) = After(text, Nth(P, k)) - 1
    BY <2>1, KeptStep
  <2> QED
    BY <2>1, <2>2, <2>3
<1>w. ASSUME NEW s \in Stops(text), NEW x \in P, s <= x, x < After(text, s)
      PROVE  s .. After(text, s) - 1 \subseteq P
  BY <1>w, KeptWhole
<1>o. \A a, b \in 1 .. m : Nth(P, a) < Nth(P, b) => a < b
  <2> SUFFICES ASSUME NEW a \in 1 .. m, NEW b \in 1 .. m, Nth(P, a) < Nth(P, b), ~(a < b) PROVE FALSE
    OBVIOUS
  <2>1. Nth(P, a) \in Int /\ Nth(P, b) \in Int
    BY <1>1, <1>3
  <2>2. a = b \/ b < a
    BY <1>4
  <2>3. Nth(P, b) = Nth(P, a) \/ Nth(P, b) < Nth(P, a)
    BY <1>3, <2>2
  <2> QED
    BY <2>1, <2>3
<1>e. 1 .. Len(left) = 1 .. m
  BY <1>3
<1> HIDE DEF P, m, N, left
<1>8. ASSUME NEW a \in R, NEW b \in R, a < b PROVE After(left, a) <= b
  <2>1. After(text, Nth(P, a)) <= Nth(P, b)
    BY <1>3, <1>5, <1>7, <1>8
  <2>2. After(text, Nth(P, a)) \in Int /\ Nth(P, b) \in Int
    BY <1>6, <1>7
  <2>3. Nth(P, last(a)) < Nth(P, b)
    BY <1>7, <2>1, <2>2
  <2>4. last(a) < b
    BY <1>7, <1>o, <2>3
  <2>5. last(a) \in Int /\ b \in Int /\ After(left, a) = last(a) + 1
    BY <1>7
  <2> HIDE DEF last
  <2> QED
    BY <2>4, <2>5
<1>9. ASSUME NEW y \in 1 .. m PROVE \E k \in R : k <= y /\ y < After(left, k)
  <2>1. Nth(P, y) \in P /\ Nth(P, y) \in 1 .. N
    BY <1>1, <1>3
  <2>2. PICK s \in Stops(text) : s <= Nth(P, y) /\ Nth(P, y) < After(text, s)
    BY <1>5, <2>1
  <2>3. s \in 1 .. N /\ After(text, s) \in s + 1 .. N + 1
    BY <1>5, <1>6
  <2>4. s \in P
    <3>1. s \in s .. After(text, s) - 1
      BY <2>3
    <3> QED
      BY <1>w, <2>1, <2>2, <3>1
  <2>5. PICK k \in 1 .. m : Nth(P, k) = s
    BY <1>3, <2>4
  <2>6. k \in R
    BY <2>5
  <2>7. k <= y
    <3>1. CASE y < k
      <4>1. Nth(P, y) < Nth(P, k)
        BY <1>3, <3>1
      <4> QED
        BY <4>1, <2>1, <2>2, <2>3, <2>5
    <3> QED
      BY <3>1, <1>4
  <2>8. last(k) \in 1 .. m /\ After(left, k) = last(k) + 1 /\ Nth(P, last(k)) = After(text, s) - 1
    BY <1>7, <2>5, <2>6
  <2> HIDE DEF last
  <2>9. ~(last(k) < y)
    <3> SUFFICES ASSUME last(k) < y PROVE FALSE
      OBVIOUS
    <3>1. Nth(P, last(k)) < Nth(P, y)
      BY <1>3, <2>8
    <3> QED
      BY <3>1, <2>1, <2>2, <2>3, <2>8
  <2>10. y < After(left, k)
    BY <2>8, <2>9, <1>4
  <2> QED
    BY <2>6, <2>7, <2>10
<1>10. Cuts(left, R)
  BY <1>e, <1>8, <1>9 DEF Cuts
<1>11. Cuts(left, Stops(left))
  BY <1>3, StopsCut
<1>12. Stops(left) = R
  BY <1>3, <1>10, <1>11, OneCut
<1> QED
  BY <1>12 DEF P, m, left


\* A list without repetition has as many values as places.
LEMMA AllDistinct ==
  ASSUME NEW S, NEW seq \in Seq(S), \A k, l \in 1 .. Len(seq) : seq[k] = seq[l] => k = l
  PROVE  Cardinality({seq[k] : k \in DOMAIN seq}) = Len(seq)
<1> DEFINE n == Len(seq)
           V == {seq[k] : k \in 1 .. n}
           f == [k \in 1 .. n |-> seq[k]]
<1>1. n \in Nat /\ DOMAIN seq = 1 .. n
  OBVIOUS
<1>2. \A k, l \in 1 .. n : f[k] = f[l] => k = l
  OBVIOUS
<1>3. f \in [1 .. n -> V] /\ DOMAIN f = 1 .. n /\ \A v \in V : \E k \in 1 .. n : f[k] = v
  OBVIOUS
<1> HIDE DEF f, V, n
<1>4. f \in Bijection(1 .. n, V)
  BY <1>2, <1>3 DEF Bijection, Injection, Surjection, IsInjective
<1>5. IsFiniteSet(1 .. n) /\ Cardinality(1 .. n) = n
  BY <1>1, UpTo
<1>6. Cardinality(V) = n
  BY <1>4, <1>5, FS_Bijection DEF ExistsBijection
<1> QED
  BY <1>1, <1>6 DEF V, n

\* ExtractCitations lists, once each, the valid indices the loop reads.
LEMMA CitationsAre ==
  ASSUME NEW text \in Seq(Tokens), NEW valid
  PROVE  LET cited == ExtractCitations(text, valid) IN
         /\ ToSet(cited) = {IndexAt(text, i) : i \in Stops(text)} \cap valid
         /\ Cardinality(ToSet(cited)) = Len(cited)
<1> DEFINE N == Len(text)
           found == {i \in Stops(text) : IndexAt(text, i) \in valid}
           firsts == {i \in found : \A j \in found : IndexAt(text, j) = IndexAt(text, i) => i <= j}
           all == [i \in DOMAIN text |-> IndexAt(text, i)]
           V == {IndexAt(text, i) : i \in DOMAIN text}
           cited == ExtractCitations(text, valid)
           m == Cardinality(firsts)
<1>1. cited = Picked(all, firsts)
  BY DEF ExtractCitations
<1>2. Stops(text) \subseteq 1 .. N /\ DOMAIN text = 1 .. N /\ N \in Nat
  BY StopsCut DEF Cuts
<1>3. all \in Seq(V) /\ DOMAIN all = 1 .. N
  BY <1>2
<1>4. firsts \subseteq DOMAIN all
  BY <1>2, <1>3
<1>5. /\ cited \in Seq(V) /\ Len(cited) = m /\ DOMAIN cited = 1 .. m
      /\ \A k \in 1 .. m : Nth(firsts, k) \in firsts /\ cited[k] = all[Nth(firsts, k)]
      /\ \A k, l \in 1 .. m : k < l => Nth(firsts, k) < Nth(firsts, l)
      /\ \A i \in firsts : \E k \in 1 .. m : Nth(firsts, k) = i
  <2> HIDE DEF firsts, all
  <2> QED
    BY <1>1, <1>3, <1>4, PickedIs
<1>6. m \in Nat
  <2> HIDE DEF firsts, all
  <2> QED
    BY <1>3, <1>4, PositionsFinite
<1>7. ASSUME NEW i \in found PROVE \E f \in firsts : IndexAt(text, f) = IndexAt(text, i)
  <2> DEFINE same == {j \in found : IndexAt(text, j) = IndexAt(text, i)}
  <2>1. same \subseteq Nat /\ same # {}
    BY <1>2
  <2>2. PICK f \in same : \A j \in same : f <= j
    <3> HIDE DEF same
    <3> QED
      BY <2>1, LeastNatural
  <2>3. f \in firsts
    BY <2>2
  <2> QED
    BY <2>2, <2>3
<1>8. \A i \in firsts : i \in Stops(text) /\ i \in DOMAIN text /\ IndexAt(text, i) \in valid
                         /\ all[i] = IndexAt(text, i)
  BY <1>2
<1>9. ToSet(cited) = {IndexAt(text, i) : i \in firsts}
  <2>1. ToSet(cited) = {cited[k] : k \in 1 .. m}
    BY <1>5 DEF ToSet
  <2>2. \A k \in 1 .. m : Nth(firsts, k) \in firsts /\ cited[k] = IndexAt(text, Nth(firsts, k))
    BY <1>5, <1>8
  <2>3. \A i \in firsts : \E k \in 1 .. m : Nth(firsts, k) = i
    BY <1>5
  <2> HIDE DEF cited, m, firsts, all
  <2> QED
    BY <2>1, <2>2, <2>3
<1>10. {IndexAt(text, i) : i \in firsts} = {IndexAt(text, i) : i \in Stops(text)} \cap valid
  <2>1. ASSUME NEW i \in Stops(text), IndexAt(text, i) \in valid
        PROVE  IndexAt(text, i) \in {IndexAt(text, f) : f \in firsts}
    <3>1. i \in found
      BY <2>1
    <3> HIDE DEF firsts, found
    <3> QED
      BY <1>7, <3>1
  <2> HIDE DEF firsts
  <2> QED
    BY <1>8, <2>1
<1>11. \A f, h \in firsts : IndexAt(text, f) = IndexAt(text, h) => f = h
  BY <1>2
<1>12. \A k, l \in 1 .. m : cited[k] = cited[l] => k = l
  <2> SUFFICES ASSUME NEW k \in 1 .. m, NEW l \in 1 .. m, cited[k] = cited[l], k # l PROVE FALSE
    OBVIOUS
  <2>1. Nth(firsts, k) \in firsts /\ Nth(firsts, l) \in firsts
    BY <1>5
  <2>2. Nth(firsts, k) = Nth(firsts, l)
    <3>1. /\ cited[k] = IndexAt(text, Nth(firsts, k))
          /\ cited[l] = IndexAt(text, Nth(firsts, l))
      <4> HIDE DEF firsts, all, cited, m
      <4> QED
        BY <1>5, <1>8, <2>1
    <3> HIDE DEF firsts, all, cited, m
    <3> QED
      BY <1>11, <2>1, <3>1
  <2>3. k < l \/ l < k
    BY <1>6
  <2>4. Nth(firsts, k) \in Nat
    BY <2>1, <1>2
  <2> HIDE DEF firsts, all, cited, m
  <2> QED
    BY <1>5, <2>2, <2>3, <2>4
<1>13. Cardinality(ToSet(cited)) = Len(cited)
  <2>1. cited \in Seq(V) /\ Len(cited) = m
    BY <1>5
  <2> HIDE DEF cited, m, V
  <2>2. Cardinality({cited[k] : k \in DOMAIN cited}) = Len(cited)
    BY <1>12, <2>1, AllDistinct
  <2> QED
    BY <2>2 DEF ToSet
<1> QED
  BY <1>9, <1>10, <1>13

\* What the loop reads in the stripped text are the valid indices it read in
\* the text.
LEMMA ShownAre ==
  ASSUME NEW text \in Seq(Tokens), NEW valid, -1 \notin valid
  PROVE  LET left == StripInvalid(text, valid)
         IN {IndexAt(left, k) : k \in Stops(left)} \ {-1} =
              {IndexAt(text, i) : i \in Stops(text)} \cap valid
<1> DEFINE P == Kept(text, valid)  m == Cardinality(P)
           left == StripInvalid(text, valid)
<1>1. Stops(left) = {k \in 1 .. m : Nth(P, k) \in Stops(text)}
  BY StopsLeft
<1>2. \A k \in Stops(left) : IndexAt(left, k) = IndexAt(text, Nth(P, k))
  BY <1>1, KeptStep
<1>3. P \subseteq DOMAIN text
  BY DEF Kept
<1>4. /\ \A k \in 1 .. m : Nth(P, k) \in P
      /\ \A i \in P : \E k \in 1 .. m : Nth(P, k) = i
  BY <1>3, PickedIs
<1>5. \A i \in Stops(text) : i \in DOMAIN text /\ i <= i /\ i < After(text, i)
  <2>1. Stops(text) \subseteq 1 .. Len(text)
    BY StopsCut DEF Cuts
  <2> QED
    BY <2>1, AfterIs
<1>6. ASSUME NEW i \in Stops(text), i \in P PROVE IndexAt(text, i) \in valid \cup {-1}
  <2> HIDE DEF P
  <2> QED
    BY <1>5, <1>6, KeptWhole DEF P
<1>7. ASSUME NEW i \in Stops(text), IndexAt(text, i) \in valid PROVE i \in P
  <2> SUFFICES ASSUME i \in Dropped(text, valid) PROVE FALSE
    BY <1>5 DEF Kept
  <2>1. PICK j \in Stops(text) : IndexAt(text, j) \notin valid \cup {-1} /\ i \in j .. Closing(text, j)
    BY DEF Dropped
  <2>2. j # i
    BY <1>7, <2>1
  <2>3. i \in Int /\ j \in Int /\ Closing(text, j) = j + 2 /\ After(text, j) = j + 3
    <3>1. IndexAt(text, j) # -1
      BY <2>1
    <3>2. Closing(text, j) = j + 2
      BY <3>1 DEF IndexAt
    <3>3. i \in 1 .. Len(text) /\ j \in 1 .. Len(text)
      BY StopsCut DEF Cuts
    <3> QED
      BY <3>2, <3>3 DEF After
  <2>4. j < i => After(text, j) <= i
    BY StopsCut DEF Cuts
  <2> QED
    BY <2>1, <2>2, <2>3, <2>4
<1> HIDE DEF P, m, left
<1>8. ASSUME NEW n \in {IndexAt(left, k) : k \in Stops(left)} \ {-1}
      PROVE  n \in {IndexAt(text, i) : i \in Stops(text)} \cap valid
  <2>1. PICK k \in Stops(left) : n = IndexAt(left, k)
    OBVIOUS
  <2>2. Nth(P, k) \in Stops(text) /\ Nth(P, k) \in P /\ n = IndexAt(text, Nth(P, k))
    BY <1>1, <1>2, <1>4, <2>1
  <2> QED
    BY <1>6, <2>2
<1>9. ASSUME NEW n \in {IndexAt(text, i) : i \in Stops(text)} \cap valid
      PROVE  n \in {IndexAt(left, k) : k \in Stops(left)} \ {-1}
  <2>1. PICK i \in Stops(text) : n = IndexAt(text, i)
    OBVIOUS
  <2>2. i \in P
    BY <1>7, <2>1
  <2>3. PICK k \in 1 .. m : Nth(P, k) = i
    BY <1>4, <2>2
  <2>4. k \in Stops(left)
    BY <1>1, <2>1, <2>3
  <2>5. n # -1
    OBVIOUS
  <2> QED
    BY <1>2, <2>1, <2>3, <2>4, <2>5
<1>10. {IndexAt(left, k) : k \in Stops(left)} \ {-1} =
         {IndexAt(text, i) : i \in Stops(text)} \cap valid
  BY <1>8, <1>9
<1> QED
  BY <1>10 DEF left

\* A marker the loop does not read stands in a bracket that was open before it and
\* closes with it.
LEMMA UnreadIsInside ==
  ASSUME NEW text \in Seq(Tokens), NEW i \in DOMAIN text, IndexAt(text, i) # -1,
         i \notin Stops(text)
  PROVE  \E j \in 1 .. i - 1 : Closing(text, j) = Closing(text, i)
<1>1. i \in 1 .. Len(text) /\ Len(text) \in Nat
  OBVIOUS
<1>2. Closing(text, i) = i + 2 /\ text[i + 1].kind = "number"
  BY DEF IndexAt
<1>3. i + 2 \in 1 .. Len(text) /\ text[i].kind = "open" /\ text[i + 2].kind = "close"
  BY <1>1, <1>2, ClosingIs
<1>4. PICK s \in Stops(text) : s <= i /\ i < After(text, s)
  BY <1>1, StopsCut DEF Cuts
<1>5. s \in 1 .. Len(text) /\ s # i
  BY <1>4, StopsCut DEF Cuts
<1>6. s \in 1 .. i - 1
  BY <1>1, <1>4, <1>5
<1>7. Closing(text, s) # 0
  BY <1>1, <1>4, <1>6 DEF After
<1>8. /\ Closing(text, s) \in s + 1 .. Len(text) /\ text[Closing(text, s)].kind = "close"
      /\ \A j \in s + 1 .. Closing(text, s) - 1 : text[j].kind # "close"
  BY <1>5, <1>7, ClosingIs
<1>9. Closing(text, s) >= i
  BY <1>4, <1>7, <1>8, <1>1 DEF After
<1>10. Closing(text, s) # i /\ Closing(text, s) # i + 1
  BY <1>2, <1>3, <1>8
<1>11. ~(i + 2 \in s + 1 .. Closing(text, s) - 1)
  BY <1>3, <1>8
<1>12. Closing(text, s) = i + 2
  <2> DEFINE c == Closing(text, s)
  <2>1. c \in Int /\ i \in Int /\ s \in Int /\ s < i
    BY <1>1, <1>6, <1>8
  <2>2. c >= i /\ c # i /\ c # i + 1
    BY <1>9, <1>10
  <2>3. ASSUME i + 2 < c PROVE FALSE
    BY <1>11, <2>1, <2>3
  <2> HIDE DEF c
  <2>4. c = i + 2
    BY <2>1, <2>2, <2>3
  <2> QED
    BY <2>4 DEF c
<1> QED
  BY <1>2, <1>6, <1>12

\* What was returned is made of a text the model wrote.
AnswersInv ==
  /\ sources \in Nat
  /\ stage = "replied" =>
       \E raw \in Texts :
         /\ answer = [text |-> StripInvalid(raw, 1 .. sources),
                      citations |-> ExtractCitations(raw, 1 .. sources)]
         /\ ExtractCitations(raw, 1 .. sources) # <<>>

LEMMA AnswersStep == AnswersInv /\ [AnswersNext]_answersVars => AnswersInv'
<1> SUFFICES ASSUME AnswersInv, [AnswersNext]_answersVars PROVE AnswersInv'
  OBVIOUS
<1>1. ASSUME NEW results \in 0 .. MaxResults, SearchForAnswer(results) PROVE AnswersInv'
  <2>1. sources' \in Nat /\ stage' = "searched"
    BY <1>1, AnswersAssumption DEF SearchForAnswer
  <2> QED
    BY <2>1 DEF AnswersInv
<1>2. CASE RefuseAnswer
  BY <1>2 DEF RefuseAnswer, AnswersInv
<1>3. ASSUME NEW raw \in Texts, Synthesize(raw) PROVE AnswersInv'
  <2> DEFINE cited == ExtractCitations(raw, 1 .. sources)
  <2>1. sources' = sources /\ sources \in Nat
    BY <1>3 DEF Synthesize, AnswersInv
  <2>2. CASE cited = <<>>
    <3>1. stage' = "refused"
      BY <1>3, <2>2 DEF Synthesize
    <3> QED
      BY <2>1, <3>1 DEF AnswersInv
  <2>3. CASE cited # <<>>
    <3>1. answer' = [text |-> StripInvalid(raw, 1 .. sources), citations |-> cited]
      BY <1>3, <2>3 DEF Synthesize
    <3> HIDE DEF cited
    <3>2. \E some \in Texts :
            /\ answer' = [text |-> StripInvalid(some, 1 .. sources),
                          citations |-> ExtractCitations(some, 1 .. sources)]
            /\ ExtractCitations(some, 1 .. sources) # <<>>
      BY <2>3, <3>1 DEF cited
    <3> QED
      BY <2>1, <3>2 DEF AnswersInv
  <2> QED
    BY <2>2, <2>3
<1>4. CASE FinishAnswer
  BY <1>4 DEF FinishAnswer, AnswersInv
<1>5. CASE UNCHANGED answersVars
  BY <1>5 DEF answersVars, AnswersInv
<1> QED
  BY <1>1, <1>2, <1>3, <1>4, <1>5 DEF AnswersNext

\* An answer that is returned cites sources and lists each once, and a marker of
\* anything else is left in it only inside a bracket that was open before it,
\* whatever text the model wrote.
THEOREM AnswersAreGrounded == AnswersSpec => []AnswerGrounded
<1>1. AnswersInit => AnswersInv
  BY DEF AnswersInit, AnswersInv
<1>2. AnswersInv => AnswerGrounded
  <2> SUFFICES ASSUME AnswersInv, stage = "replied" PROVE AnswerGrounded
    BY DEF AnswerGrounded
  <2> DEFINE valid == 1 .. sources
  <2>1. PICK raw \in Texts :
          /\ answer = [text |-> StripInvalid(raw, valid), citations |-> ExtractCitations(raw, valid)]
          /\ ExtractCitations(raw, valid) # <<>>
    BY DEF AnswersInv
  <2>2. raw \in Seq(Tokens) /\ -1 \notin valid
    BY AnswersAssumption DEF AnswersInv
  <2>3. /\ answer.text = StripInvalid(raw, valid) /\ answer.citations = ExtractCitations(raw, valid)
        /\ answer.citations # <<>>
    BY <2>1
  <2> HIDE DEF valid
  <2> DEFINE text == answer.text
             shown == {IndexAt(text, i) : i \in Stops(text)} \ {-1}
  <2>4. shown = {IndexAt(raw, i) : i \in Stops(raw)} \cap valid
    BY <2>2, <2>3, ShownAre
  <2>5. /\ ToSet(answer.citations) = {IndexAt(raw, i) : i \in Stops(raw)} \cap valid
        /\ Cardinality(ToSet(answer.citations)) = Len(answer.citations)
    BY <2>2, <2>3, CitationsAre
  <2>6. shown = ToSet(answer.citations) /\ shown \subseteq valid
    BY <2>4, <2>5
  <2>7. text \in Seq(Tokens)
    <3>1. Kept(raw, valid) \subseteq DOMAIN raw /\ text = Picked(raw, Kept(raw, valid))
      BY <2>3 DEF StripInvalid, Kept, Dropped
    <3> QED
      BY <2>2, <3>1, PickedIs
  <2>8. ASSUME NEW i \in DOMAIN text, Fabricated(i)
        PROVE  \E j \in 1 .. i - 1 : Closing(text, j) = Closing(text, i)
    <3>1. IndexAt(text, i) # -1 /\ IndexAt(text, i) \notin valid
      BY <2>8 DEF Fabricated, valid
    <3>2. i \notin Stops(text)
      BY <2>6, <3>1
    <3> HIDE DEF text
    <3> QED
      BY <2>7, <3>1, <3>2, UnreadIsInside
  <2> QED
    BY <2>3, <2>5, <2>6, <2>8 DEF AnswerGrounded, valid
<1> QED
  BY <1>1, <1>2, AnswersStep, PTL DEF AnswersSpec

----------------------------------------------------------------------------
(***************************************************************************)
(* The pages of a question, for any number of providers, any lists, any    *)
(* optics and any page size.  The results depend on the set of what        *)
(* arrived and not on the order; each URL stands in them once; and the     *)
(* windows of the pages follow one another.                                *)
(***************************************************************************)

LEMMA SameSequence ==
  ASSUME NEW S, NEW s \in Seq(S), NEW t \in Seq(S), Len(s) = Len(t),
         \A i \in 1 .. Len(s) : s[i] = t[i]
  PROVE  s = t
  OBVIOUS

\* Keys of one length are ordered strictly, and any two of them one way.
LEMMA Lexicographic ==
  ASSUME NEW n \in Nat, NEW a \in Seq(Int), NEW b \in Seq(Int), Len(a) = n, Len(b) = n
  PROVE  /\ ~Precedes(a, a)
         /\ Precedes(a, b) => ~Precedes(b, a)
         /\ a # b => Precedes(a, b) \/ Precedes(b, a)
         /\ \A c \in Seq(Int) : Len(c) = n /\ Precedes(a, b) /\ Precedes(b, c) => Precedes(a, c)
<1>1. /\ DOMAIN a = 1 .. n /\ DOMAIN b = 1 .. n
      /\ \A i \in 1 .. n : a[i] \in Int /\ b[i] \in Int
  OBVIOUS
<1>2. ~Precedes(a, a)
  BY <1>1 DEF Precedes
<1>3. a # b => Precedes(a, b) \/ Precedes(b, a)
  <2> SUFFICES ASSUME a # b PROVE Precedes(a, b) \/ Precedes(b, a)
    OBVIOUS
  <2> DEFINE D == {i \in 1 .. n : a[i] # b[i]}
  <2>1. D # {} /\ D \subseteq Nat
    <3>1. CASE D = {}
      <4>1. \A i \in 1 .. n : a[i] = b[i]
        BY <3>1
      <4>2. a = b
        BY <4>1, SameSequence
      <4> QED
        BY <4>2
    <3> QED
      BY <3>1
  <2>2. PICK i \in D : \A j \in D : i <= j
    <3> HIDE DEF D
    <3> QED
      BY <2>1, LeastNatural
  <2>3. i \in 1 .. n /\ (a[i] < b[i] \/ b[i] < a[i])
    BY <2>2, <1>1
  <2>4. \A j \in 1 .. i - 1 : a[j] = b[j]
    <3> SUFFICES ASSUME NEW j \in 1 .. i - 1, a[j] # b[j] PROVE FALSE
      OBVIOUS
    <3>1. j \in D
      BY <2>3
    <3> QED
      BY <2>2, <2>3, <3>1
  <2> QED
    BY <1>1, <2>3, <2>4 DEF Precedes
<1>4. ASSUME NEW c \in Seq(Int), Len(c) = n, Precedes(a, b), Precedes(b, c) PROVE Precedes(a, c)
  <2>1. PICK i \in 1 .. n : a[i] < b[i] /\ \A j \in 1 .. i - 1 : a[j] = b[j]
    BY <1>1, <1>4 DEF Precedes
  <2>2. PICK k \in 1 .. n : b[k] < c[k] /\ \A j \in 1 .. k - 1 : b[j] = c[j]
    BY <1>1, <1>4 DEF Precedes
  <2>3. \A j \in 1 .. n : c[j] \in Int
    BY <1>4
  <2> DEFINE m == IF i <= k THEN i ELSE k
  <2>4. m \in 1 .. n /\ m <= i /\ m <= k /\ (m = i \/ m = k)
    OBVIOUS
  <2>5. \A j \in 1 .. m - 1 : a[j] = c[j]
    <3> SUFFICES ASSUME NEW j \in 1 .. m - 1 PROVE a[j] = c[j]
      OBVIOUS
    <3>1. j \in 1 .. i - 1 /\ j \in 1 .. k - 1
      BY <2>4
    <3> QED
      BY <2>1, <2>2, <3>1
  <2>6. a[m] < c[m]
    <3>1. CASE i < k
      <4>1. m = i /\ i \in 1 .. k - 1
        BY <3>1
      <4> QED
        BY <1>1, <2>1, <2>2, <2>3, <4>1
    <3>2. CASE k < i
      <4>1. m = k /\ k \in 1 .. i - 1
        BY <3>2
      <4> QED
        BY <1>1, <2>1, <2>2, <2>3, <4>1
    <3>3. CASE i = k
      BY <1>1, <2>1, <2>2, <2>3, <3>3
    <3> QED
      BY <3>1, <3>2, <3>3
  <2> HIDE DEF m
  <2> QED
    BY <1>1, <2>4, <2>5, <2>6 DEF Precedes
<1>5. Precedes(a, b) => ~Precedes(b, a)
  BY <1>2, <1>4
<1> QED
  BY <1>2, <1>3, <1>4, <1>5

\* A finite set whose elements have different keys of one length.
Keyed(S, key) ==
  /\ IsFiniteSet(S)
  /\ \E n \in Nat : \A x \in S : key[x] \in Seq(Int) /\ Len(key[x]) = n
  /\ \A x, y \in S : key[x] = key[y] => x = y

LEMMA KeyedOrder ==
  ASSUME NEW S, NEW key, Keyed(S, key)
  PROVE  /\ \A x \in S : ~Precedes(key[x], key[x])
         /\ \A x, y \in S : Precedes(key[x], key[y]) => ~Precedes(key[y], key[x])
         /\ \A x, y \in S : x # y => Precedes(key[x], key[y]) \/ Precedes(key[y], key[x])
         /\ \A x, y, z \in S :
              Precedes(key[x], key[y]) /\ Precedes(key[y], key[z]) => Precedes(key[x], key[z])
<1>1. PICK n \in Nat : \A x \in S : key[x] \in Seq(Int) /\ Len(key[x]) = n
  BY DEF Keyed
<1>2. \A x, y \in S : key[x] = key[y] => x = y
  BY DEF Keyed
<1>3. ASSUME NEW x \in S, NEW y \in S
      PROVE  /\ ~Precedes(key[x], key[x])
             /\ Precedes(key[x], key[y]) => ~Precedes(key[y], key[x])
             /\ x # y => Precedes(key[x], key[y]) \/ Precedes(key[y], key[x])
  BY <1>1, <1>2, Lexicographic
<1>4. ASSUME NEW x \in S, NEW y \in S, NEW z \in S,
             Precedes(key[x], key[y]), Precedes(key[y], key[z])
      PROVE  Precedes(key[x], key[z])
  BY <1>1, <1>4, Lexicographic
<1> QED
  BY <1>3, <1>4

\* Sorted holds every element once.
LEMMA SortedIs ==
  ASSUME NEW S, NEW key, Keyed(S, key)
  PROVE  /\ Cardinality(S) \in Nat
         /\ Sorted(S, key) \in Seq(S)
         /\ Len(Sorted(S, key)) = Cardinality(S)
         /\ DOMAIN Sorted(S, key) = 1 .. Cardinality(S)
         /\ \A k \in 1 .. Cardinality(S) :
              /\ Sorted(S, key)[k] \in S
              /\ Cardinality({y \in S : Precedes(key[y], key[Sorted(S, key)[k]])}) = k - 1
         /\ \A k, l \in 1 .. Cardinality(S) : Sorted(S, key)[k] = Sorted(S, key)[l] => k = l
         /\ \A x \in S : \E k \in 1 .. Cardinality(S) : Sorted(S, key)[k] = x
<1> DEFINE n == Cardinality(S)
           before(x) == {y \in S : Precedes(key[y], key[x])}
           count == [x \in S |-> Cardinality(before(x)) + 1]
           sorted == Sorted(S, key)
<1>0. IsFiniteSet(S) /\ n \in Nat
  BY FS_CardinalityType DEF Keyed
<1>1. \A x \in S : IsFiniteSet(before(x)) /\ Cardinality(before(x)) \in Nat
                   /\ Cardinality(before(x)) < n
  <2> SUFFICES ASSUME NEW x \in S
               PROVE  IsFiniteSet(before(x)) /\ Cardinality(before(x)) \in Nat
                      /\ Cardinality(before(x)) < n
    OBVIOUS
  <2>1. before(x) \in SUBSET S /\ x \notin before(x)
    BY KeyedOrder
  <2> HIDE DEF before
  <2>2. /\ IsFiniteSet(before(x)) /\ Cardinality(before(x)) <= n
        /\ n = Cardinality(before(x)) => S = before(x)
    BY <1>0, <2>1, FS_Subset
  <2>3. Cardinality(before(x)) \in Nat
    BY <2>2, FS_CardinalityType
  <2> QED
    BY <1>0, <2>1, <2>2, <2>3
<1>2. ASSUME NEW x \in S, NEW y \in S, Precedes(key[x], key[y])
      PROVE  Cardinality(before(x)) < Cardinality(before(y))
  <2>1. before(x) \in SUBSET before(y) /\ x \in before(y) /\ x \notin before(x)
    BY <1>2, KeyedOrder
  <2> HIDE DEF before
  <2>2. /\ Cardinality(before(x)) <= Cardinality(before(y))
        /\ Cardinality(before(y)) = Cardinality(before(x)) => before(y) = before(x)
    BY <1>1, <2>1, FS_Subset
  <2> QED
    BY <1>1, <2>1, <2>2
<1>3. \A x, y \in S : Cardinality(before(x)) = Cardinality(before(y)) => x = y
  <2> SUFFICES ASSUME NEW x \in S, NEW y \in S, x # y,
                      Cardinality(before(x)) = Cardinality(before(y))
               PROVE  FALSE
    OBVIOUS
  <2>1. Precedes(key[x], key[y]) \/ Precedes(key[y], key[x])
    BY KeyedOrder
  <2>2. Cardinality(before(x)) < Cardinality(before(y)) \/ Cardinality(before(y)) < Cardinality(before(x))
    BY <1>2, <2>1
  <2> HIDE DEF before
  <2> QED
    BY <1>1, <2>2
<1>d. sorted = [k \in 1 .. n |-> CHOOSE x \in S : Cardinality(before(x)) = k - 1]
  BY DEF Sorted
<1> HIDE DEF before, sorted, n
<1>4. count \in [S -> 1 .. n] /\ \A x, y \in S : count[x] = count[y] => x = y
  BY <1>0, <1>1, <1>3
<1>5. \A x \in S : count[x] = Cardinality(before(x)) + 1
  OBVIOUS
<1> HIDE DEF count
<1>6. count \in Injection(S, 1 .. n)
  BY <1>4 DEF Injection, IsInjective
<1>7. IsFiniteSet(1 .. n) /\ Cardinality(1 .. n) = n
  BY <1>0, UpTo
<1>8. count \in Surjection(S, 1 .. n)
  BY <1>0, <1>6, <1>7, FS_Injection DEF n
<1>9. ASSUME NEW k \in 1 .. n
      PROVE  sorted[k] \in S /\ Cardinality(before(sorted[k])) = k - 1
  <2>1. PICK x \in S : count[x] = k
    BY <1>8 DEF Surjection
  <2>2. Cardinality(before(x)) = k - 1
    BY <2>1, <1>1, <1>5
  <2>3. sorted[k] = CHOOSE y \in S : Cardinality(before(y)) = k - 1
    BY <1>d
  <2> QED
    BY <2>2, <2>3
<1>10. \A k, l \in 1 .. n : sorted[k] = sorted[l] => k = l
  <2> SUFFICES ASSUME NEW k \in 1 .. n, NEW l \in 1 .. n, sorted[k] = sorted[l] PROVE k = l
    OBVIOUS
  <2>1. k - 1 = l - 1
    BY <1>9
  <2> QED
    BY <2>1, <1>0
<1>11. \A x \in S : \E k \in 1 .. n : sorted[k] = x
  <2> SUFFICES ASSUME NEW x \in S PROVE \E k \in 1 .. n : sorted[k] = x
    OBVIOUS
  <2>1. count[x] \in 1 .. n /\ Cardinality(before(x)) = count[x] - 1
    BY <1>1, <1>4, <1>5
  <2>2. sorted[count[x]] \in S /\ Cardinality(before(sorted[count[x]])) = count[x] - 1
    BY <1>9, <2>1
  <2>3. sorted[count[x]] = x
    BY <1>3, <2>1, <2>2
  <2> QED
    BY <2>1, <2>3
<1>12. sorted \in [1 .. n -> S]
  BY <1>d, <1>9
<1>13. sorted \in Seq(S) /\ Len(sorted) = n /\ DOMAIN sorted = 1 .. n
  BY <1>0, <1>12
<1>14. \A k \in 1 .. n : Cardinality({y \in S : Precedes(key[y], key[sorted[k]])}) = k - 1
  BY <1>9 DEF before
<1> QED
  BY <1>0, <1>9, <1>10, <1>11, <1>13, <1>14 DEF sorted, n

LEMMA LeastIs ==
  ASSUME NEW S, NEW key, Keyed(S, key), S # {}
  PROVE  /\ Least(S, key) \in S
         /\ \A y \in S \ {Least(S, key)} : Precedes(key[Least(S, key)], key[y])
<1> DEFINE x == Sorted(S, key)[1]
           before == {y \in S : Precedes(key[y], key[x])}
<1>1. IsFiniteSet(S)
  BY DEF Keyed
<1>2. Cardinality(S) \in Nat /\ Cardinality(S) # 0
  BY <1>1, SortedIs, FS_EmptySet
<1>3. 1 \in 1 .. Cardinality(S)
  BY <1>2
<1>4. x \in S /\ Cardinality(before) = 1 - 1
  BY <1>3, SortedIs
<1>5. before = {}
  <2>1. before \in SUBSET S
    OBVIOUS
  <2> HIDE DEF before
  <2>2. IsFiniteSet(before)
    BY <1>1, <2>1, FS_Subset
  <2> QED
    BY <1>4, <2>2, FS_EmptySet
<1>6. \A y \in S \ {x} : Precedes(key[x], key[y])
  BY <1>4, <1>5, KeyedOrder
<1> HIDE DEF x
<1> QED
  BY <1>4, <1>6 DEF Least

\* Sequences one after the other.
Flattens(f, seqs) ==
  /\ f[0] = <<>>
  /\ \A k \in 1 .. Len(seqs) : f[k] = f[k - 1] \o seqs[k]
  /\ FlattenSeq(seqs) = f[Len(seqs)]

LEMMA FlattenIs ==
  ASSUME NEW S, NEW seqs \in Seq(Seq(S))
  PROVE  \E f \in [0 .. Len(seqs) -> Seq(S)] : Flattens(f, seqs)
<1> DEFINE N == Len(seqs)
           C == Seq(S)
           body(h) == [i \in 1 .. N |-> IF i = 1 THEN seqs[i] ELSE h[i - 1] \o seqs[i]]
           flatten == CHOOSE h : h = body(h)
           g == [n \in 1 .. N |-> [s \in C |-> s \o seqs[n]]]
<1>1. N \in Nat /\ seqs \in [1 .. N -> C] /\ <<>> \in C
  OBVIOUS
<1>2. FlattenSeq(seqs) = IF N = 0 THEN seqs ELSE flatten[N]
  BY DEF FlattenSeq
<1>3. g \in [1 .. N -> [C -> C]]
  <2>1. ASSUME NEW n \in 1 .. N, NEW s \in C PROVE s \o seqs[n] \in C
    <3>1. seqs[n] \in Seq(S)
      BY <1>1
    <3> QED
      BY <3>1
  <2> HIDE DEF C
  <2> QED
    BY <2>1
<1>4. \A s \in C : s = <<>> \o s
  OBVIOUS
<1>n. N = Len(seqs)
  OBVIOUS
<1>e. N = 0 => seqs = <<>>
  OBVIOUS
<1> HIDE DEF N, C
<1>5. PICK f \in [0 .. N -> C] : Runs(f, <<>>, N, g)
  <2> HIDE DEF g
  <2> QED
    BY <1>1, <1>3, Stepwise
<1>6. f[0] = <<>> /\ \A k \in 1 .. N : f[k] = f[k - 1] \o seqs[k]
  <2>1. f[0] = <<>> /\ \A k \in 1 .. N : f[k] = g[k][f[k - 1]]
    BY <1>5 DEF Runs
  <2>2. ASSUME NEW k \in 1 .. N PROVE f[k] = f[k - 1] \o seqs[k]
    <3>1. k - 1 \in 0 .. N
      BY <1>1
    <3>2. f[k - 1] \in C
      BY <3>1
    <3> QED
      BY <2>1, <3>2
  <2> QED
    BY <2>1, <2>2
<1> DEFINE r == [i \in 1 .. N |-> f[i]]
<1>7. r = body(r)
  <2>1. ASSUME NEW i \in 1 .. N PROVE f[i] = IF i = 1 THEN seqs[i] ELSE r[i - 1] \o seqs[i]
    <3>1. CASE i = 1
      <4>0. 1 \in 1 .. N /\ 1 - 1 = 0
        BY <3>1
      <4>1. f[1] = <<>> \o seqs[1] /\ seqs[1] \in C
        BY <1>1, <1>6, <4>0
      <4> QED
        BY <1>4, <3>1, <4>1
    <3>2. CASE i # 1
      <4>1. i - 1 \in 1 .. N
        BY <1>1, <3>2
      <4> QED
        BY <1>6, <3>2, <4>1
    <3> QED
      BY <3>1, <3>2
  <2> QED
    BY <2>1
<1>8. flatten = body(flatten)
  BY <1>7
<1> HIDE DEF flatten, r, g
<1>9. \A k \in 1 .. N : flatten[k] = f[k]
  <2> DEFINE T == {k \in Nat : k + 1 \in 1 .. N => flatten[k + 1] = f[k + 1]}
  <2>1. 0 \in T
    <3> SUFFICES ASSUME 1 \in 1 .. N PROVE flatten[1] = f[1]
      OBVIOUS
    <3>1. flatten[1] = seqs[1] /\ r[1] = seqs[1]
      BY <1>7, <1>8
    <3> QED
      BY <3>1 DEF r
  <2>2. ASSUME NEW k \in Nat, k \in T PROVE k + 1 \in T
    <3> SUFFICES ASSUME k + 1 + 1 \in 1 .. N PROVE flatten[k + 1 + 1] = f[k + 1 + 1]
      OBVIOUS
    <3>1. k + 1 \in 1 .. N /\ k + 1 + 1 # 1 /\ (k + 1 + 1) - 1 = k + 1
      BY <1>1
    <3>2. flatten[k + 1] = f[k + 1]
      BY <2>2, <3>1
    <3>3. flatten[k + 1 + 1] = flatten[k + 1] \o seqs[k + 1 + 1]
      BY <1>8, <3>1
    <3>4. f[k + 1 + 1] = f[k + 1] \o seqs[k + 1 + 1]
      BY <1>6, <3>1
    <3> QED
      BY <3>2, <3>3, <3>4
  <2> HIDE DEF T
  <2>3. Nat \subseteq T
    BY <2>1, <2>2, Induction
  <2> SUFFICES ASSUME NEW k \in 1 .. N PROVE flatten[k] = f[k]
    OBVIOUS
  <2>4. k - 1 \in Nat /\ (k - 1) + 1 = k
    BY <1>1
  <2> QED
    BY <2>3, <2>4 DEF T
<1>10. FlattenSeq(seqs) = f[N]
  <2>1. CASE N = 0
    BY <1>2, <1>6, <1>e, <2>1
  <2>2. CASE N # 0
    <3>1. N \in 1 .. N
      BY <1>1, <2>2
    <3> QED
      BY <1>2, <1>9, <2>2, <3>1
  <2> QED
    BY <2>1, <2>2
<1>11. Flattens(f, seqs)
  BY <1>6, <1>10, <1>n DEF Flattens
<1> QED
  BY <1>11, <1>n DEF C


----------------------------------------------------------------------------
(* What arrives.                                                            *)

Arrivals == [item : Items, provider : Providers, rank : Nat \ {0}]

\* The valid items of some providers, whatever the order they arrive in.
Given(lists, some) ==
  {r \in Arrivals : /\ r.provider \in some /\ r.rank \in DOMAIN lists[r.provider]
                    /\ r.item = lists[r.provider][r.rank] /\ r.item.valid}

\* A list of what was given, in which every provider's items keep their order.
Arranges(s, G) ==
  /\ s \in Seq(Arrivals)
  /\ {s[i] : i \in DOMAIN s} = G
  /\ \A i, j \in DOMAIN s : i < j /\ s[i].provider = s[j].provider => s[i].rank < s[j].rank

LEMMA OfferedLists ==
  ASSUME NEW lists \in Offers, NEW p \in Providers
  PROVE  lists[p] \in Seq(Items)
<1>1. lists[p] \in Listings[p]
  BY DEF Offers
<1> QED
  BY <1>1, ResultsAssumption

LEMMA NormalizedIs ==
  ASSUME NEW lists \in Offers, NEW p \in Providers
  PROVE  Arranges(Normalized(p, lists[p]), Given(lists, {p}))
<1> DEFINE list == lists[p]
           ranked == [i \in DOMAIN list |-> [item |-> list[i], provider |-> p, rank |-> i]]
           P == {i \in DOMAIN list : list[i].valid}
           n == Cardinality(P)
           out == Normalized(p, list)
<1>1. list \in Seq(Items) /\ DOMAIN list = 1 .. Len(list) /\ Len(list) \in Nat
  BY OfferedLists
<1>2. out = Picked(ranked, P)
  BY DEF Normalized
<1>3. ranked \in [1 .. Len(list) -> Arrivals]
  BY <1>1 DEF Arrivals
<1>4. ranked \in Seq(Arrivals) /\ DOMAIN ranked = DOMAIN list
  BY <1>1, <1>3
<1>5. P \subseteq DOMAIN ranked
  BY <1>4
<1>6. /\ out \in Seq(Arrivals) /\ Len(out) = n /\ DOMAIN out = 1 .. n
      /\ \A k \in 1 .. n : Nth(P, k) \in P /\ out[k] = ranked[Nth(P, k)]
      /\ \A k, m \in 1 .. n : k < m => Nth(P, k) < Nth(P, m)
      /\ \A i \in P : \E k \in 1 .. n : Nth(P, k) = i
  <2> HIDE DEF ranked, P
  <2> QED
    BY <1>2, <1>4, <1>5, PickedIs
<1>7. \A i \in P : /\ ranked[i] \in Given(lists, {p})
                   /\ ranked[i].provider = p /\ ranked[i].rank = i
  <2> SUFFICES ASSUME NEW i \in P
               PROVE  /\ ranked[i] \in Given(lists, {p})
                      /\ ranked[i].provider = p /\ ranked[i].rank = i
    OBVIOUS
  <2>1. /\ ranked[i].provider = p /\ ranked[i].rank = i /\ ranked[i].item = list[i]
        /\ i \in DOMAIN list /\ list[i].valid
    OBVIOUS
  <2>2. ranked[i] \in Arrivals
    BY <1>1, <1>3
  <2> HIDE DEF ranked
  <2> QED
    BY <2>1, <2>2 DEF Given
<1>8. ASSUME NEW r \in Given(lists, {p}) PROVE r.rank \in P /\ r = ranked[r.rank]
  <2>1. /\ r \in Arrivals /\ r.provider = p /\ r.rank \in DOMAIN list
        /\ r.item = list[r.rank] /\ r.item.valid
    BY DEF Given
  <2>2. r = [item |-> r.item, provider |-> r.provider, rank |-> r.rank]
    BY <2>1 DEF Arrivals
  <2> QED
    BY <2>1, <2>2
<1> HIDE DEF out, ranked, P, n
<1>9. {out[k] : k \in DOMAIN out} = Given(lists, {p})
  <2>1. ASSUME NEW k \in DOMAIN out PROVE out[k] \in Given(lists, {p})
    BY <1>6, <1>7
  <2>2. ASSUME NEW r \in Given(lists, {p}) PROVE \E k \in DOMAIN out : out[k] = r
    <3>1. PICK k \in 1 .. n : Nth(P, k) = r.rank
      BY <1>6, <1>8
    <3>2. out[k] = ranked[r.rank]
      BY <1>6, <3>1
    <3> QED
      BY <1>6, <1>8, <3>2
  <2> QED
    BY <2>1, <2>2
<1>10. \A i, j \in DOMAIN out : i < j => out[i].rank < out[j].rank
  <2> SUFFICES ASSUME NEW i \in 1 .. n, NEW j \in 1 .. n, i < j PROVE out[i].rank < out[j].rank
    BY <1>6
  <2>1. Nth(P, i) < Nth(P, j) /\ Nth(P, i) \in P /\ Nth(P, j) \in P
    BY <1>6
  <2>2. out[i].rank = Nth(P, i) /\ out[j].rank = Nth(P, j)
    BY <1>6, <1>7, <2>1
  <2> QED
    BY <2>1, <2>2
<1> QED
  BY <1>6, <1>9, <1>10 DEF Arranges, out

\* One provider's items behind those of others.
LEMMA ArrangesJoin ==
  ASSUME NEW lists, NEW A, NEW B, A \cap B = {}, NEW s, NEW t,
         Arranges(s, Given(lists, A)), Arranges(t, Given(lists, B))
  PROVE  Arranges(s \o t, Given(lists, A \cup B))
<1>1. s \in Seq(Arrivals) /\ t \in Seq(Arrivals)
  BY DEF Arranges
<1>2. /\ s \o t \in Seq(Arrivals)
      /\ DOMAIN (s \o t) = 1 .. (Len(s) + Len(t))
      /\ \A i \in 1 .. Len(s) : (s \o t)[i] = s[i]
      /\ \A i \in (Len(s) + 1) .. (Len(s) + Len(t)) : (s \o t)[i] = t[i - Len(s)]
  BY <1>1, Joined
<1>3. /\ Len(s) \in Nat /\ Len(t) \in Nat /\ DOMAIN s = 1 .. Len(s) /\ DOMAIN t = 1 .. Len(t)
  BY <1>1
<1> DEFINE u == s \o t  m == Len(s)  n == Len(t)
<1>4. \A i \in 1 .. m + n : \/ i \in 1 .. m
                            \/ i \in m + 1 .. m + n /\ i - m \in 1 .. n
  BY <1>3
<1>5. Given(lists, A \cup B) = Given(lists, A) \cup Given(lists, B)
  BY DEF Given
<1>6. {s[i] : i \in 1 .. m} = Given(lists, A) /\ {t[i] : i \in 1 .. n} = Given(lists, B)
  BY <1>3 DEF Arranges
<1>o. u \in Seq(Arrivals) /\ DOMAIN u = 1 .. m + n
  BY <1>2
<1>s. \A i \in 1 .. m : u[i] = s[i]
  BY <1>2
<1>t. \A i \in m + 1 .. m + n : u[i] = t[i - m]
  BY <1>2
<1>l. /\ \A i, j \in 1 .. m : i < j /\ s[i].provider = s[j].provider => s[i].rank < s[j].rank
      /\ \A i, j \in 1 .. n : i < j /\ t[i].provider = t[j].provider => t[i].rank < t[j].rank
  BY <1>3 DEF Arranges
<1>n. m \in Nat /\ n \in Nat
  BY <1>3
<1> HIDE DEF u, m, n
<1>7. {u[i] : i \in 1 .. m + n} = Given(lists, A) \cup Given(lists, B)
  <2>1. ASSUME NEW i \in 1 .. m + n PROVE u[i] \in Given(lists, A) \cup Given(lists, B)
    BY <1>4, <1>6, <1>s, <1>t
  <2>2. ASSUME NEW r \in Given(lists, A) PROVE \E i \in 1 .. m + n : u[i] = r
    <3>1. PICK i \in 1 .. m : s[i] = r
      BY <1>6
    <3>2. i \in 1 .. m + n
      BY <1>n
    <3> QED
      BY <1>s, <3>1, <3>2
  <2>3. ASSUME NEW r \in Given(lists, B) PROVE \E i \in 1 .. m + n : u[i] = r
    <3>1. PICK i \in 1 .. n : t[i] = r
      BY <1>6
    <3>2. i + m \in 1 .. m + n /\ i + m \in m + 1 .. m + n /\ (i + m) - m = i
      BY <1>n
    <3> QED
      BY <1>t, <3>1, <3>2
  <2> QED
    BY <2>1, <2>2, <2>3
<1>8. ASSUME NEW i \in 1 .. m + n, NEW j \in 1 .. m + n, i < j, u[i].provider = u[j].provider
      PROVE  u[i].rank < u[j].rank
  <2>1. CASE i \in 1 .. m /\ j \in 1 .. m
    BY <1>8, <1>l, <1>s, <2>1
  <2>2. CASE i \in m + 1 .. m + n /\ j \in m + 1 .. m + n
    <3>1. i - m \in 1 .. n /\ j - m \in 1 .. n /\ i - m < j - m
      BY <1>8, <1>n, <2>2
    <3>2. u[i] = t[i - m] /\ u[j] = t[j - m]
      BY <1>t, <2>2
    <3> QED
      BY <1>8, <1>l, <3>1, <3>2
  <2>3. CASE i \in 1 .. m /\ j \in m + 1 .. m + n
    <3>1. u[i] \in Given(lists, A)
      BY <1>6, <1>s, <2>3
    <3>2. u[j] \in Given(lists, B)
      <4>1. j - m \in 1 .. n
        BY <1>n, <2>3
      <4> QED
        BY <1>6, <1>t, <2>3, <4>1
    <3> QED
      BY <1>8, <3>1, <3>2 DEF Given
  <2>4. ~(i \in m + 1 .. m + n /\ j \in 1 .. m)
    BY <1>8, <1>n
  <2> QED
    BY <1>4, <2>1, <2>2, <2>3, <2>4
<1>9. Arranges(u, Given(lists, A \cup B))
  BY <1>5, <1>7, <1>8, <1>o DEF Arranges
<1> QED
  BY <1>9 DEF u

\* An order of arrival names every provider once.
LEMMA OrderIs ==
  ASSUME NEW order \in SetToSeqs(Providers)
  PROVE  /\ order \in Seq(Providers)
         /\ \A i, j \in 1 .. Len(order) : i # j => order[i] # order[j]
         /\ {order[i] : i \in 1 .. Len(order)} = Providers
<1> DEFINE n == Cardinality(Providers)
<1>1. n \in Nat /\ IsFiniteSet(Providers)
  BY ResultsAssumption, FS_CardinalityType
<1>2. order \in [1 .. n -> Providers] /\ \A i, j \in 1 .. n : i # j => order[i] # order[j]
  BY DEF SetToSeqs
<1>3. IsFiniteSet(1 .. n) /\ Cardinality(1 .. n) = n
  BY <1>1, UpTo
<1>4. order \in Injection(1 .. n, Providers)
  BY <1>2 DEF Injection, IsInjective
<1>5. order \in Surjection(1 .. n, Providers)
  BY <1>1, <1>3, <1>4, FS_Injection
<1>6. {order[i] : i \in 1 .. n} = Providers
  BY <1>2, <1>5 DEF Surjection
<1>7. order \in Seq(Providers) /\ Len(order) = n
  BY <1>1, <1>2
<1> QED
  BY <1>2, <1>6, <1>7

LEMMA ArrivedIs ==
  ASSUME NEW lists \in Offers, NEW order \in SetToSeqs(Providers)
  PROVE  Arranges(Arrived(lists, order), Given(lists, Providers))
<1> DEFINE N == Len(order)
           parts == [n \in DOMAIN order |-> Normalized(order[n], lists[order[n]])]
           upTo(k) == {order[j] : j \in 1 .. k}
<1>1. /\ order \in Seq(Providers) /\ DOMAIN order = 1 .. N /\ N \in Nat
      /\ \A i, j \in 1 .. N : i # j => order[i] # order[j]
      /\ upTo(N) = Providers
  <2>1. /\ order \in Seq(Providers)
        /\ \A i, j \in 1 .. N : i # j => order[i] # order[j]
        /\ {order[i] : i \in 1 .. N} = Providers
    BY OrderIs
  <2> QED
    BY <2>1
<1>2. \A n \in 1 .. N : order[n] \in Providers /\ parts[n] = Normalized(order[n], lists[order[n]])
  BY <1>1
<1>3. \A n \in 1 .. N : Arranges(parts[n], Given(lists, {order[n]}))
  BY <1>2, NormalizedIs
<1>4. \A n \in 1 .. N : parts[n] \in Seq(Arrivals)
  BY <1>3 DEF Arranges
<1>5. parts \in [1 .. N -> Seq(Arrivals)]
  BY <1>1, <1>2, <1>4
<1>6. parts \in Seq(Seq(Arrivals)) /\ Len(parts) = N
  BY <1>1, <1>5
<1>7. Arrived(lists, order) = FlattenSeq(parts)
  BY DEF Arrived
<1> HIDE DEF parts, N
<1>8. PICK f \in [0 .. N -> Seq(Arrivals)] : Flattens(f, parts)
  BY <1>6, FlattenIs
<1>9. f[0] = <<>> /\ (\A k \in 1 .. N : f[k] = f[k - 1] \o parts[k]) /\ FlattenSeq(parts) = f[N]
  BY <1>6, <1>8 DEF Flattens
<1> DEFINE T == {k \in Nat : k <= N => Arranges(f[k], Given(lists, upTo(k)))}
<1>10. 0 \in T
  <2>1. Given(lists, upTo(0)) = {}
    BY DEF Given
  <2>2. Arranges(<<>>, {})
    BY DEF Arranges
  <2> QED
    BY <1>9, <2>1, <2>2
<1>11. ASSUME NEW k \in Nat, k \in T PROVE k + 1 \in T
  <2> SUFFICES ASSUME k + 1 <= N PROVE Arranges(f[k + 1], Given(lists, upTo(k + 1)))
    OBVIOUS
  <2>1. k + 1 \in 1 .. N /\ (k + 1) - 1 = k /\ k <= N
    BY <1>1
  <2>2. f[k + 1] = f[k] \o parts[k + 1]
    BY <1>9, <2>1
  <2>3. upTo(k) \cap {order[k + 1]} = {}
    <3> SUFFICES ASSUME NEW j \in 1 .. k, order[j] = order[k + 1] PROVE FALSE
      OBVIOUS
    <3>1. j \in 1 .. N /\ j # k + 1
      BY <1>1, <2>1
    <3> QED
      BY <1>1, <2>1, <3>1
  <2>4. upTo(k) \cup {order[k + 1]} = upTo(k + 1)
    <3>1. \A j \in 1 .. k + 1 : j \in 1 .. k \/ j = k + 1
      OBVIOUS
    <3>2. \A j \in 1 .. k : j \in 1 .. k + 1
      OBVIOUS
    <3>3. k + 1 \in 1 .. k + 1
      OBVIOUS
    <3> QED
      BY <3>1, <3>2, <3>3
  <2>5. Arranges(f[k], Given(lists, upTo(k)))
    BY <1>11, <2>1
  <2> HIDE DEF upTo
  <2>6. Arranges(f[k] \o parts[k + 1], Given(lists, upTo(k) \cup {order[k + 1]}))
    BY <1>3, <2>1, <2>3, <2>5, ArrangesJoin
  <2> QED
    BY <2>2, <2>4, <2>6
<1> HIDE DEF T
<1>12. N \in T
  BY <1>1, <1>10, <1>11, Induction
<1>13. Arranges(f[N], Given(lists, upTo(N)))
  <2> HIDE DEF upTo
  <2> QED
    BY <1>1, <1>12 DEF T
<1>14. upTo(N) = Providers
  BY <1>1
<1> HIDE DEF upTo
<1> QED
  BY <1>7, <1>9, <1>13, <1>14


----------------------------------------------------------------------------
(* A group is merged into the same result whatever the order.               *)

\* The key of a representative without the place of arrival.
Quality(r) ==
  <<IF r.item.title > 0 THEN 0 ELSE 1, IF r.item.snippet > 0 THEN 0 ELSE 1, -r.item.date,
    IF r.item.tracked THEN 1 ELSE 0, r.provider>>

LEMMA QualityIs ==
  ASSUME NEW r \in Arrivals
  PROVE  Quality(r) \in Seq(Int) /\ Len(Quality(r)) = 5 /\ Quality(r)[5] = r.provider
<1>1. /\ r.item.date \in Nat /\ r.provider \in Int
  BY ResultsAssumption DEF Arrivals, Items
<1> QED
  BY <1>1 DEF Quality

LEMMA OrderOfQuality ==
  ASSUME NEW s \in Seq(Arrivals), NEW i \in DOMAIN s
  PROVE  /\ RepresentativeOrder(s, i) \in Seq(Int) /\ Len(RepresentativeOrder(s, i)) = 6
         /\ \A m \in 1 .. 5 : RepresentativeOrder(s, i)[m] = Quality(s[i])[m]
         /\ RepresentativeOrder(s, i)[6] = i
<1>0. s[i] \in Arrivals /\ i \in Nat
  OBVIOUS
<1>1. /\ s[i].item.date \in Nat /\ s[i].provider \in Int /\ i \in Nat
  BY <1>0, ResultsAssumption DEF Arrivals, Items
<1> DEFINE a == RepresentativeOrder(s, i)  b == Quality(s[i])
<1>2. a \in Seq(Int) /\ Len(a) = 6 /\ a[6] = i
  BY <1>1 DEF RepresentativeOrder
<1>3. a[1] = b[1] /\ a[2] = b[2] /\ a[3] = b[3] /\ a[4] = b[4] /\ a[5] = b[5]
  BY DEF RepresentativeOrder, Quality
<1>4. \A m \in 1 .. 5 : m = 1 \/ m = 2 \/ m = 3 \/ m = 4 \/ m = 5
  OBVIOUS
<1> QED
  BY <1>2, <1>3, <1>4

\* The place of arrival decides between equals only.
LEMMA QualityDecides ==
  ASSUME NEW s \in Seq(Arrivals), NEW i \in DOMAIN s, NEW j \in DOMAIN s,
         Precedes(RepresentativeOrder(s, i), RepresentativeOrder(s, j))
  PROVE  \/ Precedes(Quality(s[i]), Quality(s[j]))
         \/ Quality(s[i]) = Quality(s[j]) /\ i < j
<1> DEFINE a == RepresentativeOrder(s, i)  b == RepresentativeOrder(s, j)
           p == Quality(s[i])  q == Quality(s[j])
<1>0. s[i] \in Arrivals /\ s[j] \in Arrivals
  OBVIOUS
<1>1. /\ p \in Seq(Int) /\ q \in Seq(Int) /\ Len(p) = 5 /\ Len(q) = 5
      /\ DOMAIN p = 1 .. 5 /\ DOMAIN q = 1 .. 5
  <2> HIDE DEF p, q
  <2>1. /\ p \in Seq(Int) /\ q \in Seq(Int) /\ Len(p) = 5 /\ Len(q) = 5
    BY <1>0, QualityIs DEF p, q
  <2> QED
    BY <2>1
<1>2. /\ DOMAIN a = 1 .. 6 /\ a[6] = i /\ b[6] = j
      /\ \A m \in 1 .. 5 : a[m] = p[m] /\ b[m] = q[m]
  <2> HIDE DEF a, b
  <2>1. a \in Seq(Int) /\ Len(a) = 6
    BY OrderOfQuality DEF a
  <2>2. /\ a[6] = i /\ b[6] = j /\ \A m \in 1 .. 5 : a[m] = p[m] /\ b[m] = q[m]
    BY OrderOfQuality DEF a, b
  <2> QED
    BY <2>1, <2>2
<1>3. Precedes(a, b)
  OBVIOUS
<1> HIDE DEF a, b, p, q
<1>4. PICK m \in 1 .. 6 : a[m] < b[m] /\ \A k \in 1 .. m - 1 : a[k] = b[k]
  BY <1>2, <1>3 DEF Precedes
<1>5. CASE m = 6
  <2>1. \A k \in 1 .. 5 : p[k] = q[k]
    BY <1>2, <1>4, <1>5
  <2>2. p = q
    <3>1. /\ p \in Seq(Int) /\ q \in Seq(Int) /\ Len(p) = Len(q)
          /\ \A k \in 1 .. Len(p) : p[k] = q[k]
      BY <1>1, <2>1
    <3> QED
      BY <3>1, SameSequence
  <2> QED
    BY <1>2, <1>4, <1>5, <2>2 DEF p, q
<1>6. CASE m # 6
  <2>1. m \in 1 .. 5 /\ \A k \in 1 .. m - 1 : k \in 1 .. 5
    BY <1>6
  <2>2. p[m] < q[m] /\ \A k \in 1 .. m - 1 : p[k] = q[k]
    BY <1>2, <1>4, <2>1
  <2> QED
    BY <1>1, <2>1, <2>2 DEF Precedes, p, q
<1> QED
  BY <1>5, <1>6

\* The places of a URL, and the best of them.
GroupOf(s, url) == {i \in DOMAIN s : Canonicalize(s[i].item) = url}
BestOf(s, url) == Least(GroupOf(s, url), [i \in GroupOf(s, url) |-> RepresentativeOrder(s, i)])

LEMMA BestIs ==
  ASSUME NEW s \in Seq(Arrivals), NEW url, GroupOf(s, url) # {}
  PROVE  /\ BestOf(s, url) \in GroupOf(s, url)
         /\ \A i \in GroupOf(s, url) \ {BestOf(s, url)} :
              Precedes(RepresentativeOrder(s, BestOf(s, url)), RepresentativeOrder(s, i))
<1> DEFINE group == GroupOf(s, url)
           key == [i \in group |-> RepresentativeOrder(s, i)]
           best == BestOf(s, url)
<1>1. group \subseteq DOMAIN s
  BY DEF GroupOf
<1>2. IsFiniteSet(group)
  BY <1>1, PositionsFinite
<1>b. best = Least(group, key)
  BY DEF BestOf
<1>3. \A i \in group : /\ key[i] = RepresentativeOrder(s, i)
                       /\ key[i] \in Seq(Int) /\ Len(key[i]) = 6 /\ key[i][6] = i
  BY <1>1, OrderOfQuality
<1> HIDE DEF group, key, best
<1>4. Keyed(group, key)
  <2>1. \A i, j \in group : key[i] = key[j] => i = j
    BY <1>3
  <2>2. 6 \in Nat
    OBVIOUS
  <2> QED
    BY <1>2, <1>3, <2>1, <2>2 DEF Keyed
<1>5. best \in group /\ \A y \in group \ {best} : Precedes(key[best], key[y])
  BY <1>4, <1>b, LeastIs DEF group
<1>6. \A y \in group \ {best} : Precedes(RepresentativeOrder(s, best), RepresentativeOrder(s, y))
  BY <1>3, <1>5
<1> QED
  BY <1>5, <1>6 DEF group, best

LEMMA SameBest ==
  ASSUME NEW G, NEW s, NEW t, Arranges(s, G), Arranges(t, G), NEW url,
         NEW some \in G, Canonicalize(some.item) = url
  PROVE  s[BestOf(s, url)] = t[BestOf(t, url)]
<1> DEFINE i == BestOf(s, url)  j == BestOf(t, url)  a == s[i]  b == t[j]
<1>1. /\ s \in Seq(Arrivals) /\ t \in Seq(Arrivals)
      /\ {s[k] : k \in DOMAIN s} = G /\ {t[k] : k \in DOMAIN t} = G
  BY DEF Arranges
<1>2. GroupOf(s, url) # {} /\ GroupOf(t, url) # {}
  <2>1. (\E k \in DOMAIN s : s[k] = some) /\ (\E k \in DOMAIN t : t[k] = some)
    BY <1>1
  <2> QED
    BY <2>1 DEF GroupOf
<1>3. /\ i \in GroupOf(s, url) /\ j \in GroupOf(t, url)
      /\ \A k \in GroupOf(s, url) \ {i} : Precedes(RepresentativeOrder(s, i), RepresentativeOrder(s, k))
      /\ \A k \in GroupOf(t, url) \ {j} : Precedes(RepresentativeOrder(t, j), RepresentativeOrder(t, k))
  BY <1>1, <1>2, BestIs
<1> HIDE DEF i, j
<1>4. /\ i \in DOMAIN s /\ j \in DOMAIN t /\ a \in G /\ b \in G
      /\ Canonicalize(a.item) = url /\ Canonicalize(b.item) = url
      /\ a \in Arrivals /\ b \in Arrivals
  BY <1>1, <1>3 DEF GroupOf
<1>5. PICK k \in DOMAIN s : s[k] = b
  BY <1>1, <1>4
<1>6. PICK l \in DOMAIN t : t[l] = a
  BY <1>1, <1>4
<1>7. k \in GroupOf(s, url) /\ l \in GroupOf(t, url)
  BY <1>4, <1>5, <1>6 DEF GroupOf
<1> SUFFICES ASSUME a # b PROVE FALSE
  BY DEF i, j
<1>8. k # i /\ l # j
  BY <1>5, <1>6
<1>9. /\ Precedes(RepresentativeOrder(s, i), RepresentativeOrder(s, k))
      /\ Precedes(RepresentativeOrder(t, j), RepresentativeOrder(t, l))
  BY <1>3, <1>7, <1>8
<1> DEFINE p == Quality(a)  q == Quality(b)
<1>10. Precedes(p, q) \/ (p = q /\ i < k)
  <2>1. Precedes(Quality(s[i]), Quality(s[k])) \/ (Quality(s[i]) = Quality(s[k]) /\ i < k)
    BY <1>1, <1>4, <1>5, <1>9, QualityDecides
  <2> QED
    BY <1>5, <2>1
<1>11. Precedes(q, p) \/ (q = p /\ j < l)
  <2>1. Precedes(Quality(t[j]), Quality(t[l])) \/ (Quality(t[j]) = Quality(t[l]) /\ j < l)
    BY <1>1, <1>4, <1>6, <1>9, QualityDecides
  <2> QED
    BY <1>6, <2>1
<1>12. /\ p \in Seq(Int) /\ q \in Seq(Int) /\ Len(p) = 5 /\ Len(q) = 5
       /\ p[5] = a.provider /\ q[5] = b.provider
  BY <1>4, QualityIs
<1> HIDE DEF p, q
<1>13. ~Precedes(p, p) /\ (Precedes(p, q) => ~Precedes(q, p))
  <2>1. 5 \in Nat
    OBVIOUS
  <2> QED
    BY <1>12, <2>1, Lexicographic
<1>14. p = q /\ i < k /\ j < l
  BY <1>10, <1>11, <1>13
<1>15. a.provider = b.provider
  BY <1>12, <1>14
<1>16. a.rank < b.rank /\ b.rank < a.rank
  BY <1>4, <1>5, <1>6, <1>14, <1>15 DEF Arranges
<1>17. a.rank \in Nat /\ b.rank \in Nat
  BY <1>4 DEF Arrivals
<1> QED
  BY <1>16, <1>17

\* The merged result, from the set of what arrived and the representative.
MembersOf(G, url) == {r \in G : Canonicalize(r.item) = url}
MergedOf(G, url, best) ==
  LET providers == {r.provider : r \in MembersOf(G, url)}
  IN [url |-> url, item |-> best.item, representative |-> best.provider, providers |-> providers,
      ranks |-> [p \in providers |->
                   Min({r.rank : r \in {q \in MembersOf(G, url) : q.provider = p}})]]

LEMMA MergedIs ==
  ASSUME NEW G, NEW s, Arranges(s, G), NEW url
  PROVE  Merged(s, url) = MergedOf(G, url, s[BestOf(s, url)])
<1> DEFINE group == MembersOf(G, url)
           providers == {r.provider : r \in group}
           places == GroupOf(s, url)
<1>1. {s[i] : i \in DOMAIN s} = G
  BY DEF Arranges
<1>2. {s[i] : i \in places} = group
  BY <1>1 DEF GroupOf, MembersOf
<1>3. {s[i].provider : i \in places} = providers
  BY <1>2
<1>4. ASSUME NEW p
      PROVE  {s[i].rank : i \in {j \in places : s[j].provider = p}} =
               {r.rank : r \in {q \in group : q.provider = p}}
  BY <1>2
<1>5. Merged(s, url) =
        [url |-> url, item |-> s[BestOf(s, url)].item,
         representative |-> s[BestOf(s, url)].provider,
         providers |-> {s[i].provider : i \in places},
         ranks |-> [p \in {s[i].provider : i \in places} |->
                      Min({s[i].rank : i \in {j \in places : s[j].provider = p}})]]
  BY DEF Merged, BestOf, GroupOf
<1>d. MergedOf(G, url, s[BestOf(s, url)]) =
        [url |-> url, item |-> s[BestOf(s, url)].item,
         representative |-> s[BestOf(s, url)].provider, providers |-> providers,
         ranks |-> [p \in providers |-> Min({r.rank : r \in {q \in group : q.provider = p}})]]
  BY DEF MergedOf
<1> HIDE DEF places, group, providers
<1>6. [p \in {s[i].provider : i \in places} |->
         Min({s[i].rank : i \in {j \in places : s[j].provider = p}})]
      = [p \in providers |-> Min({r.rank : r \in {q \in group : q.provider = p}})]
  BY <1>3, <1>4
<1> QED
  BY <1>3, <1>5, <1>6, <1>d

LEMMA SameMerge ==
  ASSUME NEW G, NEW s, NEW t, Arranges(s, G), Arranges(t, G), NEW url,
         NEW some \in G, Canonicalize(some.item) = url
  PROVE  Merged(s, url) = Merged(t, url)
<1>1. s[BestOf(s, url)] = t[BestOf(t, url)]
  BY SameBest
<1>2. Merged(s, url) = MergedOf(G, url, s[BestOf(s, url)])
  BY MergedIs
<1>3. Merged(t, url) = MergedOf(G, url, t[BestOf(t, url)])
  BY MergedIs
<1> QED
  BY <1>1, <1>2, <1>3

ProvidersOf(s) == {s[i].provider : i \in DOMAIN s}
Urls(G) == {Canonicalize(r.item) : r \in G}


LEMMA UrlsAre ==
  ASSUME NEW G, NEW s, Arranges(s, G)
  PROVE  /\ Keyed(Urls(G), [url \in Urls(G) |-> url])
         /\ {Canonicalize(s[i].item) : i \in DOMAIN s} = Urls(G)
<1> DEFINE n == Len(s)
           f == [i \in 1 .. n |-> Canonicalize(s[i].item)]
<1>1. /\ s \in Seq(Arrivals) /\ {s[i] : i \in DOMAIN s} = G
      /\ DOMAIN s = 1 .. n /\ n \in Nat
  BY DEF Arranges
<1>2. {Canonicalize(s[i].item) : i \in DOMAIN s} = Urls(G)
  BY <1>1 DEF Urls
<1>3. \A i \in 1 .. n : Canonicalize(s[i].item) \in Seq(Int) /\ Len(Canonicalize(s[i].item)) = 2
  <2> SUFFICES ASSUME NEW i \in 1 .. n
               PROVE  Canonicalize(s[i].item) \in Seq(Int) /\ Len(Canonicalize(s[i].item)) = 2
    OBVIOUS
  <2>0. s[i] \in Arrivals
    BY <1>1
  <2>1. s[i].item.host \in Int /\ s[i].item.path \in Int
    BY <2>0 DEF Arrivals, Items
  <2> QED
    BY <2>1 DEF Canonicalize
<1>4. f \in Surjection(1 .. n, Urls(G))
  BY <1>1, <1>2 DEF Surjection
<1>5. IsFiniteSet(1 .. n)
  BY <1>1, UpTo
<1>6. IsFiniteSet(Urls(G))
  <2> HIDE DEF f
  <2> QED
    BY <1>4, <1>5, FS_Surjection
<1>7. \A url \in Urls(G) : url \in Seq(Int) /\ Len(url) = 2
  BY <1>1, <1>2, <1>3
<1>8. 2 \in Nat
  OBVIOUS
<1> QED
  BY <1>2, <1>6, <1>7, <1>8 DEF Keyed

LEMMA SameDeduplicate ==
  ASSUME NEW G, NEW s, NEW t, Arranges(s, G), Arranges(t, G)
  PROVE  /\ Deduplicate(s) = Deduplicate(t)
         /\ ProvidersOf(s) = ProvidersOf(t)

<1>1. {s[i] : i \in DOMAIN s} = G /\ {t[i] : i \in DOMAIN t} = G
  BY DEF Arranges
<1>2. {Canonicalize(s[i].item) : i \in DOMAIN s} = Urls(G)
      /\ {Canonicalize(t[i].item) : i \in DOMAIN t} = Urls(G)
  BY <1>1 DEF Urls
<1>3. ProvidersOf(s) = ProvidersOf(t)
  <2>1. \A i \in DOMAIN s : \E j \in DOMAIN t : t[j] = s[i]
    BY <1>1
  <2>2. \A j \in DOMAIN t : \E i \in DOMAIN s : s[i] = t[j]
    BY <1>1
  <2> QED
    BY <2>1, <2>2 DEF ProvidersOf
<1> DEFINE inOrder == Sorted(Urls(G), [url \in Urls(G) |-> url])
<1>4. /\ Deduplicate(s) = [k \in DOMAIN inOrder |-> Merged(s, inOrder[k])]
      /\ Deduplicate(t) = [k \in DOMAIN inOrder |-> Merged(t, inOrder[k])]
  BY <1>2 DEF Deduplicate
<1>5. \A k \in DOMAIN inOrder : inOrder[k] \in Urls(G)
  <2>1. Keyed(Urls(G), [url \in Urls(G) |-> url])
    BY UrlsAre
  <2> QED
    BY <2>1, SortedIs
<1> HIDE DEF inOrder
<1>6. \A k \in DOMAIN inOrder : Merged(s, inOrder[k]) = Merged(t, inOrder[k])
  <2> SUFFICES ASSUME NEW k \in DOMAIN inOrder PROVE Merged(s, inOrder[k]) = Merged(t, inOrder[k])
    OBVIOUS
  <2>1. PICK some \in G : Canonicalize(some.item) = inOrder[k]
    BY <1>5 DEF Urls
  <2> QED
    BY <2>1, SameMerge
<1> QED
  BY <1>3, <1>4, <1>6

\* The pipeline gives the same results for every order of arrival.
LEMMA SameRun ==
  ASSUME NEW given, given.lists \in Offers, NEW order \in SetToSeqs(Providers),
         NEW other \in SetToSeqs(Providers)
  PROVE  RunPipeline(given, order) = RunPipeline(given, other)
<1> DEFINE lists == given.lists
           s == Arrived(lists, order)  t == Arrived(lists, other)  G == Given(lists, Providers)
<1>1. Arranges(s, G) /\ Arranges(t, G)
  BY ArrivedIs
<1>2. Deduplicate(s) = Deduplicate(t) /\ ProvidersOf(s) = ProvidersOf(t)
  <2> HIDE DEF s, t, G
  <2> QED
    BY <1>1, SameDeduplicate
<1> QED
  BY <1>2 DEF RunPipeline, ProvidersOf


----------------------------------------------------------------------------
(* Every URL that arrived stands once in the results.                       *)

\* What deduplicate makes of a group.
IsMerged(r) ==
  /\ r.url \in Seq(Int) /\ r.item \in Items
  /\ r.providers \subseteq Providers /\ r.providers # {}
  /\ \A p \in r.providers : r.ranks[p] \in Nat \ {0}

LEMMA DeduplicatedAre ==
  ASSUME NEW G, NEW s, Arranges(s, G)
  PROVE  LET d == Deduplicate(s) IN
         /\ Cardinality(Urls(G)) \in Nat /\ DOMAIN d = 1 .. Cardinality(Urls(G))
         /\ \A k \in DOMAIN d : IsMerged(d[k])
         /\ \A k, l \in DOMAIN d : d[k].url = d[l].url => k = l
         /\ {d[k].url : k \in DOMAIN d} = Urls(G)
<1> DEFINE d == Deduplicate(s)  U == Urls(G)
           key == [url \in U |-> url]
           inOrder == Sorted(U, key)
           n == Cardinality(U)
<1>1. s \in Seq(Arrivals) /\ {s[i] : i \in DOMAIN s} = G
  BY DEF Arranges
<1>2. Keyed(U, key) /\ {Canonicalize(s[i].item) : i \in DOMAIN s} = U
  BY UrlsAre
<1>3. d = [k \in DOMAIN inOrder |-> Merged(s, inOrder[k])]
  BY <1>2 DEF Deduplicate
<1>4. /\ n \in Nat /\ DOMAIN inOrder = 1 .. n
      /\ \A k \in 1 .. n : inOrder[k] \in U
      /\ \A k, l \in 1 .. n : inOrder[k] = inOrder[l] => k = l
      /\ \A x \in U : \E k \in 1 .. n : inOrder[k] = x
  <2>1. Keyed(U, key)
    BY <1>2
  <2> HIDE DEF U, key
  <2> QED
    BY <2>1, SortedIs
<1>g. G \subseteq Arrivals
  BY <1>1
<1>5. \A url \in U : url \in Seq(Int)
  <2> SUFFICES ASSUME NEW r \in G PROVE Canonicalize(r.item) \in Seq(Int)
    BY DEF Urls
  <2>0. r \in Arrivals
    BY <1>g
  <2>1. r.item.host \in Int /\ r.item.path \in Int
    BY <2>0 DEF Arrivals, Items
  <2> QED
    BY <2>1 DEF Canonicalize
<1>6. ASSUME NEW url \in U PROVE IsMerged(Merged(s, url)) /\ Merged(s, url).url = url
  <2> DEFINE group == MembersOf(G, url)
             best == s[BestOf(s, url)]
             m == MergedOf(G, url, best)
  <2>1. Merged(s, url) = m
    BY MergedIs
  <2>2. group # {} /\ group \subseteq Arrivals /\ \A r \in group : Canonicalize(r.item) = url
    BY <1>g DEF MembersOf, Urls
  <2>3. GroupOf(s, url) # {}
    BY <1>2 DEF GroupOf
  <2>4. BestOf(s, url) \in DOMAIN s
    BY <1>1, <2>3, BestIs DEF GroupOf
  <2>5. best \in Arrivals
    BY <1>1, <2>4
  <2>6. best.item \in Items
    BY <2>5 DEF Arrivals
  <2> HIDE DEF best, group
  <2>7. /\ m.url = url /\ m.item = best.item
        /\ m.providers = {r.provider : r \in group}
        /\ \A p \in m.providers : m.ranks[p] = Min({r.rank : r \in {q \in group : q.provider = p}})
    BY DEF MergedOf, group
  <2> HIDE DEF m
  <2>8. m.providers \subseteq Providers /\ m.providers # {}
    BY <2>2, <2>7 DEF Arrivals
  <2>9. ASSUME NEW p \in m.providers PROVE m.ranks[p] \in Nat \ {0}
    <3> DEFINE ranks == {r.rank : r \in {q \in group : q.provider = p}}
    <3>1. ranks \subseteq Nat \ {0} /\ ranks # {}
      BY <2>2, <2>7 DEF Arrivals
    <3>2. m.ranks[p] = Min(ranks)
      BY <2>7
    <3> HIDE DEF ranks
    <3>3. Min(ranks) \in ranks
      BY <3>1, FirstPosition
    <3> QED
      BY <3>1, <3>2, <3>3
  <2> QED
    BY <1>5, <2>1, <2>6, <2>7, <2>8, <2>9 DEF IsMerged
<1> HIDE DEF d, U, key, inOrder, n
<1>7. DOMAIN d = 1 .. n /\ \A k \in 1 .. n : d[k] = Merged(s, inOrder[k]) /\ inOrder[k] \in U
  BY <1>3, <1>4
<1>8. \A k \in 1 .. n : IsMerged(d[k]) /\ d[k].url = inOrder[k]
  BY <1>6, <1>7
<1>9. \A k, l \in 1 .. n : d[k].url = d[l].url => k = l
  BY <1>4, <1>8
<1>10. {d[k].url : k \in 1 .. n} = U
  BY <1>4, <1>8
<1>11. /\ n \in Nat /\ DOMAIN d = 1 .. n
       /\ \A k \in DOMAIN d : IsMerged(d[k])
       /\ \A k, l \in DOMAIN d : d[k].url = d[l].url => k = l
       /\ {d[k].url : k \in DOMAIN d} = U
  BY <1>4, <1>7, <1>8, <1>9, <1>10
<1> QED
  BY <1>11 DEF d, U, n

LEMMA SomeProviders ==
  ASSUME NEW some, some \subseteq Providers
  PROVE  /\ Keyed(some, [p \in some |-> <<p>>])
         /\ Cardinality(some) \in Nat /\ (some # {} => Cardinality(some) > 0)
<1>1. IsFiniteSet(some) /\ Cardinality(some) \in Nat
  BY ResultsAssumption, FS_Subset, FS_CardinalityType
<1>2. \A p \in some : <<p>> \in Seq(Int) /\ Len(<<p>>) = 1 /\ <<p>>[1] = p
  BY ResultsAssumption
<1>3. Keyed(some, [p \in some |-> <<p>>])
  <2>1. 1 \in Nat
    OBVIOUS
  <2>2. \A p \in some : [q \in some |-> <<q>>][p] = <<p>>
    OBVIOUS
  <2>3. \A p, q \in some : <<p>> = <<q>> => p = q
    BY <1>2
  <2> QED
    BY <1>1, <1>2, <2>1, <2>2, <2>3 DEF Keyed
<1> QED
  BY <1>1, <1>3, FS_EmptySet

LEMMA RrfType ==
  ASSUME NEW result, IsMerged(result)
  PROVE  Rrf(result) \in Int
<1> DEFINE share == One \div Cardinality(result.providers)
           names == Sorted(result.providers, [p \in result.providers |-> <<p>>])
           N == Len(names)
           one(x, n) == x + (share * 61) \div (60 + result.ranks[names[n]])
           body(h) == [n \in 0 .. N |-> IF n = 0 THEN 0 ELSE one(h[n - 1], n)]
           sum == CHOOSE h : h = body(h)
           g == [n \in 1 .. N |-> [x \in Int |-> one(x, n)]]
<1>0. Rrf(result) = sum[N]
  BY DEF Rrf
<1>1. result.providers \subseteq Providers /\ result.providers # {}
  BY DEF IsMerged
<1>2. share \in Int
  <2>1. Cardinality(result.providers) \in Nat /\ Cardinality(result.providers) > 0
    BY <1>1, SomeProviders
  <2> QED
    BY <2>1 DEF One
<1>3. N \in Nat /\ \A n \in 1 .. N : names[n] \in result.providers
  <2> DEFINE key == [p \in result.providers |-> <<p>>]
  <2>1. Keyed(result.providers, key)
    BY <1>1, SomeProviders
  <2> HIDE DEF key
  <2>2. Sorted(result.providers, key) \in Seq(result.providers)
    BY <2>1, SortedIs
  <2>3. names \in Seq(result.providers)
    BY <2>2 DEF key
  <2> HIDE DEF names
  <2> QED
    BY <2>3
<1> HIDE DEF share, names, N
<1>4. \A n \in 1 .. N : \A x \in Int : one(x, n) \in Int
  <2> SUFFICES ASSUME NEW n \in 1 .. N, NEW x \in Int PROVE one(x, n) \in Int
    OBVIOUS
  <2> DEFINE r == result.ranks[names[n]]
  <2>1. r \in Nat \ {0}
    BY <1>3 DEF IsMerged
  <2> HIDE DEF r
  <2>2. x + (share * 61) \div (60 + r) \in Int
    BY <1>2, <2>1
  <2> QED
    BY <2>2 DEF r
<1> HIDE DEF one
<1>5. g \in [1 .. N -> [Int -> Int]]
  BY <1>4
<1>6. PICK f \in [0 .. N -> Int] : Runs(f, 0, N, g)
  <2>1. 0 \in Int
    OBVIOUS
  <2> HIDE DEF g
  <2> QED
    BY <1>3, <1>5, <2>1, Stepwise
<1>7. f = body(f)
  <2>1. ASSUME NEW k \in 1 .. N PROVE f[k] = one(f[k - 1], k)
    <3>1. k - 1 \in 0 .. N
      BY <1>3
    <3>2. f[k - 1] \in Int
      BY <3>1
    <3> QED
      BY <1>6, <3>2 DEF Runs
  <2>2. f[0] = 0
    BY <1>6 DEF Runs
  <2>3. \A k \in 0 .. N : k = 0 \/ k \in 1 .. N
    BY <1>3
  <2> HIDE DEF g
  <2> QED
    BY <2>1, <2>2, <2>3
<1>8. sum = body(sum)
  BY <1>7
<1> DEFINE T == {k \in Nat : k <= N => sum[k] \in Int}
<1> HIDE DEF sum
<1>9. 0 \in T
  BY <1>3, <1>8
<1>10. ASSUME NEW k \in Nat, k \in T PROVE k + 1 \in T
  <2> SUFFICES ASSUME k + 1 <= N PROVE sum[k + 1] \in Int
    OBVIOUS
  <2>1. k + 1 \in 0 .. N /\ k + 1 \in 1 .. N /\ k + 1 # 0 /\ (k + 1) - 1 = k /\ k <= N
    BY <1>3
  <2>2. sum[k + 1] = one(sum[k], k + 1)
    BY <1>8, <2>1
  <2> QED
    BY <1>4, <1>10, <2>1, <2>2
<1> HIDE DEF T
<1>11. N \in T
  BY <1>3, <1>9, <1>10, Induction
<1> QED
  BY <1>0, <1>3, <1>11 DEF T

LEMMA FreshnessType ==
  ASSUME NEW date \in Nat, NEW day \in Nat
  PROVE  Freshness(date, day) \in Int
<1> DEFINE N == IF day > date THEN day - date ELSE 0
           one(x) == x \div 2
           body(h) == [n \in 0 .. N |-> IF n = 0 THEN One ELSE one(h[n - 1])]
           halved == CHOOSE h : h = body(h)
           g == [n \in 1 .. N |-> [x \in Int |-> one(x)]]
<1>0. Freshness(date, day) = IF date = 0 THEN 0 ELSE halved[N]
  BY DEF Freshness
<1>1. N \in Nat
  OBVIOUS
<1>2. One \in Int
  BY DEF One
<1> HIDE DEF N
<1>4. \A x \in Int : one(x) \in Int
  OBVIOUS
<1> HIDE DEF one
<1>5. g \in [1 .. N -> [Int -> Int]]
  BY <1>4
<1>6. PICK f \in [0 .. N -> Int] : Runs(f, One, N, g)
  <2> HIDE DEF g
  <2> QED
    BY <1>1, <1>2, <1>5, Stepwise
<1>7. f = body(f)
  <2>1. ASSUME NEW k \in 1 .. N PROVE f[k] = one(f[k - 1])
    <3>1. k - 1 \in 0 .. N
      BY <1>1
    <3>2. f[k - 1] \in Int
      BY <3>1
    <3> QED
      BY <1>6, <3>2 DEF Runs
  <2>2. f[0] = One
    BY <1>6 DEF Runs
  <2>3. \A k \in 0 .. N : k = 0 \/ k \in 1 .. N
    BY <1>1
  <2> HIDE DEF g
  <2> QED
    BY <2>1, <2>2, <2>3
<1>8. halved = body(halved)
  BY <1>7
<1> DEFINE T == {k \in Nat : k <= N => halved[k] \in Int}
<1> HIDE DEF halved
<1>9. 0 \in T
  BY <1>1, <1>2, <1>8
<1>10. ASSUME NEW k \in Nat, k \in T PROVE k + 1 \in T
  <2> SUFFICES ASSUME k + 1 <= N PROVE halved[k + 1] \in Int
    OBVIOUS
  <2>1. k + 1 \in 0 .. N /\ k + 1 # 0 /\ (k + 1) - 1 = k /\ k <= N
    BY <1>1
  <2>2. halved[k + 1] = one(halved[k])
    BY <1>8, <2>1
  <2> QED
    BY <1>4, <1>10, <2>1, <2>2
<1> HIDE DEF T
<1>11. N \in T
  BY <1>1, <1>9, <1>10, Induction
<1> QED
  BY <1>0, <1>1, <1>11 DEF T

LEMMA ScoreType ==
  ASSUME NEW result, IsMerged(result), NEW active \in Nat, NEW day \in Nat
  PROVE  Score(result, active, day) \in Int
<1>1. Rrf(result) \in Int
  BY RrfType
<1>2. /\ result.item.title \in Nat /\ result.item.snippet \in Nat /\ result.item.date \in Nat
  BY DEF IsMerged, Items
<1>3. TextMatch(TitleTokens(result.item)) \in Int /\ TextMatch(result.item.snippet) \in Int
  BY <1>2 DEF TextMatch, TitleTokens, One
<1>4. Freshness(result.item.date, day) \in Int
  BY <1>2, FreshnessType
<1>5. Agreement(result.providers, active) \in Int
  <2> DEFINE c == Cardinality(result.providers)
  <2>1. c \in Nat
    BY SomeProviders DEF IsMerged
  <2> HIDE DEF c
  <2>2. active > 1 => (One * (c - 1)) \div (active - 1) \in Int
    BY <2>1 DEF One
  <2> QED
    BY <2>2 DEF Agreement, c, One
<1> QED
  BY <1>1, <1>3, <1>4, <1>5 DEF Score

\* The ranked results, and the documents that adjust them.
Scored == [url : Seq(Int), item : Items, providers : SUBSET Providers, stable : Nat, score : Int]
Documents == [rules : Seq(Rules), discard : BOOLEAN]

\* A list that holds each of some URLs once.
ListsOnce(s, V) ==
  /\ s \in Seq(Scored)
  /\ \A i, j \in DOMAIN s : s[i].stable = s[j].stable => i = j
  /\ \A i, j \in DOMAIN s : s[i].url = s[j].url => i = j
  /\ {s[i].url : i \in DOMAIN s} = V

\* A selection of different places holds each of its URLs once.
LEMMA SelectedOnce ==
  ASSUME NEW s, NEW V, ListsOnce(s, V), NEW m \in Nat, NEW p \in [1 .. m -> DOMAIN s],
         \A k, l \in 1 .. m : p[k] = p[l] => k = l
  PROVE  LET t == [k \in 1 .. m |-> s[p[k]]]
         IN ListsOnce(t, {s[p[k]].url : k \in 1 .. m})
<1> DEFINE t == [k \in 1 .. m |-> s[p[k]]]
<1>1. s \in Seq(Scored) /\ \A k \in 1 .. m : p[k] \in DOMAIN s
  BY DEF ListsOnce
<1>2. t \in [1 .. m -> Scored]
  BY <1>1
<1>3. t \in Seq(Scored) /\ DOMAIN t = 1 .. m /\ \A k \in 1 .. m : t[k] = s[p[k]]
  BY <1>2
<1> HIDE DEF t
<1>4. ASSUME NEW k \in DOMAIN t, NEW l \in DOMAIN t
      PROVE  /\ t[k].stable = t[l].stable => k = l
             /\ t[k].url = t[l].url => k = l
  BY <1>1, <1>3 DEF ListsOnce
<1>5. {t[k].url : k \in DOMAIN t} = {s[p[k]].url : k \in 1 .. m}
  BY <1>3
<1>6. ListsOnce(t, {s[p[k]].url : k \in 1 .. m})
  BY <1>3, <1>4, <1>5 DEF ListsOnce
<1> QED
  BY <1>6 DEF t

LEMMA OrderedOnce ==
  ASSUME NEW s, NEW V, ListsOnce(s, V)
  PROVE  ListsOnce(Ordered(s), V)
<1> DEFINE D == DOMAIN s
           key == [i \in D |-> <<-s[i].score, -TitleTokens(s[i].item), s[i].stable>>]
           places == Sorted(D, key)
           n == Cardinality(D)
<1>1. s \in Seq(Scored) /\ D = 1 .. Len(s) /\ Len(s) \in Nat
  BY DEF ListsOnce
<1>2. ASSUME NEW i \in D
      PROVE  key[i] \in Seq(Int) /\ Len(key[i]) = 3 /\ key[i][3] = s[i].stable
  <2>1. s[i] \in Scored
    BY <1>1
  <2>2. s[i].score \in Int /\ s[i].stable \in Nat /\ s[i].item \in Items
    BY <2>1 DEF Scored
  <2>3. s[i].item.title \in Nat
    BY <2>2 DEF Items
  <2>4. -TitleTokens(s[i].item) \in Int
    BY <2>3 DEF TitleTokens
  <2>5. key[i] = <<-s[i].score, -TitleTokens(s[i].item), s[i].stable>>
    OBVIOUS
  <2> HIDE DEF key
  <2> QED
    BY <2>2, <2>4, <2>5
<1>3. Keyed(D, key)
  <2> HIDE DEF key
  <2>1. IsFiniteSet(D)
    BY <1>1, UpTo
  <2>2. 3 \in Nat
    OBVIOUS
  <2>3. \A i, j \in D : key[i] = key[j] => i = j
    BY <1>2 DEF ListsOnce
  <2> QED
    BY <1>2, <2>1, <2>2, <2>3 DEF Keyed
<1>4. Ordered(s) = [k \in DOMAIN places |-> s[places[k]]]
  BY DEF Ordered
<1> HIDE DEF key
<1>5. /\ n \in Nat /\ places \in Seq(D) /\ DOMAIN places = 1 .. n
      /\ \A k, l \in 1 .. n : places[k] = places[l] => k = l
      /\ \A x \in D : \E k \in 1 .. n : places[k] = x
  <2> HIDE DEF D
  <2> QED
    BY <1>3, SortedIs
<1>6. places \in [1 .. n -> D]
  BY <1>5
<1> HIDE DEF places, n
<1>7. {s[places[k]].url : k \in 1 .. n} = V
  <2>1. {s[i].url : i \in D} = V
    BY DEF ListsOnce
  <2> QED
    BY <1>5, <1>6, <2>1
<1>8. ListsOnce([k \in 1 .. n |-> s[places[k]]], {s[places[k]].url : k \in 1 .. n})
  BY <1>5, <1>6, SelectedOnce
<1> QED
  BY <1>4, <1>5, <1>7, <1>8

LEMMA RankedOnce ==
  ASSUME NEW G, NEW s, Arranges(s, G), NEW active \in Nat, NEW day \in Nat
  PROVE  ListsOnce(Rank(Deduplicate(s), active, day), Urls(G))
<1> DEFINE d == Deduplicate(s)
           n == Cardinality(Urls(G))
           scored == [i \in DOMAIN d |->
                       [url |-> d[i].url, item |-> d[i].item, providers |-> d[i].providers,
                        stable |-> i, score |-> Score(d[i], active, day)]]
<1>1. /\ n \in Nat /\ DOMAIN d = 1 .. n
      /\ \A k \in DOMAIN d : IsMerged(d[k])
      /\ \A k, l \in DOMAIN d : d[k].url = d[l].url => k = l
      /\ {d[k].url : k \in DOMAIN d} = Urls(G)
  BY DeduplicatedAre
<1>2. Rank(d, active, day) = Ordered(scored)
  BY DEF Rank
<1> HIDE DEF d, n
<1>3. ASSUME NEW i \in DOMAIN d
      PROVE  /\ scored[i] \in Scored /\ scored[i].url = d[i].url /\ scored[i].stable = i
  <2>1. IsMerged(d[i])
    BY <1>1
  <2>2. Score(d[i], active, day) \in Int
    BY <2>1, ScoreType
  <2>3. d[i].url \in Seq(Int) /\ d[i].item \in Items /\ d[i].providers \in SUBSET Providers
    BY <2>1 DEF IsMerged
  <2>4. i \in Nat
    BY <1>1
  <2> QED
    BY <2>2, <2>3, <2>4 DEF Scored
<1>4. DOMAIN scored = 1 .. n
  BY <1>1
<1>5. scored = [i \in 1 .. n |-> scored[i]]
  BY <1>1
<1> HIDE DEF scored
<1>6. scored \in [1 .. n -> Scored]
  BY <1>1, <1>3, <1>5
<1>7. scored \in Seq(Scored)
  BY <1>1, <1>6
<1>8. ListsOnce(scored, Urls(G))
  BY <1>1, <1>3, <1>4, <1>7 DEF ListsOnce
<1> QED
  BY <1>2, <1>8, OrderedOnce DEF d

\* An adjustment changes the score and nothing else.
LEMMA AdjustedIs ==
  ASSUME NEW doc \in Documents, NEW r \in Scored
  PROVE  /\ Adjusted(doc, r) \in Scored
         /\ Adjusted(doc, r).url = r.url /\ Adjusted(doc, r).stable = r.stable
<1> DEFINE N == Len(doc.rules)
           M == Matching(doc, r)
           penalised == IF r.item.host \in TrackerHosts THEN (r.score * 5) \div 100 ELSE r.score
           one(x, n) == IF n \in M THEN (x * doc.rules[n].percent) \div 100 ELSE x
           body(h) == [n \in 0 .. N |-> IF n = 0 THEN penalised ELSE one(h[n - 1], n)]
           scaled == CHOOSE h : h = body(h)
           g == [n \in 1 .. N |-> [x \in Int |-> one(x, n)]]
<1>0. Adjusted(doc, r) = [r EXCEPT !.score = Clamped(scaled[N])]
  BY DEF Adjusted
<1>1. doc.rules \in Seq(Rules) /\ N \in Nat
  BY DEF Documents
<1>2. penalised \in Int
  BY DEF Scored
<1> HIDE DEF penalised, M
<1>4. \A n \in 1 .. N : \A x \in Int : one(x, n) \in Int
  <2> SUFFICES ASSUME NEW n \in 1 .. N, NEW x \in Int PROVE one(x, n) \in Int
    OBVIOUS
  <2>1. doc.rules[n] \in Rules
    BY <1>1
  <2>2. doc.rules[n].percent \in Nat
    BY <2>1 DEF Rules
  <2> QED
    BY <2>2
<1> HIDE DEF one, N
<1>5. g \in [1 .. N -> [Int -> Int]]
  BY <1>4
<1>6. PICK f \in [0 .. N -> Int] : Runs(f, penalised, N, g)
  <2> HIDE DEF g
  <2> QED
    BY <1>1, <1>2, <1>5, Stepwise
<1>7. f = body(f)
  <2>1. ASSUME NEW k \in 1 .. N PROVE f[k] = one(f[k - 1], k)
    <3>1. k - 1 \in 0 .. N
      BY <1>1
    <3>2. f[k - 1] \in Int
      BY <3>1
    <3> QED
      BY <1>6, <3>2 DEF Runs
  <2>2. f[0] = penalised
    BY <1>6 DEF Runs
  <2>3. \A k \in 0 .. N : k = 0 \/ k \in 1 .. N
    BY <1>1
  <2> HIDE DEF g
  <2> QED
    BY <2>1, <2>2, <2>3
<1>8. scaled = body(scaled)
  BY <1>7
<1> DEFINE T == {k \in Nat : k <= N => scaled[k] \in Int}
<1> HIDE DEF scaled
<1>9. 0 \in T
  BY <1>1, <1>2, <1>8
<1>10. ASSUME NEW k \in Nat, k \in T PROVE k + 1 \in T
  <2> SUFFICES ASSUME k + 1 <= N PROVE scaled[k + 1] \in Int
    OBVIOUS
  <2>1. k + 1 \in 0 .. N /\ k + 1 \in 1 .. N /\ k + 1 # 0 /\ (k + 1) - 1 = k /\ k <= N
    BY <1>1
  <2>2. scaled[k + 1] = one(scaled[k], k + 1)
    BY <1>8, <2>1
  <2> QED
    BY <1>4, <1>10, <2>1, <2>2
<1> HIDE DEF T
<1>11. N \in T
  BY <1>1, <1>9, <1>10, Induction
<1>12. scaled[N] \in Int
  BY <1>1, <1>11 DEF T
<1>13. Clamped(scaled[N]) \in Int
  BY <1>12 DEF Clamped, One
<1> QED
  BY <1>0, <1>13 DEF Scored

LEMMA AdjustedOnce ==
  ASSUME NEW s, NEW V, ListsOnce(s, V), NEW doc \in Documents
  PROVE  \E W : /\ ListsOnce(ApplyAdjustments(s, doc), W)
                /\ ~doc.discard => W = V
<1> DEFINE P == {i \in DOMAIN s : Matching(doc, s[i]) # {}}
           kept == IF doc.discard THEN Picked(s, P) ELSE s
           adjusted == [i \in DOMAIN kept |-> Adjusted(doc, kept[i])]
<1>1. ApplyAdjustments(s, doc) = Ordered(adjusted)
  BY DEF ApplyAdjustments
<1>2. \E W : ListsOnce(kept, W) /\ (~doc.discard => W = V)
  <2>1. CASE doc.discard
    <3> DEFINE n == Cardinality(P)
               p == [k \in 1 .. n |-> Nth(P, k)]
    <3>1. P \subseteq DOMAIN s /\ s \in Seq(Scored)
      BY DEF ListsOnce
    <3> HIDE DEF P
    <3>2. /\ n \in Nat /\ DOMAIN Picked(s, P) = 1 .. n
          /\ \A k \in 1 .. n : Nth(P, k) \in P /\ Picked(s, P)[k] = s[Nth(P, k)]
          /\ \A k, m \in 1 .. n : k < m => Nth(P, k) < Nth(P, m)
      BY <3>1, PickedIs, PositionsFinite
    <3>3. p \in [1 .. n -> DOMAIN s]
      BY <3>1, <3>2
    <3>4. \A k, l \in 1 .. n : p[k] = p[l] => k = l
      <4> SUFFICES ASSUME NEW k \in 1 .. n, NEW l \in 1 .. n, Nth(P, k) = Nth(P, l), k # l
                   PROVE  FALSE
        OBVIOUS
      <4>1. k < l \/ l < k
        BY <3>2
      <4>2. Nth(P, k) \in Nat /\ Nth(P, l) \in Nat
        BY <3>1, <3>2
      <4> QED
        BY <3>2, <4>1, <4>2
    <3>5. Picked(s, P) = [k \in 1 .. n |-> s[p[k]]]
      BY DEF Picked
    <3> HIDE DEF p, n
    <3>6. ListsOnce([k \in 1 .. n |-> s[p[k]]], {s[p[k]].url : k \in 1 .. n})
      BY <3>2, <3>3, <3>4, SelectedOnce
    <3> QED
      BY <2>1, <3>5, <3>6
  <2>2. CASE ~doc.discard
    BY <2>2
  <2> QED
    BY <2>1, <2>2
<1>3. PICK W : ListsOnce(kept, W) /\ (~doc.discard => W = V)
  BY <1>2
<1> HIDE DEF kept
<1>4. kept \in Seq(Scored) /\ DOMAIN kept = 1 .. Len(kept) /\ Len(kept) \in Nat
  BY <1>3 DEF ListsOnce
<1>5. ASSUME NEW i \in DOMAIN kept
      PROVE  /\ adjusted[i] \in Scored
             /\ adjusted[i].url = kept[i].url /\ adjusted[i].stable = kept[i].stable
  <2>1. kept[i] \in Scored
    BY <1>4
  <2>2. adjusted[i] = Adjusted(doc, kept[i])
    OBVIOUS
  <2> HIDE DEF adjusted
  <2> QED
    BY <2>1, <2>2, AdjustedIs
<1>6. DOMAIN adjusted = DOMAIN kept /\ adjusted = [i \in DOMAIN kept |-> adjusted[i]]
  OBVIOUS
<1> HIDE DEF adjusted
<1>7. adjusted \in [1 .. Len(kept) -> Scored]
  BY <1>4, <1>5, <1>6
<1>8. adjusted \in Seq(Scored)
  BY <1>4, <1>7
<1>9. ListsOnce(adjusted, W)
  <2>1. {adjusted[i].url : i \in DOMAIN adjusted} = W
    BY <1>3, <1>5, <1>6 DEF ListsOnce
  <2>2. ASSUME NEW i \in DOMAIN adjusted, NEW j \in DOMAIN adjusted
        PROVE  /\ adjusted[i].url = adjusted[j].url => i = j
               /\ adjusted[i].stable = adjusted[j].stable => i = j
    BY <1>3, <1>5, <1>6 DEF ListsOnce
  <2> QED
    BY <1>8, <2>1, <2>2 DEF ListsOnce
<1>10. ListsOnce(Ordered(adjusted), W)
  BY <1>9, OrderedOnce
<1> QED
  BY <1>1, <1>3, <1>10

\* What a reader sees of a result.
Shown == [url : Seq(Int), item : Items, providers : SUBSET Providers, visible : BOOLEAN]

LEMMA DiversifiedIs ==
  ASSUME NEW s \in Seq(Scored)
  PROVE  /\ Diversify(s) \in Seq(Shown) /\ DOMAIN Diversify(s) = DOMAIN s
         /\ \A i \in DOMAIN s : Diversify(s)[i].url = s[i].url
<1> DEFINE out == Diversify(s)
<1>1. DOMAIN s = 1 .. Len(s) /\ Len(s) \in Nat
  OBVIOUS
<1>2. PICK places :
        out = [i \in DOMAIN s |->
                [url |-> s[i].url, item |-> s[i].item, providers |-> s[i].providers,
                 visible |-> i \in places]]
  BY DEF Diversify
<1> HIDE DEF out
<1>3. ASSUME NEW i \in DOMAIN s PROVE out[i] \in Shown /\ out[i].url = s[i].url
  <2>1. s[i] \in Scored
    OBVIOUS
  <2>2. s[i].url \in Seq(Int) /\ s[i].item \in Items /\ s[i].providers \in SUBSET Providers
    BY <2>1 DEF Scored
  <2>3. (i \in places) \in BOOLEAN
    OBVIOUS
  <2> QED
    BY <1>2, <2>2, <2>3 DEF Shown
<1>4. DOMAIN out = 1 .. Len(s)
  BY <1>1, <1>2
<1>5. out = [i \in 1 .. Len(s) |-> out[i]]
  BY <1>1, <1>2
<1>6. out \in [1 .. Len(s) -> Shown]
  BY <1>1, <1>3, <1>5
<1>7. out \in Seq(Shown)
  BY <1>1, <1>6
<1> QED
  BY <1>1, <1>3, <1>4, <1>7 DEF out

\* What an execution may be given.
Givens == [lists : Offers, today : Nat, optics : Documents]

\* The results of a run: every URL once, and every one that was given unless
\* the document discards it.
LEMMA RunIs ==
  ASSUME NEW given \in Givens, NEW order \in SetToSeqs(Providers)
  PROVE  LET all == RunPipeline(given, order).results
             lists == given.lists
             doc == given.optics
         IN
         /\ all \in Seq(Shown)
         /\ \A i, j \in DOMAIN all : all[i].url = all[j].url => i = j
         /\ ~doc.discard => {all[i].url : i \in DOMAIN all} = Urls(Given(lists, Providers))
<1> DEFINE lists == given.lists
           doc == given.optics
           G == Given(lists, Providers)
           s == Arrived(lists, order)
           active == Cardinality(ProvidersOf(s))
           ranked == Rank(Deduplicate(s), active, given.today)
           adjusted == ApplyAdjustments(ranked, doc)
           all == RunPipeline(given, order).results
<1>0. lists \in Offers /\ doc \in Documents /\ given.today \in Nat
  BY DEF Givens
<1>1. Arranges(s, G)
  BY <1>0, ArrivedIs
<1>2. active \in Nat
  <2>1. s \in Seq(Arrivals)
    BY <1>1 DEF Arranges
  <2> HIDE DEF s
  <2>2. ProvidersOf(s) \subseteq Providers
    <3> SUFFICES ASSUME NEW i \in DOMAIN s PROVE s[i].provider \in Providers
      BY DEF ProvidersOf
    <3>1. s[i] \in Arrivals
      BY <2>1
    <3> QED
      BY <3>1 DEF Arrivals
  <2> QED
    BY <2>2, SomeProviders
<1>3. all = Diversify(adjusted)
  BY DEF RunPipeline, ProvidersOf
<1> HIDE DEF s, active, G
<1>4. ListsOnce(ranked, Urls(G))
  BY <1>0, <1>1, <1>2, RankedOnce
<1> HIDE DEF ranked, doc
<1>5. PICK W : ListsOnce(adjusted, W) /\ (~doc.discard => W = Urls(G))
  BY <1>0, <1>4, AdjustedOnce
<1> HIDE DEF adjusted, all
<1>6. adjusted \in Seq(Scored)
  BY <1>5 DEF ListsOnce
<1>7. /\ all \in Seq(Shown) /\ DOMAIN all = DOMAIN adjusted
      /\ \A i \in DOMAIN adjusted : all[i].url = adjusted[i].url
  BY <1>3, <1>6, DiversifiedIs
<1>8. \A i, j \in DOMAIN all : all[i].url = all[j].url => i = j
  BY <1>5, <1>7 DEF ListsOnce
<1>9. ~doc.discard => {all[i].url : i \in DOMAIN all} = Urls(G)
  BY <1>5, <1>7 DEF ListsOnce
<1> QED
  BY <1>7, <1>8, <1>9 DEF all, G, doc

----------------------------------------------------------------------------
(* The pages are consecutive pieces of the results.                         *)

LEMMA PieceIs ==
  ASSUME NEW S, NEW s \in Seq(S), NEW a \in Nat, NEW b \in Nat, a <= b, b <= Len(s)
  PROVE  /\ SubSeq(s, a + 1, b) \in Seq(S) /\ Len(SubSeq(s, a + 1, b)) = b - a
         /\ \A i \in 1 .. b - a : SubSeq(s, a + 1, b)[i] = s[a + i]
<1>1. \A i \in a + 1 .. b : s[i] \in S
  OBVIOUS
<1>2. /\ SubSeq(s, a + 1, b) \in Seq(S)
      /\ Len(SubSeq(s, a + 1, b)) = IF a + 1 <= b THEN b - (a + 1) + 1 ELSE 0
  BY <1>1
<1>3. \A i \in 1 .. b - a : SubSeq(s, a + 1, b)[i] = s[a + i]
  BY <1>1
<1> QED
  BY <1>2, <1>3

\* Two pieces that meet make one.
LEMMA PiecesJoin ==
  ASSUME NEW S, NEW s \in Seq(S), NEW a \in Nat, NEW b \in Nat, a <= b, b <= Len(s)
  PROVE  SubSeq(s, 1, a) \o SubSeq(s, a + 1, b) = SubSeq(s, 1, b)
<1> DEFINE u == SubSeq(s, 0 + 1, a)
           v == SubSeq(s, a + 1, b)
           w == SubSeq(s, 0 + 1, b)
<1>0. 0 \in Nat /\ 0 <= a /\ 0 <= b /\ a <= Len(s) /\ a - 0 = a /\ b - 0 = b
  OBVIOUS
<1>1. u \in Seq(S) /\ Len(u) = a /\ \A i \in 1 .. a : u[i] = s[i]
  <2>1. u \in Seq(S) /\ Len(u) = a - 0 /\ \A i \in 1 .. a - 0 : u[i] = s[0 + i]
    BY <1>0, PieceIs
  <2> QED
    BY <2>1
<1>2. v \in Seq(S) /\ Len(v) = b - a /\ \A i \in 1 .. b - a : v[i] = s[a + i]
  BY <1>0, PieceIs
<1>3. w \in Seq(S) /\ Len(w) = b /\ \A i \in 1 .. b : w[i] = s[i]
  <2>1. w \in Seq(S) /\ Len(w) = b - 0 /\ \A i \in 1 .. b - 0 : w[i] = s[0 + i]
    BY <1>0, PieceIs
  <2> QED
    BY <2>1
<1>e. u = SubSeq(s, 1, a) /\ w = SubSeq(s, 1, b)
  OBVIOUS
<1> HIDE DEF u, v, w
<1> DEFINE x == u \o v
<1>4. /\ x \in Seq(S) /\ Len(x) = Len(u) + Len(v)
      /\ \A i \in 1 .. Len(u) : x[i] = u[i]
      /\ \A i \in (Len(u) + 1) .. (Len(u) + Len(v)) : x[i] = v[i - Len(u)]
  <2>1. u \in Seq(S) /\ v \in Seq(S)
    BY <1>1, <1>2
  <2> QED
    BY <2>1, Joined
<1> HIDE DEF x
<1>5. Len(x) = b
  BY <1>1, <1>2, <1>4
<1>6. ASSUME NEW i \in 1 .. b PROVE x[i] = w[i]
  <2>1. CASE i <= a
    <3>1. i \in 1 .. a /\ i \in 1 .. Len(u)
      BY <1>1, <2>1
    <3> QED
      BY <1>1, <1>3, <1>4, <3>1
  <2>2. CASE i > a
    <3>1. i \in (Len(u) + 1) .. (Len(u) + Len(v)) /\ i - Len(u) \in 1 .. b - a
      BY <1>1, <1>2, <2>2
    <3>2. x[i] = v[i - Len(u)] /\ v[i - Len(u)] = s[a + (i - Len(u))]
      BY <1>2, <1>4, <3>1
    <3>3. a + (i - Len(u)) = i
      BY <1>1
    <3> QED
      BY <1>3, <3>2, <3>3
  <2>3. i <= a \/ i > a
    OBVIOUS
  <2> QED
    BY <2>1, <2>2, <2>3
<1>7. x = w
  <2>1. x \in Seq(S) /\ w \in Seq(S) /\ Len(x) = b /\ Len(w) = b
    BY <1>3, <1>4, <1>5
  <2> QED
    BY <1>6, <2>1, SameSequence
<1> QED
  BY <1>7, <1>e DEF x, v

\* How far n pages reach.
Reached(n, size, last) == Min({n * size, last})

LEMMA WindowIs ==
  ASSUME NEW S, NEW all \in Seq(S), NEW n \in Nat, NEW size \in Nat \ {0}
  PROVE  LET L == Len(all) IN
         /\ Reached(n, size, L) \in Nat /\ Reached(n, size, L) <= L
         /\ Window(all, n, size) \in Seq(S)
         /\ SubSeq(all, 1, Reached(n, size, L)) \o Window(all, n, size) =
              SubSeq(all, 1, Reached(n + 1, size, L))
         /\ Window(all, n, size) = <<>> => Reached(n + 1, size, L) = L
<1> DEFINE L == Len(all)
           a == n * size
           b == (n + 1) * size
           to == Min({b, L})
           from == Min({a, L})
<1>1. L \in Nat /\ a \in Nat /\ b = a + size /\ b \in Nat
  OBVIOUS
<1>w. /\ Window(all, n, size) = SubSeq(all, a + 1, to)
      /\ Reached(n, size, L) = from /\ Reached(n + 1, size, L) = to
  BY DEF Window, Reached
<1> HIDE DEF a, b, L
<1>2. from = (IF a <= L THEN a ELSE L) /\ to = (IF b <= L THEN b ELSE L)
  BY <1>1, MinOfTwo
<1> HIDE DEF from, to
<1>3. from \in Nat /\ to \in Nat /\ from <= L /\ to <= L /\ from <= to
  BY <1>1, <1>2
<1>4. CASE a <= L
  <2>1. from = a
    BY <1>2, <1>4
  <2>2. /\ SubSeq(all, a + 1, to) \in Seq(S) /\ Len(SubSeq(all, a + 1, to)) = to - a
    BY <1>3, <2>1, PieceIs DEF L
  <2>3. SubSeq(all, 1, from) \o SubSeq(all, a + 1, to) = SubSeq(all, 1, to)
    BY <1>3, <2>1, PiecesJoin DEF L
  <2>4. SubSeq(all, a + 1, to) = <<>> => to = L
    <3> SUFFICES ASSUME SubSeq(all, a + 1, to) = <<>> PROVE to = L
      OBVIOUS
    <3>1. to - a = 0
      BY <2>2
    <3> QED
      BY <1>1, <1>2, <1>3, <3>1
  <2> QED
    BY <1>3, <1>w, <2>2, <2>3, <2>4 DEF L
<1>5. CASE a > L
  <2>1. from = L /\ to = L
    BY <1>1, <1>2, <1>5
  <2>2. SubSeq(all, a + 1, to) = <<>>
    BY <1>1, <1>5, <2>1 DEF L
  <2>3. SubSeq(all, 1, L) = all
    BY DEF L
  <2>4. all \o <<>> = all /\ <<>> \in Seq(S)
    OBVIOUS
  <2> QED
    BY <1>3, <1>w, <2>1, <2>2, <2>3, <2>4 DEF L
<1>6. a <= L \/ a > L
  BY <1>1
<1> QED
  BY <1>4, <1>5, <1>6 DEF L

\* The first n pages, one after the other.
LEMMA WindowsJoin ==
  ASSUME NEW S, NEW all \in Seq(S), NEW n \in Nat, NEW size \in Nat \ {0}
  PROVE  FlattenSeq([i \in 1 .. n |-> Window(all, i - 1, size)]) =
           SubSeq(all, 1, Reached(n, size, Len(all)))
<1> DEFINE parts == [i \in 1 .. n |-> Window(all, i - 1, size)]
           L == Len(all)
           R(k) == Reached(k, size, L)
<1>0. L \in Nat
  OBVIOUS
<1>1. parts \in [1 .. n -> Seq(S)]
  <2>1. ASSUME NEW i \in 1 .. n PROVE Window(all, i - 1, size) \in Seq(S)
    <3>1. i - 1 \in Nat
      OBVIOUS
    <3> QED
      BY <3>1, WindowIs
  <2> QED
    BY <2>1
<1>2. parts \in Seq(Seq(S)) /\ Len(parts) = n
  BY <1>1
<1>3. \A i \in 1 .. n : parts[i] = Window(all, i - 1, size)
  OBVIOUS
<1> HIDE DEF parts
<1>4. PICK f \in [0 .. n -> Seq(S)] : Flattens(f, parts)
  BY <1>2, FlattenIs
<1>5. f[0] = <<>> /\ (\A k \in 1 .. n : f[k] = f[k - 1] \o parts[k]) /\ FlattenSeq(parts) = f[n]
  BY <1>2, <1>4 DEF Flattens
<1> DEFINE T == {k \in Nat : k <= n => f[k] = SubSeq(all, 1, R(k))}
<1>6. 0 \in T
  <2>1. 0 * size = 0 /\ 0 <= L /\ 0 \in Int /\ L \in Int
    OBVIOUS
  <2>2. R(0) = 0
    BY <2>1, MinOfTwo DEF Reached
  <2>3. SubSeq(all, 1, 0) = <<>>
    OBVIOUS
  <2> QED
    BY <1>5, <2>2, <2>3
<1>7. ASSUME NEW k \in Nat, k \in T PROVE k + 1 \in T
  <2> SUFFICES ASSUME k + 1 <= n PROVE f[k + 1] = SubSeq(all, 1, R(k + 1))
    OBVIOUS
  <2>1. k + 1 \in 1 .. n /\ (k + 1) - 1 = k /\ k <= n
    OBVIOUS
  <2>2. f[k + 1] = f[k] \o Window(all, k, size)
    BY <1>3, <1>5, <2>1
  <2>3. f[k] = SubSeq(all, 1, R(k))
    BY <1>7, <2>1
  <2>4. SubSeq(all, 1, R(k)) \o Window(all, k, size) = SubSeq(all, 1, R(k + 1))
    BY WindowIs
  <2> QED
    BY <2>2, <2>3, <2>4
<1> HIDE DEF T
<1>8. n \in T
  BY <1>6, <1>7, Induction
<1>9. f[n] = SubSeq(all, 1, R(n))
  BY <1>8 DEF T
<1> QED
  BY <1>5, <1>9 DEF parts

LEMMA PageSizeIs ==
  ASSUME NEW wanted \in Nat
  PROVE  PageSize(wanted) \in Nat \ {0}
<1>1. MaxPageSize \in Nat \ {0}
  BY ResultsAssumption
<1> DEFINE m == Min({wanted, MaxPageSize})
<1>2. m \in Int
  BY <1>1, MinOfTwo
<1> HIDE DEF m
<1>3. Max({1, m}) = IF 1 >= m THEN 1 ELSE m
  BY <1>2, MaxOfTwo
<1> QED
  BY <1>2, <1>3 DEF PageSize, m

LEMMA AlphabeticalIs == Alphabetical \in SetToSeqs(Providers)
<1> DEFINE n == Cardinality(Providers)
           key == [p \in Providers |-> <<p>>]
<1>1. Keyed(Providers, key)
  BY SomeProviders
<1> HIDE DEF key
<1>2. /\ n \in Nat /\ Sorted(Providers, key) \in Seq(Providers)
      /\ DOMAIN Sorted(Providers, key) = 1 .. n
      /\ \A k, l \in 1 .. n : Sorted(Providers, key)[k] = Sorted(Providers, key)[l] => k = l
  BY <1>1, SortedIs
<1>3. Sorted(Providers, key) \in [1 .. n -> Providers]
  BY <1>2
<1>4. Sorted(Providers, key) \in SetToSeqs(Providers)
  BY <1>2, <1>3 DEF SetToSeqs
<1> QED
  BY <1>4 DEF Alphabetical, key

\* What the property calls offered is what was given.
LEMMA OfferedAre ==
  ASSUME NEW lists \in Offers
  PROVE  UNION {{Canonicalize(lists[p][i]) : i \in {j \in DOMAIN lists[p] : lists[p][j].valid}} :
                p \in Providers} = Urls(Given(lists, Providers))
<1> DEFINE places(p) == {j \in DOMAIN lists[p] : lists[p][j].valid}
           offered == UNION {{Canonicalize(lists[p][i]) : i \in places(p)} : p \in Providers}
<1>1. ASSUME NEW p \in Providers, NEW i \in places(p)
      PROVE  Canonicalize(lists[p][i]) \in Urls(Given(lists, Providers))
  <2> DEFINE r == [item |-> lists[p][i], provider |-> p, rank |-> i]
  <2>1. lists[p] \in Seq(Items)
    BY OfferedLists
  <2>2. i \in DOMAIN lists[p] /\ lists[p][i].valid
    OBVIOUS
  <2>3. lists[p][i] \in Items /\ i \in Nat \ {0}
    BY <2>1, <2>2
  <2>4. r \in Arrivals
    BY <2>3 DEF Arrivals
  <2>5. r.item = lists[p][i] /\ r.provider = p /\ r.rank = i
    OBVIOUS
  <2> HIDE DEF r
  <2>6. r \in Given(lists, Providers)
    BY <2>2, <2>4, <2>5 DEF Given
  <2> QED
    BY <2>5, <2>6 DEF Urls
<1>2. ASSUME NEW r \in Given(lists, Providers)
      PROVE  \E p \in Providers : \E i \in places(p) : Canonicalize(lists[p][i]) = Canonicalize(r.item)
  <2>1. /\ r.provider \in Providers /\ r.rank \in DOMAIN lists[r.provider]
        /\ r.item = lists[r.provider][r.rank] /\ r.item.valid
    BY DEF Given
  <2>2. r.rank \in places(r.provider)
    BY <2>1
  <2> QED
    BY <2>1, <2>2
<1> HIDE DEF places
<1>3. offered \subseteq Urls(Given(lists, Providers))
  BY <1>1
<1>4. Urls(Given(lists, Providers)) \subseteq offered
  <2> SUFFICES ASSUME NEW r \in Given(lists, Providers) PROVE Canonicalize(r.item) \in offered
    BY DEF Urls
  <2> QED
    BY <1>2
<1>5. offered = Urls(Given(lists, Providers))
  BY <1>3, <1>4
<1> QED
  BY <1>5 DEF places

----------------------------------------------------------------------------
Questions == [asked : {TRUE}, size : Nat \ {0}, changes : Nat, given : Givens]

\* Page i of a question, from what its execution was given.
PageOf(given, size, i) ==
  LET r == RunPipeline(given, Alphabetical)
  IN [results |-> Window(r.results, i - 1, size), total |-> Len(r.results), metrics |-> r.metrics,
      from |-> given]

\* Nothing is asked, or every page served is the page of its number.
ResultsInv ==
  \/ question = NoQuestion /\ pages = <<>>
  \/ /\ question \in Questions
     /\ \E n \in Nat : \E f \in [1 .. n -> Givens] :
          pages = [i \in 1 .. n |-> PageOf(f[i], question.size, i)]

LEMMA LoadedIs ==
  ASSUME NEW d \in Optics, NEW readable \in BOOLEAN, NEW wellFormed \in BOOLEAN
  PROVE  LoadOptics(d, readable, wellFormed) \in Documents
<1>1. NoOptics \in Documents
  BY DEF NoOptics, Documents
<1>2. Optics \subseteq Documents
  BY ResultsAssumption DEF Documents
<1> QED
  BY <1>1, <1>2 DEF LoadOptics, ParseOptics

\* A change of what the next execution is given leaves the pages served alone.
LEMMA ResultsChange ==
  ASSUME ResultsInv, NEW given, Becomes(given), question \in Questions => given \in Givens
  PROVE  ResultsInv'
<1>1. question.asked
  BY DEF Becomes
<1>2. question # NoQuestion
  BY <1>1 DEF NoQuestion
<1>3n. PICK n \in Nat :
        question \in Questions
        /\ \E h \in [1 .. n -> Givens] : pages = [i \in 1 .. n |-> PageOf(h[i], question.size, i)]
  BY <1>2 DEF ResultsInv
<1>3. PICK f \in [1 .. n -> Givens] :
        question \in Questions /\ pages = [i \in 1 .. n |-> PageOf(f[i], question.size, i)]
  BY <1>3n
<1>4. /\ question' = [question EXCEPT !.given = given, !.changes = @ + 1]
      /\ pages' = pages /\ given \in Givens
  BY <1>3 DEF Becomes
<1>5. question' \in Questions /\ question'.size = question.size
  <2>1. /\ question = [asked |-> question.asked, size |-> question.size,
                       changes |-> question.changes, given |-> question.given]
        /\ question.asked = TRUE /\ question.size \in Nat \ {0} /\ question.changes \in Nat
    BY <1>3 DEF Questions
  <2>2. question' = [asked |-> question.asked, size |-> question.size,
                     changes |-> question.changes + 1, given |-> given]
    BY <1>4, <2>1
  <2>3. question.changes + 1 \in Nat
    BY <2>1
  <2> QED
    BY <1>4, <2>1, <2>2, <2>3 DEF Questions
<1>6. pages' = [i \in 1 .. n |-> PageOf(f[i], question'.size, i)]
  <2> DEFINE a == question.size  b == question'.size
  <2>1. a = b
    BY <1>5
  <2>2. pages' = [i \in 1 .. n |-> PageOf(f[i], a, i)]
    BY <1>3, <1>4
  <2> HIDE DEF a, b
  <2>3. pages' = [i \in 1 .. n |-> PageOf(f[i], b, i)]
    BY <2>1, <2>2, Zenon
  <2> QED
    BY <2>3 DEF b
<1> QED
  BY <1>5, <1>6 DEF ResultsInv

LEMMA ResultsStep == ResultsInv /\ [ResultsNext]_resultsVars => ResultsInv'
<1> SUFFICES ASSUME ResultsInv, [ResultsNext]_resultsVars PROVE ResultsInv'
  OBVIOUS
<1>1. CASE Ask
  <2>1. pages = <<>>
    <3>1. NoQuestion.asked # TRUE
      BY DEF NoQuestion
    <3>2. question \notin Questions
      BY <1>1, <3>1 DEF Ask, Questions
    <3> QED
      BY <3>2 DEF ResultsInv
  <2>2. question' \in Questions /\ pages' = <<>>
    <3>1. PICK lists \in Offers, wanted \in PageSizes, d \in Optics,
               readable \in BOOLEAN, wellFormed \in BOOLEAN :
            question' = [asked |-> TRUE, size |-> PageSize(wanted), changes |-> 0,
                         given |-> [lists |-> lists, today |-> 2,
                                    optics |-> LoadOptics(d, readable, wellFormed)]]
      BY <1>1 DEF Ask
    <3>2. PageSize(wanted) \in Nat \ {0}
      BY ResultsAssumption, PageSizeIs
    <3>3. LoadOptics(d, readable, wellFormed) \in Documents
      BY LoadedIs
    <3> QED
      BY <1>1, <2>1, <3>1, <3>2, <3>3 DEF Questions, Givens, Ask
  <2> DEFINE f == [i \in 1 .. 0 |-> question'.given]
  <2>3. 1 .. 0 = {} /\ f \in [1 .. 0 -> Givens]
    OBVIOUS
  <2>4. pages' = [i \in 1 .. 0 |-> PageOf(f[i], question'.size, i)]
    BY <2>2, <2>3
  <2> QED
    BY <2>2, <2>3, <2>4 DEF ResultsInv
<1>2. ASSUME NEW order \in SetToSeqs(Providers), ServePage(order) PROVE ResultsInv'
  <2>1. question.asked
    BY <1>2 DEF ServePage
  <2>2. question # NoQuestion
    BY <2>1 DEF NoQuestion
  <2>3n. PICK n \in Nat :
          question \in Questions
          /\ \E h \in [1 .. n -> Givens] : pages = [i \in 1 .. n |-> PageOf(h[i], question.size, i)]
    BY <2>2 DEF ResultsInv
  <2>3. PICK f \in [1 .. n -> Givens] :
          question \in Questions /\ pages = [i \in 1 .. n |-> PageOf(f[i], question.size, i)]
    BY <2>3n
  <2> DEFINE r == RunPipeline(question.given, order)
             S == {PageOf(given, question.size, i) : given \in Givens, i \in Nat}
             g == [i \in 1 .. n + 1 |-> IF i = n + 1 THEN question.given ELSE f[i]]
             last == PageOf(question.given, question.size, n + 1)
  <2>q. question.given \in Givens /\ question.given.lists \in Offers
    BY <2>3 DEF Questions, Givens
  <2>4. r = RunPipeline(question.given, Alphabetical)
    BY <2>q, AlphabeticalIs, SameRun
  <2>5. pages \in Seq(S) /\ Len(pages) = n
    <3>1. pages \in [1 .. n -> S]
      <4>1. \A i \in 1 .. n : PageOf(f[i], question.size, i) \in S
        OBVIOUS
      <4> HIDE DEF S
      <4> QED
        BY <2>3, <4>1
    <3> HIDE DEF S
    <3> QED
      BY <3>1
  <2>6. pages' = Append(pages, [results |-> Window(r.results, Len(pages), question.size),
                                total |-> Len(r.results), metrics |-> r.metrics,
                                from |-> question.given])
        /\ question' = question
    BY <1>2 DEF ServePage
  <2> HIDE DEF r
  <2>7. (n + 1) - 1 = n
    OBVIOUS
  <2>8. pages' = Append(pages, last)
    BY <2>4, <2>5, <2>6, <2>7 DEF PageOf
  <2>9. last \in S
    <3>1. n + 1 \in Nat
      OBVIOUS
    <3> QED
      BY <2>q, <3>1
  <2> HIDE DEF S, last
  <2>10. /\ pages' \in Seq(S) /\ Len(pages') = n + 1
         /\ pages'[n + 1] = last
         /\ \A i \in 1 .. n : pages'[i] = pages[i]
    BY <2>5, <2>8, <2>9
  <2>g. /\ g \in [1 .. n + 1 -> Givens] /\ g[n + 1] = question.given
        /\ \A i \in 1 .. n : g[i] = f[i]
    <3>1. \A i \in 1 .. n + 1 : i = n + 1 \/ i \in 1 .. n
      OBVIOUS
    <3>2. \A i \in 1 .. n : i # n + 1 /\ i \in 1 .. n + 1
      OBVIOUS
    <3> QED
      BY <2>q, <3>1, <3>2
  <2> HIDE DEF g
  <2>11. \A i \in 1 .. n + 1 : pages'[i] = PageOf(g[i], question.size, i)
    <3>1. pages'[n + 1] = PageOf(g[n + 1], question.size, n + 1)
      BY <2>10, <2>g DEF last
    <3>2. \A i \in 1 .. n : pages'[i] = PageOf(g[i], question.size, i)
      BY <2>3, <2>10, <2>g
    <3> QED
      BY <3>1, <3>2
  <2>12. pages' = [i \in 1 .. n + 1 |-> PageOf(g[i], question.size, i)]
    BY <2>10, <2>11
  <2>13. n + 1 \in Nat
    OBVIOUS
  <2>14. question' \in Questions
    BY <2>3, <2>6
  <2>15. pages' = [i \in 1 .. n + 1 |-> PageOf(g[i], question'.size, i)]
    <3> DEFINE a == question.size  b == question'.size
    <3>1. a = b
      BY <2>6
    <3>2. pages' = [i \in 1 .. n + 1 |-> PageOf(g[i], a, i)]
      BY <2>12
    <3> HIDE DEF a, b
    <3>3. pages' = [i \in 1 .. n + 1 |-> PageOf(g[i], b, i)]
      BY <3>1, <3>2, Zenon
    <3> QED
      BY <3>3 DEF b
  <2>16. \E f1 \in [1 .. n + 1 -> Givens] :
           pages' = [i \in 1 .. n + 1 |-> PageOf(f1[i], question'.size, i)]
    BY <2>15, <2>g
  <2> QED
    BY <2>13, <2>14, <2>16 DEF ResultsInv
<1>3. CASE StopReading
  BY <1>3 DEF StopReading, ResultsInv
<1>4. CASE UNCHANGED resultsVars
  BY <1>4 DEF resultsVars, ResultsInv
<1>5. ASSUME NEW p \in Providers, AnswerChanges(p) PROVE ResultsInv'
  <2>1. PICK list \in Listings[p] : Becomes([question.given EXCEPT !.lists[p] = list])
    BY <1>5 DEF AnswerChanges
  <2>2. ASSUME question \in Questions
        PROVE  [question.given EXCEPT !.lists[p] = list] \in Givens
    <3> DEFINE lists == question.given.lists
               U == UNION {Listings[q] : q \in Providers}
               new == [lists EXCEPT ![p] = list]
    <3>1. question.given \in Givens /\ lists \in Offers
      BY <2>2 DEF Questions, Givens
    <3>2. lists \in [Providers -> U] /\ \A q \in Providers : lists[q] \in Listings[q]
      BY <3>1 DEF Offers
    <3>3. list \in U
      OBVIOUS
    <3> HIDE DEF lists, U
    <3>4. new \in [Providers -> U] /\ \A q \in Providers : new[q] \in Listings[q]
      BY <3>2, <3>3
    <3>5. new \in Offers
      BY <3>4 DEF Offers, U
    <3>6. [question.given EXCEPT !.lists[p] = list] = [question.given EXCEPT !.lists = new]
      BY <3>1 DEF lists, Givens
    <3> HIDE DEF new
    <3> QED
      BY <3>1, <3>5, <3>6 DEF Givens
  <2> QED
    BY <2>1, <2>2, ResultsChange
<1>6. CASE TimePasses
  <2>1. ASSUME question \in Questions PROVE [question.given EXCEPT !.today = @ + 1] \in Givens
    BY <2>1 DEF Questions, Givens
  <2> QED
    BY <1>6, <2>1, ResultsChange DEF TimePasses
<1>7. CASE ReloadOptics
  <2>1. PICK d \in Optics, readable \in BOOLEAN, wellFormed \in BOOLEAN :
          Becomes([question.given EXCEPT !.optics = LoadOptics(d, readable, wellFormed)])
    BY <1>7 DEF ReloadOptics
  <2>2. LoadOptics(d, readable, wellFormed) \in Documents
    BY LoadedIs
  <2>3. ASSUME question \in Questions
        PROVE  [question.given EXCEPT !.optics = LoadOptics(d, readable, wellFormed)] \in Givens
    BY <2>2, <2>3 DEF Questions, Givens
  <2> QED
    BY <2>1, <2>3, ResultsChange
<1> QED
  BY <1>1, <1>2, <1>3, <1>4, <1>5, <1>6, <1>7 DEF ResultsNext

LEMMA PagesOfInv == ResultsInv => PagesPartition
<1> SUFFICES ASSUME ResultsInv, pages # <<>> PROVE PagesPartition
  BY DEF PagesPartition
<1>1n. PICK n \in Nat :
        question \in Questions
        /\ \E h \in [1 .. n -> Givens] : pages = [i \in 1 .. n |-> PageOf(h[i], question.size, i)]
  BY DEF ResultsInv
<1>1. PICK f \in [1 .. n -> Givens] :
        question \in Questions /\ pages = [i \in 1 .. n |-> PageOf(f[i], question.size, i)]
  BY <1>1n
<1> DEFINE size == question.size
           run(i) == RunPipeline(pages[i].from, Alphabetical)
           read == FlattenSeq([i \in DOMAIN pages |-> pages[i].results])
           steady == \A i \in DOMAIN pages : pages[i].from = pages[1].from
           lists == pages[1].from.lists
           doc == pages[1].from.optics
           all == run(1).results
           L == Len(all)
           offered == OfferedUrls(lists)
           Whole == /\ read = SubSeq(all, 1, Len(read))
                    /\ Last(pages).results = <<>> =>
                         /\ Len(read) = L
                         /\ Cardinality({read[i].url : i \in DOMAIN read}) = Len(read)
                         /\ ~doc.discard => {read[i].url : i \in DOMAIN read} = offered
<1>2. size \in Nat \ {0}
  BY <1>1 DEF Questions
<1>5. DOMAIN pages = 1 .. n /\ n # 0 /\ 1 \in 1 .. n
  <2>1. DOMAIN pages = 1 .. n
    BY <1>1
  <2>2. n = 0 => pages = <<>>
    <3>1. 1 .. 0 = {}
      OBVIOUS
    <3> QED
      BY <1>1, <3>1
  <2> QED
    BY <2>1, <2>2
<1>6. ASSUME NEW i \in 1 .. n
      PROVE  /\ pages[i].from \in Givens
             /\ pages[i].results = Window(run(i).results, i - 1, size)
             /\ pages[i].total = Len(run(i).results) /\ pages[i].metrics = run(i).metrics
  <2>1. pages[i] = PageOf(f[i], size, i) /\ f[i] \in Givens
    BY <1>1
  <2>2. pages[i].from = f[i]
    BY <2>1 DEF PageOf
  <2> QED
    BY <2>1, <2>2 DEF PageOf
<1>7. Last(pages) = pages[n]
  <2> DEFINE S == {pages[i] : i \in 1 .. n}
  <2>1. pages \in [1 .. n -> S]
    BY <1>1
  <2> HIDE DEF S
  <2>2. Len(pages) = n
    BY <2>1
  <2> QED
    BY <2>2 DEF Last
<1>p. PagesPartition <=>
        /\ \A i \in DOMAIN pages :
             /\ pages[i].results = Window(run(i).results, i - 1, size)
             /\ pages[i].total = Len(run(i).results) /\ pages[i].metrics = run(i).metrics
        /\ steady => Whole
  BY DEF PagesPartition
<1>w. ASSUME steady PROVE Whole
  <2>3. /\ all \in Seq(Shown)
        /\ \A i, j \in DOMAIN all : all[i].url = all[j].url => i = j
        /\ ~doc.discard => {all[i].url : i \in DOMAIN all} = Urls(Given(lists, Providers))
    BY <1>5, <1>6, AlphabeticalIs, RunIs
  <2>4. offered = Urls(Given(lists, Providers))
    <3>1. lists \in Offers
      BY <1>5, <1>6 DEF Givens
    <3> HIDE DEF lists
    <3> QED
      BY <3>1, OfferedAre DEF OfferedUrls
  <2>6. \A i \in 1 .. n : pages[i].results = Window(all, i - 1, size)
    BY <1>5, <1>6, <1>w
  <2>8. read = FlattenSeq([i \in 1 .. n |-> Window(all, i - 1, size)])
    <3>1. [i \in DOMAIN pages |-> pages[i].results] = [i \in 1 .. n |-> Window(all, i - 1, size)]
      BY <1>5, <2>6
    <3> QED
      BY <3>1
  <2> HIDE DEF read, all, lists, doc, size, offered, L
  <2>9. read = SubSeq(all, 1, Reached(n, size, L))
    BY <1>2, <2>3, <2>8, WindowsJoin DEF L
  <2>10. Reached(n, size, L) \in Nat /\ Reached(n, size, L) <= L
    BY <1>2, <2>3, WindowIs DEF L
  <2>11. Len(read) = Reached(n, size, L)
    <3>1. 0 \in Nat /\ 0 <= Reached(n, size, L) /\ 0 + 1 = 1
      BY <2>10
    <3>2. Len(SubSeq(all, 0 + 1, Reached(n, size, L))) = Reached(n, size, L) - 0
      BY <2>3, <2>10, <3>1, PieceIs DEF L
    <3> QED
      BY <2>9, <2>10, <3>1, <3>2
  <2>12. ASSUME Last(pages).results = <<>>
         PROVE  /\ Len(read) = L
                /\ Cardinality({read[i].url : i \in DOMAIN read}) = Len(read)
                /\ ~doc.discard => {read[i].url : i \in DOMAIN read} = offered
    <3>1. n - 1 \in Nat /\ (n - 1) + 1 = n /\ n \in 1 .. n
      BY <1>5
    <3>2. Window(all, n - 1, size) = <<>>
      BY <1>7, <2>6, <2>12, <3>1
    <3>3. Reached(n, size, L) = L
      BY <1>2, <2>3, <3>1, <3>2, WindowIs DEF L
    <3>4. read = all
      BY <2>3, <2>9, <3>3 DEF L
    <3> DEFINE urls == [i \in 1 .. L |-> all[i].url]
               V == {all[i].url : i \in DOMAIN all}
    <3>5. L \in Nat /\ DOMAIN all = 1 .. L
      BY <2>3 DEF L
    <3>6. urls \in [1 .. L -> V]
      BY <3>5
    <3>7. {urls[i] : i \in 1 .. L} = V /\ \A i, j \in 1 .. L : urls[i] = urls[j] => i = j
      BY <2>3, <3>5
    <3> HIDE DEF urls, V
    <3>8. urls \in Seq(V) /\ Len(urls) = L /\ DOMAIN urls = 1 .. L
      BY <3>5, <3>6
    <3>9. Cardinality({urls[i] : i \in DOMAIN urls}) = Len(urls)
      BY <3>7, <3>8, AllDistinct
    <3>10. Cardinality(V) = L
      BY <3>7, <3>8, <3>9
    <3> QED
      BY <2>3, <2>4, <2>11, <3>3, <3>4, <3>10 DEF V
  <2> QED
    BY <2>9, <2>11, <2>12
<1> HIDE DEF Whole, steady
<1> QED
  BY <1>5, <1>6, <1>w, <1>p

\* However the answers of the providers arrive for each page of search_paginated,
\* the page is its window of the list that its own answers, time and optics
\* determine, with that list's total and metrics; pages that were given the same
\* are consecutive pieces of one list that holds every valid URL once (but those
\* the optics discard).
THEOREM PagesArePartition == ResultsSpec => []PagesPartition
<1>1. ResultsInit => ResultsInv
  BY DEF ResultsInit, ResultsInv
<1> QED
  BY <1>1, ResultsStep, PagesOfInv, PTL DEF ResultsSpec
=============================================================================
