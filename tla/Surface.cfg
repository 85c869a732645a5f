\* Requests that outlive reloads are bounded (MaxRefusals, MaxServices, Days, MaxEdits),
\* so a behaviour may stop there.
CHECK_DEADLOCK FALSE
SPECIFICATION Spec
CONSTANTS
  Requests = {r1}
  MaxResults = 3
  MaxSources = 2
  Numbers = {1, 2, 9}
  Texts <- MCTexts
  Spaces = {a, b}
  Inputs = {t1, t2}
  MaxInputs = 2
  Capacity = 2
  Runtimes = {i1, i2}
  Jobs = {j1}
  Providers = {1, 2, 3}
  Primary = {1}
  Listings <- MCListings
  Optics <- MCOptics
  TrackerHosts = {2}
  PageSizes = {0, 5}
  MaxPageSize = 2
  MaxPerDomain = 1
  MaxPerProvider = 2
  MaxPerType = 2
  MaxChanges = 1
  Callers = {c1, c2}
  Routes = {"public", "answer", "library", "mcp", "unknown"}
  ServerConfigs <- MCServerConfigs
  FirstConfig <- MCFirstConfig
  Usable = {"t0", "t1"}
  Bearers = {"t0", "t1"}
  Days = 1
  MaxInFlight = 1
  MaxRefusals = 2
  MaxServices = 2
  Editors = {a1, a2}
  Listeners = {l1}
  Offered = {0, 2}
  Light = {"approval", "terms", "isolated", "bind", "cap", "ratio"}
  MaxEdits = 3
SYMMETRY Symmetry
INVARIANT EgressGoverned AnswerGrounded EmbeddingsMatch RelevanceUncontradicted PagesPartition RequestsAccounted SettingsKept
