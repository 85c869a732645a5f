SPECIFICATION Spec
CONSTANTS
  a = a
  b = b
  c = c
  d = d
  near = near
  far = far
  Pages = {a, b, c, d}
  Hosts = {near, far}
  Host <- MCHost
  Fragments = {"", "#"}
  Links <- MCLinks
  Moves <- MCMoves
  Unsafe = {d}
  Files <- MCFiles
  Candidates <- MCCandidates
  Rights = {a}
  Versions = {1}
  Answers = {{a, b}, {b, d}}
  Chunk = 1
  TopK = 2
  MaxDepth = 1
  MaxLinks = 3
  MaxRobots = 1
  Fetches = 3
  Bytes = 3
  Redirects = 1
  Browsers = 1
  CrawlUrls = 4
  Subqueries = 3
  Cost = 2
  DeepTimeout = 3
  Elapsed = {0, 3}
  RobotsTimeout = 1
  MaxDelay = 1
  ExtractTimeout = 1
  RankTimeout = 1
  MinDocuments = 2
  MinDomains = 2
  MaxProposals = 2
  MaxDom = 2
  RespectRobots = TRUE
  RendererAvailable = TRUE
  StoreContent = TRUE
INVARIANTS TypeOK ResultFits TrafficIsBounded OncePerHref OverrunIsBounded GainIsNew
PROPERTIES SpacedVisits Terminates
