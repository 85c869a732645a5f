-------------------------------- MODULE Deep --------------------------------
(***************************************************************************)
(* One Deep enrichment: DeepOrchestrator::enrich with the budget it owns,  *)
(* the robots.txt cache it consults for the links it discovers, the        *)
(* redirect loop of SafeFetcher, the extractor with its fallback, the      *)
(* renderer, the document cache, and the subqueries that close gaps.       *)
(* The pipeline is sequential; what makes it hard is the clock that runs   *)
(* through it, the peers that answer late or never, and the resources that *)
(* are reserved before a step and settled after it.                        *)
(***************************************************************************)
EXTENDS Subsequences, Functions, FiniteSetsExt

CONSTANTS
  Pages,          \* the pages of the web
  Hosts, Host,    \* Host[p] is the host of page p
  Fragments,      \* the fragments a link may end in, "" for none
  Links,          \* Links[p]: the hrefs of p in order; an href is <<page, fragment>>
  Moves,          \* Moves[p]: the pages p may redirect to
  Unsafe,         \* pages whose URL the SSRF policy refuses
  Files,          \* the robots.txt files an origin may publish
  Candidates,     \* the pages of the search results, in order
  Rights,         \* the candidates whose providers all grant storage rights
  Versions,       \* the contents a page may have
  Answers,        \* the sets of pages a subquery may find
  Chunk           \* the most bytes the transport hands over at once

CONSTANTS
  TopK, MaxDepth, MaxLinks, MaxRobots,
  Fetches, Bytes, Redirects, Browsers, CrawlUrls, Subqueries, Cost,
  DeepTimeout, Elapsed, RobotsTimeout, MaxDelay, ExtractTimeout, RankTimeout,
  MinDocuments, MinDomains, MaxProposals, MaxDom,
  RespectRobots, RendererAvailable, StoreContent

ASSUME DeepLimits ==
  /\ Chunk \in Nat \ {0}
  /\ {Fetches, Bytes, CrawlUrls, TopK, MaxLinks, MaxRobots, MaxProposals} \subseteq Nat \ {0}
  /\ {Redirects, Browsers, Subqueries, Cost, MaxDepth, MaxDom} \subseteq Nat
  /\ {DeepTimeout, RobotsTimeout, MaxDelay, ExtractTimeout, RankTimeout} \subseteq Nat
  /\ {MinDocuments, MinDomains} \subseteq Nat \ {0}
  /\ Elapsed \subseteq Nat
  /\ {RespectRobots, RendererAvailable, StoreContent} \subseteq BOOLEAN
  /\ Answers \subseteq SUBSET Pages /\ Versions # {}
  /\ Host \in [Pages -> Hosts] /\ Moves \in [Pages -> SUBSET Pages]
  /\ "" \in Fragments /\ Links \in [Pages -> Seq(Pages \X Fragments)]
  /\ Rights \subseteq Pages /\ Unsafe \subseteq Pages
  /\ Candidates \in Seq(Pages) \ {<<>>}
  /\ \A i, j \in DOMAIN Candidates : Candidates[i] = Candidates[j] => i = j
  /\ \A f \in Files : f.specific.delay \in Nat /\ f.wildcard.delay \in Nat

VARIABLES
  now,       \* the clock
  deadline,  \* the instant the Deep budget ends
  phase,     \* where enrich() is
  queue,     \* the crawl queue
  visited,   \* the hrefs that were ever queued
  cur,       \* the candidate taken from the queue
  top,       \* the instant the loop took it
  until,     \* the timer of the await in progress
  budget,    \* what is left of the DeepBudget
  fetch,     \* the fetch in progress
  robots,    \* the per-origin robots.txt cache
  stored,    \* the document cache: entries that carry content
  docs,      \* the documents of the response
  known,     \* URLs a subquery result is compared with
  proposals, \* the severities of the gaps still to be queried
  gains,     \* the new results of each executed subquery
  traffic,   \* bytes received from pages, charged or not
  contact    \* when each host was last contacted for a page

vars == <<now, deadline, phase, queue, visited, cur, top, until, budget, fetch,
          robots, stored, docs, known, proposals, gains, traffic, contact>>

crawl == <<queue, visited, cur, top>>
ahead == <<queue, visited>>
subs == <<known, proposals, gains>>
seen == <<traffic, contact>>

----------------------------------------------------------------------------
(* Limits and budget.                                                       *)

Never == -1

Phases ==
  {"loop", "robots", "judging", "polite", "reserving", "fetching",
   "extracting", "rendering", "reextracting", "ranking", "subqueries",
   "executing", "done"}

\* What one fetch may bring, so that all of them together fit the byte limit.
PerFetch == Max({Bytes \div Fetches, 1})

\* What a page can send to one fetch: the chunk that passes the limit has arrived
\* when it is refused.
MostSent == PerFetch + Chunk

Budgets ==
  [fetches : 0..Fetches, bytes : 0..Bytes, redirects : 0..Redirects,
   browsers : 0..Browsers, crawl : 0..CrawlUrls, subqueries : 0..2, cost : 0..Cost]

FullBudget ==
  [fetches |-> Fetches, bytes |-> Bytes, redirects |-> Redirects,
   browsers |-> Browsers, crawl |-> CrawlUrls,
   subqueries |-> Min({Subqueries, 2}), cost |-> Cost]

CanReserve == budget.fetches > 0 /\ budget.crawl > 0 /\ budget.bytes > 0

Reserved ==
  [budget EXCEPT !.fetches = @ - 1, !.crawl = @ - 1]

Released ==
  [budget EXCEPT !.fetches = Min({@ + 1, Fetches}), !.crawl = Min({@ + 1, CrawlUrls})]

\* Mutant: the bytes of a rendered page are not checked.
FitsRedirects(bytes, redirects) == redirects <= budget.redirects

Fits(bytes, redirects) == bytes <= budget.bytes /\ redirects <= budget.redirects

Consumed(bytes, redirects) ==
  [budget EXCEPT !.bytes = @ - bytes, !.redirects = @ - redirects]

----------------------------------------------------------------------------
(* robots.txt.  A file has a group for AMATL and a group for everyone; a    *)
(* rule is the set of pages its pattern matches, the length of the pattern  *)
(* and whether it allows.                                                   *)

AllowAll == [state |-> "read", touched |-> FALSE, delay |-> 0, rules |-> {}]
Unavailable == [AllowAll EXCEPT !.state = "unavailable"]
Unknown == [AllowAll EXCEPT !.state = "unknown"]

\* The exact token wins over the wildcard group once a line touched it.
Parse(file) == IF file.specific.touched THEN file.specific ELSE file.wildcard

\* Longest match wins, and Allow wins a tie.
Allows(group, page) ==
  LET hits == {r \in group.rules : page \in r.pages}
      best == {r \in hits : \A o \in hits : o.length <= r.length}
  IN  hits = {} \/ \E r \in best : r.allow

Decide(group, page) ==
  CASE group.state = "unavailable" -> "unavailable"
    [] group.delay > MaxDelay -> "delay_too_long"
    [] ~Allows(group, page) -> "disallowed"
    [] OTHER -> "allowed"

\* store(): a full cache is cleared before the entry goes in.
Remember(host, group) ==
  LET full == Cardinality({h \in Hosts : robots[h] # Unknown}) >= MaxRobots
  IN  [h \in Hosts |-> IF h = host THEN group
                       ELSE IF full THEN Unknown ELSE robots[h]]

----------------------------------------------------------------------------
(* Pages, links and documents.                                              *)

ValidUrl(page) == page \notin Unsafe

\* The same-host links of a page, as discover_links returns them.
Discovered(page, host) ==
  LET same == {i \in DOMAIN Links[page] : Host[Links[page][i][1]] = host}
  IN  Picked(Links[page], {i \in same : Place(same, i) <= MaxLinks})

\* Mutant: a link is queued as often as it is found.
FreshUnchecked(hrefs) == hrefs

\* visited.insert over the links in order: the ones that were new.
Fresh(hrefs) ==
  LET first(i) == /\ hrefs[i] \notin visited
                  /\ \A j \in 1..(i - 1) : hrefs[j] # hrefs[i]
  IN  Picked(hrefs, {i \in DOMAIN hrefs : first(i)})

Item(href, depth, rights) ==
  [href |-> href, page |-> href[1], depth |-> depth, rights |-> rights]

NoItem == Item(<<Candidates[1], "">>, 0, FALSE)

NoFetch ==
  [page |-> CHOOSE p \in Pages : TRUE, hops |-> 0, bytes |-> 0, redirects |-> 0,
   reval |-> {}, size |-> 0, version |-> CHOOSE v \in Versions : TRUE]

Key(page, version, method) == <<page, version, method>>
Methods == {"http", "rendered"}

Hrefs == Pages \X Fragments
Items == [href : Hrefs, page : Pages, depth : 0..MaxDepth, rights : BOOLEAN]
Keys == Pages \X Versions \X Methods
Requests ==
  [page : Pages, hops : 0..Redirects, bytes : 0..PerFetch, redirects : 0..Redirects,
   reval : SUBSET Keys, size : 0..PerFetch, version : Versions]

\* FallbackExtractor: the native extractor answers for a primary that is
\* missing, failed or late; a primary that produced too much, or nothing
\* readable, is final.
ExtractErrors == {"unavailable", "failed", "timeout", "output_limit", "invalid"}
Trafilatura == {"ok"} \cup ExtractErrors
NativeHtml == {"ok", "output_limit", "invalid"}
Fallback(primary, native) ==
  IF primary \in {"unavailable", "failed", "timeout"} THEN native ELSE primary
Extractions == {Fallback(p, n) : p \in Trafilatura, n \in NativeHtml}

\* The next turn of the loop: what belonged to this one is dropped.
NextTurn == phase' = "loop" /\ cur' = NoItem /\ top' = 0 /\ until' = 0 /\ fetch' = NoFetch

\* The first top_k candidates.
Seeds ==
  [i \in 1..Min({TopK, Len(Candidates)}) |->
     Item(<<Candidates[i], "">>, 0, Candidates[i] \in Rights)]

Init ==
  /\ now = 0
  /\ deadline \in {Max({DeepTimeout - e, 0}) : e \in Elapsed}
  /\ phase = "loop"
  /\ queue = Seeds
  /\ visited = {Seeds[i].href : i \in DOMAIN Seeds}
  /\ cur = NoItem
  /\ top = 0
  /\ until = 0
  /\ budget = FullBudget
  /\ fetch = NoFetch
  /\ robots = [h \in Hosts |-> Unknown]
  /\ stored \in {{}, {Key(Candidates[1], v, "http") : v \in Versions}}
  /\ docs = <<>>
  /\ known = Range(Candidates)
  /\ proposals = <<>>
  /\ gains = <<>>
  /\ traffic = 0
  /\ contact = [h \in Hosts |-> Never]

\* Awaits end by their timer, and everything else takes no time.
Awaiting == {"robots", "polite", "fetching", "extracting", "rendering",
             "reextracting", "ranking", "executing"}

Tick ==
  /\ phase \in Awaiting
  /\ phase = "fetching" => ValidUrl(fetch.page)
  /\ now < until
  /\ now' = now + 1
  /\ UNCHANGED <<deadline, phase, crawl, until, budget, fetch, robots, stored,
                 docs, subs, seen>>

----------------------------------------------------------------------------
(* The crawl loop.                                                          *)

\* The next candidate.  Depth 0 was asked for; anything deeper needs the
\* consent of its origin, cached or fetched now.
Pop ==
  /\ phase = "loop" /\ queue # <<>> /\ now < deadline
  /\ cur' = Head(queue) /\ queue' = Tail(queue) /\ top' = now
  /\ LET asked == Head(queue).depth = 0 \/ ~RespectRobots
         cached == robots[Host[Head(queue).page]] # Unknown
     IN  \/ asked /\ phase' = "reserving" /\ UNCHANGED until
         \/ ~asked /\ cached /\ phase' = "judging" /\ UNCHANGED until
         \/ ~asked /\ ~cached /\ phase' = "robots" /\ until' = now + RobotsTimeout
  /\ UNCHANGED <<now, deadline, visited, budget, fetch, robots, stored, docs,
                 subs, seen>>

\* robots.txt arrives (200), is missing (4xx), or could not be read.
RobotsAnswer(group) ==
  /\ phase = "robots"
  /\ group \in {Parse(f) : f \in Files} \cup {AllowAll, Unavailable}
  /\ robots' = Remember(Host[cur.page], group)
  /\ phase' = "judging"
  /\ UNCHANGED <<now, deadline, crawl, until, budget, fetch, stored, docs, subs, seen>>

\* Mutant: a wait that would reach the deadline is left out, not the page.
JudgeImpatient ==
  LET group == robots[Host[cur.page]]
      allowed == Decide(group, cur.page) = "allowed"
      fits == group.delay = 0 \/ now + group.delay < deadline
  IN
  /\ phase = "judging"
  /\ \/ ~allowed /\ NextTurn
     \/ /\ allowed /\ (group.delay = 0 \/ ~fits)
        /\ phase' = "reserving" /\ UNCHANGED <<cur, top, until, fetch>>
     \/ /\ allowed /\ fits /\ group.delay > 0
        /\ phase' = "polite" /\ until' = now + group.delay
        /\ UNCHANGED <<cur, top, fetch>>
  /\ UNCHANGED <<now, deadline, ahead, budget, robots, stored, docs, subs, seen>>

\* A wait that would reach the deadline is not begun.
Judge ==
  LET group == robots[Host[cur.page]]
      allowed == Decide(group, cur.page) = "allowed"
      fits == group.delay = 0 \/ now + group.delay < deadline
  IN
  /\ phase = "judging"
  /\ \/ ~(allowed /\ fits) /\ NextTurn
     \/ /\ allowed /\ group.delay = 0
        /\ phase' = "reserving" /\ UNCHANGED <<cur, top, until, fetch>>
     \/ /\ allowed /\ fits /\ group.delay > 0
        /\ phase' = "polite" /\ until' = now + group.delay
        /\ UNCHANGED <<cur, top, fetch>>
  /\ UNCHANGED <<now, deadline, ahead, budget, robots, stored, docs, subs, seen>>

Polite ==
  /\ phase = "polite" /\ now = until
  /\ phase' = "reserving"
  /\ UNCHANGED <<now, deadline, crawl, until, budget, fetch, robots, stored, docs,
                 subs, seen>>

\* The crawl ends at the deadline, with the queue, or with the budget; what is
\* left of it is not looked at again.
EndCrawl ==
  /\ \/ phase = "loop" /\ (queue = <<>> \/ now >= deadline)
     \/ phase = "reserving" /\ ~CanReserve
  /\ phase' = "ranking" /\ until' = now + RankTimeout
  /\ cur' = NoItem /\ top' = 0 /\ queue' = <<>>
  /\ robots' = [h \in Hosts |-> Unknown] /\ contact' = [h \in Hosts |-> Never]
  /\ UNCHANGED <<now, deadline, visited, budget, fetch, stored, docs, subs, traffic>>

\* Mutant: the timeout is not cut by what is left of the deadline.
FetchTimeoutInFull == DeepTimeout

\* The timeout of a fetch counts from the top of the loop.
FetchTimeout == Max({deadline - top, 0})

\* Mutant: only the configured redirects limit a fetch.
FetchLimitsConfigured == [bytes |-> Min({budget.bytes, PerFetch}), redirects |-> Redirects]

\* What one fetch may bring, from what the budget still has.
FetchLimits ==
  [bytes |-> Min({budget.bytes, PerFetch}), redirects |-> Min({budget.redirects, Redirects})]

\* The reservation and the request; a cached document with content is
\* revalidated.
StartFetch ==
  /\ phase = "reserving" /\ CanReserve
  /\ budget' = Reserved
  /\ fetch' = [NoFetch EXCEPT
                 !.page = cur.page,
                 !.bytes = FetchLimits.bytes,
                 !.redirects = FetchLimits.redirects,
                 !.reval = {k \in stored : k[1] = cur.page}]
  /\ until' = now + FetchTimeout
  /\ phase' = "fetching"
  /\ contact' = [contact EXCEPT ![Host[cur.page]] = now]
  /\ UNCHANGED <<now, deadline, crawl, robots, stored, docs, subs, traffic>>

----------------------------------------------------------------------------
(* SafeFetcher: one hop after another under one timer.                      *)

\* A redirect within the limit, to a URL the policy accepts.
Redirect(page) ==
  /\ phase = "fetching" /\ ValidUrl(fetch.page)
  /\ page \in Moves[fetch.page]
  /\ fetch.hops < fetch.redirects
  /\ ValidUrl(page)
  /\ fetch' = [fetch EXCEPT !.page = page, !.hops = @ + 1]
  /\ contact' = [contact EXCEPT ![Host[page]] = now]
  /\ UNCHANGED <<now, deadline, phase, crawl, until, budget, robots, stored, docs,
                 subs, traffic>>

\* Refused by policy: egress, the URL or its address, at the first hop or at
\* a redirect.  The reservation is given back.
Refuse ==
  /\ phase = "fetching"
  /\ budget' = Released
  /\ NextTurn
  /\ UNCHANGED <<now, deadline, ahead, robots, stored, docs, subs, seen>>

\* The bytes a failed fetch received.  The body loop compares a chunk with the limit
\* once it has it, so a body beyond the limit was received beyond it; the body of a
\* redirect is not read.
Sent(error) ==
  CASE error = "byte_limit" -> (fetch.bytes + 1) .. (fetch.bytes + Chunk)
    [] error = "redirect_limit" -> {0}
    [] OTHER -> 0 .. fetch.bytes

\* Mutant: every failed fetch gives its reservation back.
FailFetchReleased(error, bytes) ==
  /\ phase = "fetching" /\ ValidUrl(fetch.page)
  /\ \/ error = "timeout" /\ now = until
     \/ error = "byte_limit"
     \/ error = "redirect_limit" /\ fetch.hops >= fetch.redirects
     \/ error = "network"
  /\ bytes \in Sent(error)
  /\ traffic' = traffic + bytes
  /\ NextTurn
  /\ budget' = Released
  /\ UNCHANGED <<now, deadline, ahead, robots, stored, docs, subs, contact>>

\* Mutant: the timer of a fetch fires only after its instant.
FailFetchLate(error, bytes) ==
  /\ phase = "fetching" /\ ValidUrl(fetch.page)
  /\ \/ error = "timeout" /\ now > until
     \/ error = "byte_limit"
     \/ error = "redirect_limit" /\ fetch.hops >= fetch.redirects
     \/ error = "network"
  /\ bytes \in Sent(error)
  /\ traffic' = traffic + bytes
  /\ NextTurn
  /\ UNCHANGED <<now, deadline, ahead, budget, robots, stored, docs, subs, contact>>

\* Any other failure keeps the reservation.  A body beyond the limit, a redirect
\* beyond the limit, a broken one, a dead name and a transport error may come at
\* any hop; the timer ends the rest.
FailFetch(error, bytes) ==
  /\ phase = "fetching" /\ ValidUrl(fetch.page)
  /\ \/ error = "timeout" /\ now = until
     \/ error = "byte_limit"
     \/ error = "redirect_limit" /\ fetch.hops >= fetch.redirects
     \/ error = "network"
  /\ bytes \in Sent(error)
  /\ traffic' = traffic + bytes
  /\ NextTurn
  /\ UNCHANGED <<now, deadline, ahead, budget, robots, stored, docs, subs, contact>>

\* A whole answer of some size: charged, unless it does not fit, and then the
\* document is taken from the cache (304, or the same content) or extracted.
Receive(size, version, modified) ==
  LET fits == Fits(size, fetch.hops)
      hit == IF modified THEN Key(cur.page, version, "http") \in stored
                         ELSE fetch.reval # {}
  IN
  /\ phase = "fetching" /\ ValidUrl(fetch.page)
  /\ size \in 0..fetch.bytes
  /\ modified \/ size = 0
  /\ traffic' = traffic + size
  /\ budget' = IF fits THEN Consumed(size, fetch.hops) ELSE budget
  /\ \/ /\ fits /\ modified /\ ~hit
        /\ fetch' = [fetch EXCEPT !.size = size, !.version = version]
        /\ phase' = "extracting"
        /\ until' = Max({now, Min({deadline, now + ExtractTimeout})})
        /\ UNCHANGED <<cur, top, docs>>
     \/ /\ ~(fits /\ modified /\ ~hit)
        /\ NextTurn
        /\ docs' = IF fits /\ hit
                   THEN Append(docs, [href |-> cur.href, content |-> TRUE]) ELSE docs
  /\ UNCHANGED <<now, deadline, ahead, robots, stored, subs, contact>>

----------------------------------------------------------------------------
(* Extraction, rendering and the document.                                  *)

\* The document is kept with or without content; its links are queued; the
\* cache takes it when the candidate's providers let it, under the hash of
\* what was extracted.
Keep(content, method, written) ==
  LET links == IF cur.depth < MaxDepth
               THEN Fresh(Discovered(fetch.page, Host[fetch.page])) ELSE <<>>
  IN
  /\ docs' = Append(docs, [href |-> cur.href, content |-> content])
  /\ visited' = visited \cup Range(links)
  /\ queue' = queue \o [i \in DOMAIN links |-> Item(links[i], cur.depth + 1, cur.rights)]
  /\ written => cur.rights
  /\ stored' = IF written /\ content /\ StoreContent
               THEN stored \cup {Key(cur.page, fetch.version, method)} ELSE stored
  /\ NextTurn

Extract(outcome, written) ==
  /\ phase = "extracting"
  /\ outcome \in Extractions \cup (IF now >= deadline THEN {"timeout"} ELSE {})
  /\ IF outcome = "ok" \/ ~RendererAvailable \/ budget.browsers = 0
     THEN Keep(outcome = "ok", "http", written) /\ UNCHANGED budget
     ELSE /\ ~written
          /\ budget' = [budget EXCEPT !.browsers = @ - 1]
          /\ phase' = "rendering" /\ until' = Max({now, deadline})
          /\ UNCHANGED <<crawl, docs, stored, fetch>>
  /\ UNCHANGED <<now, deadline, robots, subs, seen>>

\* A DOM is charged like a body; one that does not fit is dropped.
Render(dom, written) ==
  /\ phase = "rendering"
  /\ dom \in 1..MaxDom
  /\ IF Fits(dom, 0)
     THEN /\ ~written
          /\ budget' = Consumed(dom, 0)
          /\ phase' = "reextracting" /\ until' = Max({now, deadline})
          /\ UNCHANGED <<crawl, docs, stored, fetch>>
     ELSE Keep(FALSE, "http", written) /\ UNCHANGED budget
  /\ UNCHANGED <<now, deadline, robots, subs, seen>>

\* No slot, no harness, a failure or the deadline: only a renderer that turned
\* out to be missing gives its call back.
RenderFails(error, written) ==
  /\ phase = "rendering"
  /\ \/ error \in {"unavailable", "at_capacity", "failed", "blocked"}
     \/ error = "timeout" /\ now = until
  /\ budget' = IF error = "unavailable"
               THEN [budget EXCEPT !.browsers = Min({@ + 1, Browsers})] ELSE budget
  /\ Keep(FALSE, "http", written)
  /\ UNCHANGED <<now, deadline, robots, subs, seen>>

ReExtract(outcome, written) ==
  /\ phase = "reextracting"
  /\ outcome \in Extractions \cup (IF now >= deadline THEN {"timeout"} ELSE {})
  /\ Keep(outcome = "ok", "rendered", written)
  /\ UNCHANGED <<now, deadline, budget, robots, subs, seen>>

----------------------------------------------------------------------------
(* Ranking, gaps and subqueries.                                            *)

Domains == {Host[docs[i].href[1]] : i \in DOMAIN docs}
EnrichedCount == Cardinality({i \in DOMAIN docs : docs[i].content})

\* Coverage is low by number, by domains, by content (below 60%) or by the
\* evidence, which the model leaves open.
CoverageLow(weak) ==
  \/ Len(docs) < MinDocuments
  \/ Cardinality(Domains) < MinDomains
  \/ 10 * EnrichedCount < 6 * Len(docs)
  \/ weak

\* The gaps that become subqueries: the serious ones first.
Proposed(serious, region, weak, difficult) ==
  LET diversity == IF Cardinality(Domains) < MinDomains THEN 1 ELSE 0
      gaps == [i \in 1..serious |-> "high"]
              \o [i \in 1..((IF region THEN 1 ELSE 0) + diversity) |-> "medium"]
  IN  IF CoverageLow(weak) /\ difficult
      THEN SubSeq(gaps, 1, Min({Len(gaps), MaxProposals})) ELSE <<>>

\* Evidence, ranking (which answers or fails by its own timer) and gaps.
Analyze(serious, region, weak, difficult) ==
  /\ phase = "ranking"
  /\ proposals' = Proposed(serious, region, weak, difficult)
  /\ phase' = "subqueries"
  /\ UNCHANGED <<now, deadline, crawl, until, budget, fetch, robots, stored, docs,
                 known, gains, seen>>

\* A proposal that does not parse, comes after the deadline or has no budget.
SkipSubquery(reason) ==
  /\ phase = "subqueries" /\ proposals # <<>>
  /\ \/ reason = "invalid"
     \/ reason = "time_exhausted" /\ now >= deadline
     \/ /\ reason = "rejected_budget" /\ now < deadline
        /\ budget.subqueries = 0 \/ budget.cost = 0
  /\ proposals' = Tail(proposals)
  /\ UNCHANGED <<now, deadline, phase, crawl, until, budget, fetch, robots, stored,
                 docs, known, gains, seen>>

Launch ==
  /\ phase = "subqueries" /\ proposals # <<>>
  /\ now < deadline /\ budget.subqueries > 0 /\ budget.cost > 0
  /\ budget' = [budget EXCEPT !.subqueries = @ - 1, !.cost = @ - 1]
  /\ proposals' = Tail(proposals)
  /\ phase' = "executing" /\ until' = deadline
  /\ UNCHANGED <<now, deadline, crawl, fetch, robots, stored, docs, known, gains, seen>>

\* Mutant: what a subquery found is not remembered.
ExpandForgotten(results) ==
  /\ phase = "executing"
  /\ gains' = Append(gains, results \ known)
  /\ UNCHANGED known
  /\ phase' = "subqueries"
  /\ UNCHANGED <<now, deadline, crawl, until, budget, fetch, robots, stored, docs,
                 proposals, seen>>

\* The results that were not known yet are the gain.
Expand(results) ==
  /\ phase = "executing"
  /\ gains' = Append(gains, results \ known)
  /\ known' = known \cup results
  /\ phase' = "subqueries"
  /\ UNCHANGED <<now, deadline, crawl, until, budget, fetch, robots, stored, docs,
                 proposals, seen>>

\* The search failed, or the deadline cut it.
SubqueryFails ==
  /\ phase = "executing"
  /\ phase' = "subqueries"
  /\ UNCHANGED <<now, deadline, crawl, until, budget, fetch, robots, stored, docs,
                 subs, seen>>

Finish ==
  /\ phase = "subqueries" /\ proposals = <<>>
  /\ phase' = "done"
  /\ UNCHANGED <<now, deadline, crawl, until, budget, fetch, robots, stored, docs,
                 subs, seen>>

Done == phase = "done" /\ UNCHANGED vars

----------------------------------------------------------------------------

\* What the orchestrator does by itself, and what a timer does to an await.
Local == Pop \/ Judge \/ Polite \/ EndCrawl \/ StartFetch \/ Finish \/ Launch
         \/ (~ValidUrl(fetch.page) /\ Refuse)
         \/ \E r \in {"invalid", "time_exhausted", "rejected_budget"} : SkipSubquery(r)

Expire ==
  \/ RobotsAnswer(Unavailable)
  \/ FailFetch("timeout", 0)
  \/ \E w \in BOOLEAN : \/ \E o \in Extractions \cup {"timeout"} :
                             Extract(o, w) \/ ReExtract(o, w)
                        \/ RenderFails("timeout", w)
  \/ Analyze(0, FALSE, FALSE, FALSE)
  \/ SubqueryFails

Peer ==
  \/ \E g \in {Parse(f) : f \in Files} \cup {AllowAll, Unavailable} : RobotsAnswer(g)
  \/ \E p \in Pages : Redirect(p)
  \/ Refuse
  \/ \E e \in {"byte_limit", "redirect_limit", "network", "timeout"}, b \in 0..MostSent :
       FailFetch(e, b)
  \/ \E s \in 0..PerFetch, v \in Versions, m \in BOOLEAN : Receive(s, v, m)
  \/ \E w \in BOOLEAN, d \in 1..MaxDom : Render(d, w)
  \/ \E w \in BOOLEAN, e \in {"unavailable", "at_capacity", "failed", "blocked", "timeout"} :
       RenderFails(e, w)
  \/ \E w \in BOOLEAN, o \in Extractions \cup {"timeout"} : Extract(o, w) \/ ReExtract(o, w)
  \/ \E n \in 0..2, r, k, d \in BOOLEAN : Analyze(n, r, k, d)
  \/ \E rs \in Answers : Expand(rs)
  \/ SubqueryFails

Next == Tick \/ Local \/ Peer \/ Done

\* The runtime polls the task and its timers fire; no page, origin, renderer
\* or provider needs to answer.
Spec == Init /\ [][Next]_vars /\ WF_vars(Tick) /\ WF_vars(Local)
        /\ WF_vars(now >= until /\ Expire)

----------------------------------------------------------------------------
(* Properties.                                                              *)

TypeOK ==
  /\ now \in Nat /\ deadline \in Nat /\ top \in Nat /\ until \in Nat
  /\ phase \in Phases
  /\ queue \in Seq(Items) /\ cur \in Items /\ visited \subseteq Hrefs
  /\ budget \in Budgets /\ fetch \in Requests /\ stored \subseteq Keys
  /\ docs \in Seq([href : Hrefs, content : BOOLEAN])
  /\ known \subseteq Pages /\ gains \in Seq(SUBSET Pages)
  /\ proposals \in Seq({"high", "medium"})
  /\ DOMAIN robots = Hosts /\ \A h \in Hosts : robots[h].delay \in Nat
  /\ traffic \in Nat /\ contact \in [Hosts -> Nat \cup {Never}]

\* Whatever SafeFetcher may still deliver fits what is left of the budget when
\* it arrives: the limits it was given were taken from the same budget, and
\* nothing spends it in between.  consume_fetch never refuses a fetch.
ResultFits ==
  phase = "fetching" =>
    fetch.bytes <= budget.bytes /\ fetch.redirects <= budget.redirects

\* The bytes that pages really send, those of failed and refused fetches too,
\* which the byte budget does not count, stay within deep.max_bytes (or one
\* byte for each fetch when the limit is smaller than that) and a chunk for each
\* fetch: the one with which a page passed its limit and that was dropped.
TrafficIsBounded == traffic <= Max({Bytes, Fetches}) + Fetches * Chunk

\* No href is enriched twice, however the pages link to one another, whatever
\* they redirect to and however often a refused fetch returns its slot.  (A page
\* may be: visited tells hrefs apart by their fragment, and the request drops it.)
OncePerHref ==
  \A i, j \in DOMAIN docs : docs[i].href = docs[j].href => i = j

\* How far the pipeline can outlive its deadline: fetch_timeout counts from
\* the top of the loop, so a fetch that began after robots.txt and a crawl
\* delay may end that much later, and ranking has a timer of its own.
OverrunIsBounded ==
  now <= deadline + RobotsTimeout + MaxDelay
           + (IF phase \in {"ranking", "subqueries", "executing", "done"}
              THEN RankTimeout ELSE 0)

\* The gain of a subquery counts no URL that Search or an earlier subquery
\* had already brought.
GainIsNew ==
  \A i \in DOMAIN gains :
    /\ gains[i] \cap Range(Candidates) = {}
    /\ \A j \in DOMAIN gains : i # j => gains[i] \cap gains[j] = {}

\* A discovered page is not requested before its origin's crawl delay has
\* passed since the last request to that host, redirects included.
SpacedVisits ==
  [][(phase = "reserving" /\ phase' = "fetching" /\ cur.depth > 0 /\ RespectRobots) =>
       LET h == Host[cur.page] IN
       contact[h] = Never \/ now - contact[h] >= robots[h].delay]_vars

\* Deep answers, even if no page, origin, renderer or provider ever does.
Terminates == <>(phase = "done")
=============================================================================
