----------------------------- MODULE DeepProofs ------------------------------
(***************************************************************************)
(* One Deep enrichment, for any web, limits and timers: the types, what    *)
(* the budget and the deadline bound, and what is never done twice.        *)
(***************************************************************************)
EXTENDS Deep, SubsequencesProofs

----------------------------------------------------------------------------
(* The constants.                                                           *)

LEMMA Limits ==
  /\ Fetches \in Nat \ {0} /\ Bytes \in Nat \ {0} /\ CrawlUrls \in Nat \ {0}
  /\ TopK \in Nat \ {0} /\ MaxLinks \in Nat \ {0} /\ MaxProposals \in Nat \ {0}
  /\ Redirects \in Nat /\ Browsers \in Nat /\ Subqueries \in Nat /\ Cost \in Nat
  /\ MaxDepth \in Nat /\ MaxDom \in Nat
  /\ DeepTimeout \in Nat /\ RobotsTimeout \in Nat /\ MaxDelay \in Nat
  /\ ExtractTimeout \in Nat /\ RankTimeout \in Nat
  /\ RespectRobots \in BOOLEAN /\ RendererAvailable \in BOOLEAN /\ StoreContent \in BOOLEAN
  BY DeepLimits

LEMMA PerFetchIs ==
  PerFetch \in Nat \ {0} /\ PerFetch * Fetches <= Max({Bytes, Fetches})
<1> DEFINE q == Bytes \div Fetches
<1>1. q \in Nat /\ q * Fetches <= Bytes
  BY Limits
<1> HIDE DEF q
<1>2. PerFetch = IF q >= 1 THEN q ELSE 1
  BY <1>1, MaxOfTwo DEF PerFetch, q
<1>3. Max({Bytes, Fetches}) = IF Bytes >= Fetches THEN Bytes ELSE Fetches
  BY Limits, MaxOfTwo
<1>4. CASE q >= 1
  BY <1>1, <1>2, <1>3, <1>4, Limits
<1>5. CASE ~(q >= 1)
  BY <1>1, <1>2, <1>3, <1>5, Limits
<1> QED
  BY <1>4, <1>5

\* A chunk more for each fetch.
LEMMA MostSentIs ==
  /\ MostSent \in Nat \ {0} /\ PerFetch \in Nat /\ PerFetch <= MostSent
  /\ Max({Bytes, Fetches}) + Fetches * Chunk \in Nat
  /\ MostSent * Fetches <= Max({Bytes, Fetches}) + Fetches * Chunk
<1>1. PerFetch \in Nat \ {0} /\ Chunk \in Nat \ {0} /\ Fetches \in Nat
      /\ PerFetch * Fetches <= Max({Bytes, Fetches})
  BY PerFetchIs, Limits, DeepLimits
<1>2. MostSent * Fetches = PerFetch * Fetches + Fetches * Chunk
  BY <1>1 DEF MostSent
<1>3. Max({Bytes, Fetches}) \in Nat /\ Fetches * Chunk \in Nat /\ PerFetch * Fetches \in Nat
  BY <1>1, Limits, MaxOfTwo
<1>4. MostSent \in Nat \ {0} /\ PerFetch <= MostSent
  BY <1>1 DEF MostSent
<1> QED
  BY <1>1, <1>2, <1>3, <1>4

LEMMA PagesExist ==
  /\ Candidates \in Seq(Pages) /\ Candidates # <<>> /\ Candidates[1] \in Pages
  /\ Len(Candidates) \in Nat /\ DOMAIN Candidates = 1 .. Len(Candidates)
<1>1. Candidates \in Seq(Pages) /\ Candidates # <<>>
  BY DeepLimits
<1>2. Len(Candidates) \in Nat /\ Len(Candidates) # 0 /\ DOMAIN Candidates = 1 .. Len(Candidates)
  BY <1>1
<1> QED
  BY <1>1, <1>2

LEMMA ItemType ==
  ASSUME NEW h \in Hrefs, NEW n \in 0 .. MaxDepth, NEW r \in BOOLEAN
  PROVE  /\ Item(h, n, r) \in Items
         /\ Item(h, n, r).href = h /\ Item(h, n, r).depth = n
<1>1. h[1] \in Pages
  BY DEF Hrefs
<1> QED
  BY <1>1 DEF Item, Items

LEMMA NoItemType == NoItem \in Items
<1>1. <<Candidates[1], "">> \in Hrefs
  BY PagesExist, DeepLimits DEF Hrefs
<1>2. 0 \in 0 .. MaxDepth
  BY Limits
<1> QED
  BY <1>1, <1>2, ItemType DEF NoItem

LEMMA NoFetchType == NoFetch \in Requests
<1>1. (CHOOSE p \in Pages : TRUE) \in Pages
  BY PagesExist
<1>2. (CHOOSE v \in Versions : TRUE) \in Versions
  BY DeepLimits
<1> QED
  BY <1>1, <1>2, PerFetchIs, Limits DEF NoFetch, Requests

----------------------------------------------------------------------------
(* Links.                                                                   *)

LEMMA DiscoveredType ==
  ASSUME NEW page \in Pages, NEW host
  PROVE  Discovered(page, host) \in Seq(Hrefs)
<1> DEFINE same == {i \in DOMAIN Links[page] : Host[Links[page][i][1]] = host}
           kept == {i \in same : Place(same, i) <= MaxLinks}
<1>1. Links[page] \in Seq(Hrefs) /\ kept \subseteq DOMAIN Links[page]
  BY DeepLimits DEF Hrefs
<1>2. Discovered(page, host) = Picked(Links[page], kept)
  BY DEF Discovered
<1> HIDE DEF kept
<1> QED
  BY <1>1, <1>2, PickedIs

\* The links that are queued: none was queued before, and none comes twice.
LEMMA FreshIs ==
  ASSUME NEW hrefs \in Seq(Hrefs)
  PROVE  LET links == Fresh(hrefs) IN
         /\ links \in Seq(Hrefs)
         /\ \A k \in DOMAIN links : links[k] \notin visited
         /\ \A k, m \in DOMAIN links : links[k] = links[m] => k = m
<1> DEFINE first(i) == hrefs[i] \notin visited /\ \A j \in 1..(i - 1) : hrefs[j] # hrefs[i]
           P == {i \in DOMAIN hrefs : first(i)}
           links == Fresh(hrefs)
<1>1. links = Picked(hrefs, P)
  BY DEF Fresh
<1>2. P \subseteq DOMAIN hrefs /\ DOMAIN hrefs = 1 .. Len(hrefs) /\ Len(hrefs) \in Nat
  OBVIOUS
<1>3. \A i \in P : hrefs[i] \notin visited
  OBVIOUS
<1>4. ASSUME NEW i \in P, NEW j \in P, i < j PROVE hrefs[i] # hrefs[j]
  <2>1. i \in 1 .. (j - 1)
    BY <1>2, <1>4
  <2> QED
    BY <2>1
<1> HIDE DEF P, links
<1>5. /\ links \in Seq(Hrefs)
      /\ DOMAIN links = 1 .. Cardinality(P)
      /\ \A k \in 1 .. Cardinality(P) : Nth(P, k) \in P /\ links[k] = hrefs[Nth(P, k)]
      /\ \A k, m \in 1 .. Cardinality(P) : k < m => Nth(P, k) < Nth(P, m)
  BY <1>1, <1>2, PickedIs
<1>6. \A k \in DOMAIN links : links[k] \notin visited
  BY <1>3, <1>5
<1>7. ASSUME NEW k \in DOMAIN links, NEW m \in DOMAIN links, k < m
      PROVE  links[k] # links[m]
  BY <1>4, <1>5, <1>7
<1>8. ASSUME NEW k \in DOMAIN links, NEW m \in DOMAIN links, links[k] = links[m]
      PROVE  k = m
  <2>1. k \in Int /\ m \in Int
    BY <1>5
  <2>2. k < m \/ m < k \/ k = m
    BY <2>1
  <2> QED
    BY <1>7, <1>8, <2>2
<1> QED
  BY <1>5, <1>6, <1>8 DEF links

----------------------------------------------------------------------------
(* The budget.                                                              *)

LEMMA FullBudgetType == FullBudget \in Budgets
<1>1. Min({Subqueries, 2}) \in 0 .. 2
  BY Limits, MinOfTwo
<1> QED
  BY <1>1, Limits DEF FullBudget, Budgets

LEMMA ReservedType ==
  ASSUME budget \in Budgets, CanReserve
  PROVE  /\ Reserved \in Budgets
         /\ Reserved.fetches = budget.fetches - 1
         /\ Reserved.bytes = budget.bytes /\ Reserved.redirects = budget.redirects
<1>1. budget.fetches - 1 \in 0 .. Fetches /\ budget.crawl - 1 \in 0 .. CrawlUrls
  BY Limits DEF Budgets, CanReserve
<1> QED
  BY <1>1 DEF Reserved, Budgets

LEMMA ReleasedType ==
  ASSUME budget \in Budgets
  PROVE  Released \in Budgets /\ Released.fetches <= budget.fetches + 1
<1>1. Min({budget.fetches + 1, Fetches}) \in 0 .. Fetches
      /\ Min({budget.fetches + 1, Fetches}) <= budget.fetches + 1
  BY Limits, MinOfTwo DEF Budgets
<1>2. Min({budget.crawl + 1, CrawlUrls}) \in 0 .. CrawlUrls
  BY Limits, MinOfTwo DEF Budgets
<1> QED
  BY <1>1, <1>2 DEF Released, Budgets

LEMMA ConsumedType ==
  ASSUME budget \in Budgets, NEW b \in Nat, NEW r \in Nat, Fits(b, r)
  PROVE  Consumed(b, r) \in Budgets /\ Consumed(b, r).fetches = budget.fetches
<1>1. budget.bytes - b \in 0 .. Bytes /\ budget.redirects - r \in 0 .. Redirects
  BY Limits DEF Budgets, Fits
<1> QED
  BY <1>1 DEF Consumed, Budgets

LEMMA BrowserType ==
  ASSUME budget \in Budgets
  PROVE  /\ budget.browsers # 0 =>
              [budget EXCEPT !.browsers = @ - 1] \in Budgets
         /\ [budget EXCEPT !.browsers = Min({@ + 1, Browsers})] \in Budgets
         /\ budget.subqueries > 0 /\ budget.cost > 0 =>
              [budget EXCEPT !.subqueries = @ - 1, !.cost = @ - 1] \in Budgets
<1>1. Min({budget.browsers + 1, Browsers}) \in 0 .. Browsers
  BY Limits, MinOfTwo DEF Budgets
<1>2. [budget EXCEPT !.browsers = Min({@ + 1, Browsers})] \in Budgets
  BY <1>1 DEF Budgets
<1>3. budget.browsers # 0 => [budget EXCEPT !.browsers = @ - 1] \in Budgets
  BY Limits DEF Budgets
<1>4. budget.subqueries > 0 /\ budget.cost > 0 =>
        [budget EXCEPT !.subqueries = @ - 1, !.cost = @ - 1] \in Budgets
  <2> SUFFICES ASSUME budget.subqueries > 0, budget.cost > 0
               PROVE  [budget EXCEPT !.subqueries = @ - 1, !.cost = @ - 1] \in Budgets
    OBVIOUS
  <2>1. budget.subqueries - 1 \in 0 .. 2 /\ budget.cost - 1 \in 0 .. Cost
    BY Limits DEF Budgets
  <2> QED
    BY <2>1 DEF Budgets
<1> QED
  BY <1>2, <1>3, <1>4

LEMMA FetchLimitsType ==
  ASSUME budget \in Budgets
  PROVE  /\ FetchLimits.bytes \in 0 .. PerFetch /\ FetchLimits.bytes <= budget.bytes
         /\ FetchLimits.redirects \in 0 .. Redirects
         /\ FetchLimits.redirects <= budget.redirects
<1>1. Min({budget.bytes, PerFetch}) \in 0 .. PerFetch
      /\ Min({budget.bytes, PerFetch}) <= budget.bytes
  BY PerFetchIs, Limits, MinOfTwo DEF Budgets
<1>2. Min({budget.redirects, Redirects}) \in 0 .. Redirects
      /\ Min({budget.redirects, Redirects}) <= budget.redirects
  BY Limits, MinOfTwo DEF Budgets
<1> QED
  BY <1>1, <1>2 DEF FetchLimits

----------------------------------------------------------------------------
(* The steps.                                                               *)

LEMMA Steps ==
  ASSUME [Next]_vars
  PROVE  \/ Tick \/ Pop \/ Judge \/ Polite \/ EndCrawl \/ StartFetch \/ Refuse
         \/ Launch \/ SubqueryFails \/ Finish \/ UNCHANGED vars
         \/ \E g \in {Parse(f) : f \in Files} \cup {AllowAll, Unavailable} : RobotsAnswer(g)
         \/ \E p \in Pages : Redirect(p)
         \/ \E e \in {"byte_limit", "redirect_limit", "network", "timeout"}, b \in 0..MostSent :
              FailFetch(e, b)
         \/ \E size \in 0..PerFetch, v \in Versions, m \in BOOLEAN : Receive(size, v, m)
         \/ \E w \in BOOLEAN, dom \in 1..MaxDom : Render(dom, w)
         \/ \E w \in BOOLEAN, e \in {"unavailable", "at_capacity", "failed", "blocked", "timeout"} :
              RenderFails(e, w)
         \/ \E w \in BOOLEAN, o \in Extractions \cup {"timeout"} : Extract(o, w) \/ ReExtract(o, w)
         \/ \E n \in 0..2, r, k, d \in BOOLEAN : Analyze(n, r, k, d)
         \/ \E r \in {"invalid", "time_exhausted", "rejected_budget"} : SkipSubquery(r)
         \/ \E rs \in Answers : Expand(rs)
<1>1. CASE Local
  BY <1>1, Zenon DEF Local
<1>2. CASE Peer
  BY <1>2, Zenon DEF Peer
<1> QED
  BY <1>1, <1>2, Zenon DEF Next, Done

----------------------------------------------------------------------------
(* Types.                                                                   *)

LEMMA NextTurnTypes ==
  ASSUME NextTurn
  PROVE  phase' = "loop" /\ cur' \in Items /\ top' \in Nat /\ until' \in Nat /\ fetch' \in Requests
  BY NoItemType, NoFetchType DEF NextTurn

\* What Keep queues and remembers.
LEMMA KeepIs ==
  ASSUME TypeOK, NEW content \in BOOLEAN, NEW method \in Methods, NEW written \in BOOLEAN,
         Keep(content, method, written)
  PROVE  \E links \in Seq(Hrefs) :
           /\ \A k \in DOMAIN links : links[k] \notin visited
           /\ \A k, m \in DOMAIN links : links[k] = links[m] => k = m
           /\ visited' = visited \cup Range(links)
           /\ LET more == [i \in DOMAIN links |-> Item(links[i], cur.depth + 1, cur.rights)] IN
              /\ more \in Seq(Items) /\ queue' = queue \o more
              /\ Len(more) = Len(links) /\ \A k \in DOMAIN links : more[k].href = links[k]
<1> DEFINE links == IF cur.depth < MaxDepth
                    THEN Fresh(Discovered(fetch.page, Host[fetch.page])) ELSE <<>>
           more == [i \in DOMAIN links |-> Item(links[i], cur.depth + 1, cur.rights)]
<1>1. fetch.page \in Pages /\ cur.depth \in 0 .. MaxDepth /\ cur.rights \in BOOLEAN
  BY DEF TypeOK, Requests, Items
<1>2. /\ links \in Seq(Hrefs)
      /\ \A k \in DOMAIN links : links[k] \notin visited
      /\ \A k, m \in DOMAIN links : links[k] = links[m] => k = m
  <2>1. CASE cur.depth < MaxDepth
    <3>1. Discovered(fetch.page, Host[fetch.page]) \in Seq(Hrefs)
      BY <1>1, DiscoveredType
    <3> QED
      BY <2>1, <3>1, FreshIs
  <2>2. CASE ~(cur.depth < MaxDepth)
    <3>1. links = <<>>
      BY <2>2
    <3> HIDE DEF links
    <3> QED
      BY <3>1
  <2> QED
    BY <2>1, <2>2
<1>3. visited' = visited \cup Range(links) /\ queue' = queue \o more
  BY DEF Keep
<1>a. DOMAIN links # {} => cur.depth < MaxDepth
  OBVIOUS
<1> HIDE DEF links
<1>4. \A k \in DOMAIN links :
        Item(links[k], cur.depth + 1, cur.rights) \in Items
        /\ Item(links[k], cur.depth + 1, cur.rights).href = links[k]
  <2> SUFFICES ASSUME NEW k \in DOMAIN links
               PROVE  Item(links[k], cur.depth + 1, cur.rights) \in Items
                      /\ Item(links[k], cur.depth + 1, cur.rights).href = links[k]
    OBVIOUS
  <2>1. links[k] \in Hrefs
    BY <1>2
  <2>2. cur.depth + 1 \in 0 .. MaxDepth
    BY <1>a, <1>1, Limits
  <2> QED
    BY <1>1, <2>1, <2>2, ItemType
<1>5. DOMAIN links = 1 .. Len(links) /\ Len(links) \in Nat
  BY <1>2
<1>6. more \in [1 .. Len(links) -> Items]
  BY <1>4, <1>5
<1>7. more \in Seq(Items) /\ Len(more) = Len(links)
  BY <1>5, <1>6
<1>8. \A k \in DOMAIN links : more[k].href = links[k]
  BY <1>4
<1> HIDE DEF more
<1> QED
  BY <1>2, <1>3, <1>7, <1>8 DEF more

LEMMA KeepTypes ==
  ASSUME TypeOK, NEW content \in BOOLEAN, NEW method \in Methods, NEW written \in BOOLEAN,
         Keep(content, method, written)
  PROVE  /\ phase' = "loop" /\ cur' \in Items /\ top' \in Nat /\ until' \in Nat
         /\ fetch' \in Requests
         /\ queue' \in Seq(Items) /\ visited' \subseteq Hrefs /\ stored' \subseteq Keys
         /\ docs' = Append(docs, [href |-> cur.href, content |-> content])
         /\ docs' \in Seq([href : Hrefs, content : BOOLEAN])
<1>1. NextTurn
  BY DEF Keep
<1>2. PICK links \in Seq(Hrefs) :
        /\ visited' = visited \cup Range(links)
        /\ \E more \in Seq(Items) : queue' = queue \o more
  BY KeepIs, Zenon
<1>3. queue' \in Seq(Items)
  BY <1>2 DEF TypeOK
<1>4. visited' \subseteq Hrefs
  BY <1>2 DEF TypeOK, Range
<1>5. stored' \subseteq Keys
  <2>1. Key(cur.page, fetch.version, method) \in Keys
    BY DEF Key, Keys, TypeOK, Items, Requests
  <2> QED
    BY <2>1 DEF TypeOK, Keep
<1>6. docs' = Append(docs, [href |-> cur.href, content |-> content])
  BY DEF Keep
<1>7. [href |-> cur.href, content |-> content] \in [href : Hrefs, content : BOOLEAN]
  BY DEF TypeOK, Items
<1>8. docs' \in Seq([href : Hrefs, content : BOOLEAN])
  BY <1>6, <1>7 DEF TypeOK
<1> QED
  BY <1>1, <1>3, <1>4, <1>5, <1>6, <1>8, NextTurnTypes

LEMMA GroupsRead ==
  ASSUME NEW g \in {Parse(f) : f \in Files} \cup {AllowAll, Unavailable}
  PROVE  g.delay \in Nat
<1>1. AllowAll.delay = 0 /\ Unavailable.delay = 0
  BY DEF AllowAll, Unavailable
<1>2. \A f \in Files : Parse(f).delay \in Nat
  BY DeepLimits DEF Parse
<1> QED
  BY <1>1, <1>2

LEMMA ProposedType ==
  ASSUME NEW n \in 0 .. 2, NEW r \in BOOLEAN, NEW k \in BOOLEAN, NEW d \in BOOLEAN
  PROVE  Proposed(n, r, k, d) \in Seq({"high", "medium"})
<1> DEFINE high == [i \in 1 .. n |-> "high"]
           m == (IF r THEN 1 ELSE 0) + (IF Cardinality(Domains) < MinDomains THEN 1 ELSE 0)
           medium == [i \in 1 .. m |-> "medium"]
           gaps == high \o medium
<1>1. high \in Seq({"high", "medium"})
  OBVIOUS
<1>2. medium \in Seq({"high", "medium"})
  <2>1. m \in Nat
    OBVIOUS
  <2> HIDE DEF m
  <2> QED
    BY <2>1
<1>3. Proposed(n, r, k, d) =
        IF CoverageLow(k) /\ d THEN SubSeq(gaps, 1, Min({Len(gaps), MaxProposals})) ELSE <<>>
  BY DEF Proposed
<1> HIDE DEF high, medium
<1>4. gaps \in Seq({"high", "medium"})
  BY <1>1, <1>2
<1> HIDE DEF gaps
<1>5. Min({Len(gaps), MaxProposals}) \in Nat /\ Min({Len(gaps), MaxProposals}) <= Len(gaps)
  BY <1>4, Limits, MinOfTwo
<1>6. SubSeq(gaps, 1, Min({Len(gaps), MaxProposals})) \in Seq({"high", "medium"})
  <2> DEFINE S == {"high", "medium"}
             last == Min({Len(gaps), MaxProposals})
  <2>1. gaps \in Seq(S) /\ last \in Nat /\ last <= Len(gaps)
    BY <1>4, <1>5
  <2> HIDE DEF S, last
  <2>2. SubSeq(gaps, 1, last) \in Seq(S)
    BY <2>1
  <2> QED
    BY <2>2 DEF S, last
<1>7. <<>> \in Seq({"high", "medium"})
  OBVIOUS
<1> QED
  BY <1>3, <1>6, <1>7, Zenon

LEMMA SeedsIs ==
  /\ Seeds \in Seq(Items)
  /\ \A i \in DOMAIN Seeds : i \in DOMAIN Candidates /\ Seeds[i].href = <<Candidates[i], "">>
<1> DEFINE n == Min({TopK, Len(Candidates)})
<1>1. n \in Nat /\ n <= Len(Candidates)
  BY Limits, PagesExist, MinOfTwo
<1>2. Seeds = [i \in 1 .. n |-> Item(<<Candidates[i], "">>, 0, Candidates[i] \in Rights)]
  BY DEF Seeds
<1> HIDE DEF n
<1>3. ASSUME NEW i \in 1 .. n
      PROVE  /\ Item(<<Candidates[i], "">>, 0, Candidates[i] \in Rights) \in Items
             /\ Item(<<Candidates[i], "">>, 0, Candidates[i] \in Rights).href = <<Candidates[i], "">>
             /\ i \in DOMAIN Candidates
  <2>1. i \in DOMAIN Candidates /\ Candidates[i] \in Pages
    BY <1>1, PagesExist
  <2>2. <<Candidates[i], "">> \in Hrefs
    BY <2>1, DeepLimits DEF Hrefs
  <2>3. 0 \in 0 .. MaxDepth
    BY Limits
  <2>4. (Candidates[i] \in Rights) \in BOOLEAN
    OBVIOUS
  <2> QED
    BY <2>1, <2>2, <2>3, <2>4, ItemType
<1>4. Seeds \in [1 .. n -> Items]
  BY <1>2, <1>3
<1>5. Seeds \in Seq(Items)
  BY <1>1, <1>4
<1> QED
  BY <1>2, <1>3, <1>5

LEMMA InitTypes == Init => TypeOK
<1> SUFFICES ASSUME Init PROVE TypeOK
  OBVIOUS
<1>1. deadline \in Nat
  <2>1. PICK e \in Elapsed : deadline = Max({DeepTimeout - e, 0})
    BY DEF Init
  <2>2. e \in Nat
    BY DeepLimits
  <2> QED
    BY <2>1, <2>2, Limits, MaxOfTwo
<1>2. visited \subseteq Hrefs
  <2>0. Seeds \in Seq(Items)
    BY SeedsIs
  <2>1. \A i \in DOMAIN Seeds : Seeds[i] \in Items
    BY <2>0
  <2>2. \A i \in DOMAIN Seeds : Seeds[i].href \in Hrefs
    BY <2>1 DEF Items
  <2>3. visited = {Seeds[i].href : i \in DOMAIN Seeds}
    BY DEF Init
  <2> QED
    BY <2>2, <2>3
<1>3. stored \subseteq Keys
  BY PagesExist DEF Init, Keys, Key, Methods
<1>4. \A h \in Hosts : robots[h].delay \in Nat
  BY DEF Init, Unknown, AllowAll
<1>5. known \subseteq Pages
  BY PagesExist DEF Init, Range
<1>6. contact \in [Hosts -> Nat \cup {Never}]
  BY DEF Init
<1>7. queue \in Seq(Items) /\ cur \in Items /\ budget \in Budgets /\ fetch \in Requests
  BY SeedsIs, NoItemType, FullBudgetType, NoFetchType DEF Init
<1>8. docs \in Seq([href : Hrefs, content : BOOLEAN]) /\ gains \in Seq(SUBSET Pages)
      /\ proposals \in Seq({"high", "medium"})
  BY DEF Init
<1>9. now \in Nat /\ top \in Nat /\ until \in Nat /\ traffic \in Nat /\ DOMAIN robots = Hosts
      /\ phase \in Phases
  BY DEF Init, Phases
<1> QED
  BY <1>1, <1>2, <1>3, <1>4, <1>5, <1>6, <1>7, <1>8, <1>9 DEF TypeOK

\* The ends of the timers.
LEMMA Timers ==
  ASSUME TypeOK
  PROVE  /\ now \in Nat /\ deadline \in Nat /\ top \in Nat
         /\ FetchTimeout = (IF deadline >= top THEN deadline - top ELSE 0)
         /\ Max({now, deadline}) = (IF now >= deadline THEN now ELSE deadline)
         /\ LET cut == IF deadline <= now + ExtractTimeout THEN deadline ELSE now + ExtractTimeout
            IN  Max({now, Min({deadline, now + ExtractTimeout})}) =
                  IF now >= cut THEN now ELSE cut
<1>1. now \in Nat /\ deadline \in Nat /\ top \in Nat
  BY DEF TypeOK
<1>2. FetchTimeout = IF deadline >= top THEN deadline - top ELSE 0
  <2>1. deadline - top \in Int
    BY <1>1
  <2>2. Max({deadline - top, 0}) = IF deadline - top >= 0 THEN deadline - top ELSE 0
    BY <2>1, MaxOfTwo
  <2> QED
    BY <1>1, <2>2 DEF FetchTimeout
<1>3. Max({now, deadline}) = IF now >= deadline THEN now ELSE deadline
  BY <1>1, MaxOfTwo
<1> DEFINE cut == IF deadline <= now + ExtractTimeout THEN deadline ELSE now + ExtractTimeout
<1>4. now + ExtractTimeout \in Int /\ cut \in Int
  BY <1>1, Limits
<1>5. Min({deadline, now + ExtractTimeout}) = cut
  BY <1>1, <1>4, MinOfTwo
<1> HIDE DEF cut
<1>6. Max({now, cut}) = IF now >= cut THEN now ELSE cut
  BY <1>1, <1>4, MaxOfTwo
<1> QED
  BY <1>1, <1>2, <1>3, <1>5, <1>6 DEF cut

LEMMA TypeStep == TypeOK /\ [Next]_vars => TypeOK'
<1> SUFFICES ASSUME TypeOK, [Next]_vars PROVE TypeOK'
  OBVIOUS
<1> USE DEF crawl, ahead, subs, seen, Phases
<1>1. CASE Tick
  BY <1>1 DEF Tick, TypeOK
<1>2. CASE Pop
  <2>1. Head(queue) \in Items /\ Tail(queue) \in Seq(Items)
    BY <1>2 DEF Pop, TypeOK
  <2>2. until' \in Nat /\ phase' \in Phases
    BY <1>2, Limits DEF Pop, TypeOK
  <2> QED
    BY <1>2, <2>1, <2>2 DEF Pop, TypeOK
<1>3. CASE Judge
  <2>1. cur' \in Items /\ top' \in Nat /\ fetch' \in Requests /\ phase' \in Phases
    BY <1>3, NextTurnTypes DEF Judge, TypeOK
  <2>2. until' \in Nat
    <3>1. cur.page \in Pages
      BY DEF TypeOK, Items
    <3>2. robots[Host[cur.page]].delay \in Nat
      BY <3>1, DeepLimits DEF TypeOK
    <3> QED
      BY <1>3, <3>2, NextTurnTypes DEF Judge, TypeOK
  <2> QED
    BY <1>3, <2>1, <2>2 DEF Judge, TypeOK
<1>4. CASE Polite
  BY <1>4 DEF Polite, TypeOK
<1>5. CASE EndCrawl
  <2>1. Unknown.delay = 0
    BY DEF Unknown, AllowAll
  <2>2. DOMAIN robots' = Hosts /\ (\A h \in Hosts : robots'[h].delay \in Nat)
        /\ contact' \in [Hosts -> Nat \cup {Never}]
    BY <1>5, <2>1 DEF EndCrawl
  <2>3. queue' \in Seq(Items) /\ cur' \in Items /\ top' \in Nat /\ until' \in Nat
        /\ phase' \in Phases
    BY <1>5, NoItemType, Limits DEF EndCrawl, TypeOK
  <2> QED
    BY <1>5, <2>2, <2>3 DEF EndCrawl, TypeOK
<1>6. CASE StartFetch
  <2>1. cur.page \in Pages /\ {k \in stored : k[1] = cur.page} \in SUBSET Keys
    BY DEF TypeOK, Items
  <2>2. fetch' \in Requests
    BY <1>6, <2>1, NoFetchType, FetchLimitsType DEF StartFetch, Requests, TypeOK
  <2>3. budget' \in Budgets
    BY <1>6, ReservedType DEF StartFetch, TypeOK
  <2>4. until' \in Nat
    BY <1>6, Timers DEF StartFetch
  <2>5. contact' \in [Hosts -> Nat \cup {Never}]
    BY <1>6 DEF StartFetch, TypeOK
  <2> QED
    BY <1>6, <2>2, <2>3, <2>4, <2>5 DEF StartFetch, TypeOK
<1>7. CASE Refuse
  BY <1>7, ReleasedType, NextTurnTypes DEF Refuse, TypeOK
<1>8. CASE Launch
  <2>1. Tail(proposals) \in Seq({"high", "medium"})
    BY <1>8 DEF Launch, TypeOK
  <2>2. budget' \in Budgets
    BY <1>8, BrowserType DEF Launch, TypeOK
  <2> QED
    BY <1>8, <2>1, <2>2 DEF Launch, TypeOK
<1>9. CASE SubqueryFails
  BY <1>9 DEF SubqueryFails, TypeOK
<1>10. CASE Finish
  BY <1>10 DEF Finish, TypeOK
<1>11. CASE UNCHANGED vars
  BY <1>11 DEF vars, TypeOK
<1>12. ASSUME NEW g \in {Parse(f) : f \in Files} \cup {AllowAll, Unavailable}, RobotsAnswer(g)
       PROVE  TypeOK'
  <2>1. Unknown.delay = 0
    BY DEF Unknown, AllowAll
  <2>2. DOMAIN robots' = Hosts /\ \A h \in Hosts : robots'[h].delay \in Nat
    BY <1>12, <2>1, GroupsRead DEF RobotsAnswer, Remember, TypeOK
  <2> QED
    BY <1>12, <2>2 DEF RobotsAnswer, TypeOK
<1>13. ASSUME NEW p \in Pages, Redirect(p) PROVE TypeOK'
  <2>1. fetch' \in Requests
    <3>1. fetch \in Requests /\ fetch.hops < fetch.redirects
          /\ fetch' = [fetch EXCEPT !.page = p, !.hops = @ + 1]
      BY <1>13 DEF Redirect, TypeOK
    <3>2. fetch.hops + 1 \in 0 .. Redirects
      BY <3>1, Limits DEF Requests
    <3> QED
      BY <3>1, <3>2 DEF Requests
  <2>2. contact' \in [Hosts -> Nat \cup {Never}]
    BY <1>13 DEF Redirect, TypeOK
  <2> QED
    BY <1>13, <2>1, <2>2 DEF Redirect, TypeOK
<1>14. ASSUME NEW e, NEW b \in 0 .. MostSent, FailFetch(e, b) PROVE TypeOK'
  <2>1. traffic' \in Nat
    BY <1>14, MostSentIs DEF FailFetch, TypeOK
  <2> QED
    BY <1>14, <2>1, NextTurnTypes DEF FailFetch, TypeOK
<1>15. ASSUME NEW size \in 0 .. PerFetch, NEW v \in Versions, NEW m \in BOOLEAN,
              Receive(size, v, m)
       PROVE  TypeOK'
  <2>1. traffic' \in Nat
    BY <1>15, PerFetchIs DEF Receive, TypeOK
  <2>2. budget' \in Budgets
    <3>1. size \in Nat /\ fetch.hops \in Nat
      BY PerFetchIs, Limits DEF TypeOK, Requests
    <3> QED
      BY <1>15, <3>1, ConsumedType DEF Receive, TypeOK
  <2>3. CASE NextTurn
    <3>1. [href |-> cur.href, content |-> TRUE] \in [href : Hrefs, content : BOOLEAN]
      BY DEF TypeOK, Items
    <3>2. docs' \in {docs, Append(docs, [href |-> cur.href, content |-> TRUE])}
      BY <1>15, <2>3 DEF Receive
    <3>3. docs' \in Seq([href : Hrefs, content : BOOLEAN])
      <4> DEFINE D == [href : Hrefs, content : BOOLEAN]
                 e == [href |-> cur.href, content |-> TRUE]
      <4>1. docs \in Seq(D) /\ e \in D /\ docs' \in {docs, Append(docs, e)}
        BY <3>1, <3>2 DEF TypeOK
      <4> HIDE DEF D, e
      <4>2. docs' \in Seq(D)
        BY <4>1
      <4> QED
        BY <4>2 DEF D
    <3> QED
      BY <1>15, <2>1, <2>2, <2>3, <3>3, NextTurnTypes DEF Receive, TypeOK
  <2>4. CASE ~NextTurn
    <3>1. /\ fetch' = [fetch EXCEPT !.size = size, !.version = v]
          /\ phase' = "extracting"
          /\ until' = Max({now, Min({deadline, now + ExtractTimeout})})
          /\ UNCHANGED <<cur, top, docs>>
      BY <1>15, <2>4 DEF Receive
    <3>2. fetch' \in Requests
      BY <3>1 DEF Requests, TypeOK
    <3>3. until' \in Nat
      BY <3>1, Limits, Timers
    <3> QED
      BY <1>15, <2>1, <2>2, <3>1, <3>2, <3>3 DEF Receive, TypeOK
  <2> QED
    BY <2>3, <2>4
<1>16. ASSUME NEW w \in BOOLEAN, NEW o, Extract(o, w) PROVE TypeOK'
  <2>1. CASE Keep(o = "ok", "http", w) /\ UNCHANGED budget
    <3>1. (o = "ok") \in BOOLEAN /\ "http" \in Methods
      BY DEF Methods
    <3> QED
      BY <1>16, <2>1, <3>1, KeepTypes DEF Extract, TypeOK
  <2>2. CASE /\ budget.browsers # 0 /\ budget' = [budget EXCEPT !.browsers = @ - 1]
             /\ phase' = "rendering" /\ until' = Max({now, deadline})
             /\ UNCHANGED <<crawl, docs, stored, fetch>>
    <3>1. until' \in Nat
      BY <2>2, Timers
    <3>2. budget' \in Budgets
      BY <2>2, BrowserType DEF TypeOK
    <3> QED
      BY <1>16, <2>2, <3>1, <3>2 DEF Extract, TypeOK
  <2> QED
    BY <1>16, <2>1, <2>2 DEF Extract
<1>17. ASSUME NEW w \in BOOLEAN, NEW dom \in 1 .. MaxDom, Render(dom, w) PROVE TypeOK'
  <2>1. CASE Keep(FALSE, "http", w) /\ UNCHANGED budget
    BY <1>17, <2>1, KeepTypes DEF Render, TypeOK, Methods
  <2>2. CASE /\ Fits(dom, 0) /\ budget' = Consumed(dom, 0)
             /\ phase' = "reextracting" /\ until' = Max({now, deadline})
             /\ UNCHANGED <<crawl, docs, stored, fetch>>
    <3>1. until' \in Nat
      BY <2>2, Timers
    <3>2. budget' \in Budgets
      <4>1. budget \in Budgets /\ dom \in Nat /\ 0 \in Nat
        BY Limits DEF TypeOK
      <4> QED
        BY <2>2, <4>1, ConsumedType
    <3> QED
      BY <1>17, <2>2, <3>1, <3>2 DEF Render, TypeOK
  <2> QED
    BY <1>17, <2>1, <2>2 DEF Render
<1>18. ASSUME NEW w \in BOOLEAN, NEW e, RenderFails(e, w) PROVE TypeOK'
  <2>1. budget' \in Budgets
    BY <1>18, BrowserType DEF RenderFails, TypeOK
  <2> QED
    BY <1>18, <2>1, KeepTypes DEF RenderFails, TypeOK, Methods
<1>19. ASSUME NEW w \in BOOLEAN, NEW o, ReExtract(o, w) PROVE TypeOK'
  <2>1. (o = "ok") \in BOOLEAN /\ "rendered" \in Methods
    BY DEF Methods
  <2> QED
    BY <1>19, <2>1, KeepTypes DEF ReExtract, TypeOK
<1>20. ASSUME NEW n \in 0 .. 2, NEW r \in BOOLEAN, NEW k \in BOOLEAN, NEW d \in BOOLEAN,
              Analyze(n, r, k, d)
       PROVE  TypeOK'
  BY <1>20, ProposedType DEF Analyze, TypeOK
<1>21. ASSUME NEW r, SkipSubquery(r) PROVE TypeOK'
  <2>1. Tail(proposals) \in Seq({"high", "medium"})
    BY <1>21 DEF SkipSubquery, TypeOK
  <2> QED
    BY <1>21, <2>1 DEF SkipSubquery, TypeOK
<1>22. ASSUME NEW rs \in Answers, Expand(rs) PROVE TypeOK'
  <2>1. rs \subseteq Pages /\ (rs \ known) \in SUBSET Pages
    BY DeepLimits
  <2>2. gains' \in Seq(SUBSET Pages)
    BY <1>22, <2>1 DEF Expand, TypeOK
  <2> QED
    BY <1>22, <2>1, <2>2 DEF Expand, TypeOK
<1> QED
  BY <1>1, <1>2, <1>3, <1>4, <1>5, <1>6, <1>7, <1>8, <1>9, <1>10, <1>11, <1>12, <1>13,
     <1>14, <1>15, <1>16, <1>17, <1>18, <1>19, <1>20, <1>21, <1>22, Steps, Zenon

\* Deep keeps its types: the clock and the timers, the queue, the budget within its
\* limits, and the fetch in progress.
THEOREM DeepTypes == Spec => []TypeOK
  BY InitTypes, TypeStep, PTL DEF Spec

----------------------------------------------------------------------------
(* What the budget bounds.                                                  *)

LEMMA FetchesFit == TypeOK /\ ResultFits /\ [Next]_vars => ResultFits'
<1> SUFFICES ASSUME TypeOK, ResultFits, [Next]_vars PROVE ResultFits'
  OBVIOUS
<1> USE DEF crawl, ahead, subs, seen, NextTurn, Keep
<1>1. CASE Tick
  BY <1>1 DEF Tick, ResultFits
<1>2. CASE Pop
  BY <1>2 DEF Pop, ResultFits
<1>3. CASE Judge
  BY <1>3 DEF Judge, ResultFits
<1>4. CASE Polite
  BY <1>4 DEF Polite, ResultFits
<1>5. CASE EndCrawl
  BY <1>5 DEF EndCrawl, ResultFits
<1>6. CASE StartFetch
  <2>1. fetch'.bytes = FetchLimits.bytes /\ fetch'.redirects = FetchLimits.redirects
    BY <1>6 DEF StartFetch, NoFetch
  <2>2. budget'.bytes = budget.bytes /\ budget'.redirects = budget.redirects
    BY <1>6, ReservedType DEF StartFetch, TypeOK
  <2> QED
    BY <2>1, <2>2, FetchLimitsType DEF ResultFits, TypeOK
<1>7. CASE Refuse
  BY <1>7 DEF Refuse, ResultFits
<1>8. CASE Launch
  BY <1>8 DEF Launch, ResultFits
<1>9. CASE SubqueryFails
  BY <1>9 DEF SubqueryFails, ResultFits
<1>10. CASE Finish
  BY <1>10 DEF Finish, ResultFits
<1>11. CASE UNCHANGED vars
  BY <1>11 DEF vars, ResultFits
<1>12. ASSUME NEW g \in {Parse(f) : f \in Files} \cup {AllowAll, Unavailable}, RobotsAnswer(g)
       PROVE  ResultFits'
  BY <1>12 DEF RobotsAnswer, ResultFits
<1>13. ASSUME NEW p \in Pages, Redirect(p) PROVE ResultFits'
  <2>1. fetch'.bytes = fetch.bytes /\ fetch'.redirects = fetch.redirects
    BY <1>13 DEF Redirect, TypeOK, Requests
  <2> QED
    BY <1>13, <2>1 DEF Redirect, ResultFits
<1>14. ASSUME NEW e, NEW b \in 0 .. MostSent, FailFetch(e, b) PROVE ResultFits'
  BY <1>14 DEF FailFetch, ResultFits
<1>15. ASSUME NEW size \in 0 .. PerFetch, NEW v \in Versions, NEW m \in BOOLEAN, Receive(size, v, m)
       PROVE  ResultFits'
  BY <1>15 DEF Receive, ResultFits
<1>16. ASSUME NEW w \in BOOLEAN, NEW o, Extract(o, w) PROVE ResultFits'
  BY <1>16 DEF Extract, ResultFits
<1>17. ASSUME NEW w \in BOOLEAN, NEW dom \in 1 .. MaxDom, Render(dom, w)
       PROVE  ResultFits'
  BY <1>17 DEF Render, ResultFits
<1>18. ASSUME NEW w \in BOOLEAN, NEW e, RenderFails(e, w) PROVE ResultFits'
  BY <1>18 DEF RenderFails, ResultFits
<1>19. ASSUME NEW w \in BOOLEAN, NEW o, ReExtract(o, w) PROVE ResultFits'
  BY <1>19 DEF ReExtract, ResultFits
<1>20. ASSUME NEW n \in 0 .. 2, NEW r \in BOOLEAN, NEW k \in BOOLEAN, NEW d \in BOOLEAN, Analyze(n, r, k, d)
       PROVE  ResultFits'
  BY <1>20 DEF Analyze, ResultFits
<1>21. ASSUME NEW r, SkipSubquery(r) PROVE ResultFits'
  BY <1>21 DEF SkipSubquery, ResultFits
<1>22. ASSUME NEW rs \in Answers, Expand(rs) PROVE ResultFits'
  BY <1>22 DEF Expand, ResultFits
<1> QED
  BY <1>1, <1>2, <1>3, <1>4, <1>5, <1>6, <1>7, <1>8, <1>9, <1>10, <1>11, <1>12,
     <1>13, <1>14, <1>15, <1>16, <1>17, <1>18, <1>19, <1>20, <1>21, <1>22, Steps, Zenon

\* SafeFetcher was given what the budget still had, and nothing spends it before the
\* answer: consume_fetch never refuses one.
THEOREM FetchedFits == Spec => []ResultFits
<1>1. Init => ResultFits
  BY DEF Init, ResultFits
<1> QED
  BY <1>1, FetchesFit, DeepTypes, PTL DEF Spec

\* Every byte that came belongs to a fetch that is spent: what may still come is
\* MostSent for each fetch that is left and for the one in progress.
Busy == IF phase = "fetching" THEN 1 ELSE 0
Outstanding == budget.fetches + Busy
TrafficInv == traffic + MostSent * Outstanding <= MostSent * Fetches

LEMMA Products ==
  ASSUME NEW x \in Nat, NEW y \in Nat
  PROVE  /\ MostSent * x \in Nat
         /\ MostSent * (x + 1) = MostSent * x + MostSent
         /\ x <= y => MostSent * x <= MostSent * y
<1> DEFINE q == MostSent
<1>1. q \in Nat
  BY MostSentIs
<1> HIDE DEF q
<1>2. q * x \in Nat /\ q * (x + 1) = q * x + q
  BY <1>1
<1>3. ASSUME x <= y PROVE q * x <= q * y
  <2>1. y = x + (y - x) /\ y - x \in Nat
    BY <1>3
  <2>2. \A z \in Nat : q * (x + z) = q * x + q * z /\ q * z \in Nat
    BY <1>1
  <2> QED
    BY <1>1, <1>2, <2>1, <2>2
<1> QED
  BY <1>2, <1>3 DEF q

LEMMA TrafficTypes ==
  ASSUME TypeOK, TypeOK'
  PROVE  /\ traffic \in Nat /\ traffic' \in Nat /\ 0 \in 0 .. MostSent
         /\ budget.fetches \in Nat /\ budget'.fetches \in Nat
         /\ Outstanding \in Nat /\ Outstanding' \in Nat
<1>1. traffic \in Nat /\ traffic' \in Nat /\ budget \in Budgets /\ budget' \in Budgets
  BY DEF TypeOK
<1>2. budget.fetches \in Nat /\ budget'.fetches \in Nat
  BY <1>1, Limits DEF Budgets
<1> QED
  BY <1>1, <1>2, MostSentIs DEF Outstanding, Busy

\* A step that spends no more than it brings.
LEMMA TrafficKept ==
  ASSUME TypeOK, TypeOK', TrafficInv, NEW b \in 0 .. MostSent, traffic' = traffic + b,
         \/ Outstanding' + 1 <= Outstanding
         \/ b = 0 /\ Outstanding' <= Outstanding
  PROVE  TrafficInv'
<1> DEFINE o == Outstanding
           n == Outstanding'
<1>1. o \in Nat /\ n \in Nat /\ traffic \in Nat /\ b \in Nat /\ MostSent \in Nat /\ Fetches \in Nat
  BY MostSentIs, Limits, TrafficTypes
<1>2. TrafficInv' <=> traffic' + MostSent * n <= MostSent * Fetches
  BY DEF TrafficInv, MostSent, PerFetch
<1>3. traffic + MostSent * o <= MostSent * Fetches
  BY DEF TrafficInv
<1>4. (n + 1 <= o) \/ (b = 0 /\ n <= o)
  OBVIOUS
<1>5. b <= MostSent
  BY <1>1
<1> HIDE DEF o, n
<1>6. /\ MostSent * n \in Nat /\ MostSent * o \in Nat /\ MostSent * Fetches \in Nat
      /\ MostSent * (n + 1) = MostSent * n + MostSent
      /\ n <= o => MostSent * n <= MostSent * o
      /\ n + 1 <= o => MostSent * (n + 1) <= MostSent * o
  <2>1. n + 1 \in Nat
    BY <1>1
  <2> QED
    BY <1>1, <2>1, Products
<1> DEFINE pn == MostSent * n
           po == MostSent * o
           pf == MostSent * Fetches
           pm == MostSent * (n + 1)
<1>7. /\ pn \in Nat /\ po \in Nat /\ pf \in Nat /\ pm = pn + MostSent
      /\ (n <= o => pn <= po) /\ (n + 1 <= o => pm <= po)
      /\ traffic + po <= pf
  BY <1>3, <1>6
<1> HIDE DEF pn, po, pf, pm
<1>8. traffic + b + pn <= pf
  BY <1>1, <1>4, <1>5, <1>7
<1> QED
  BY <1>2, <1>8 DEF pn, pf

LEMMA TrafficStep == TypeOK /\ TypeOK' /\ TrafficInv /\ [Next]_vars => TrafficInv'
<1> SUFFICES ASSUME TypeOK, TypeOK', TrafficInv, [Next]_vars PROVE TrafficInv'
  OBVIOUS
<1> USE DEF crawl, ahead, subs, seen, NextTurn, Keep
<1>a. /\ traffic \in Nat /\ traffic' \in Nat /\ 0 \in 0 .. MostSent
      /\ budget.fetches \in Nat /\ budget'.fetches \in Nat
      /\ Outstanding \in Nat /\ Outstanding' \in Nat
  BY TrafficTypes
<1>b. ASSUME UNCHANGED <<traffic, budget>>, phase' # "fetching" \/ phase = "fetching"
      PROVE  TrafficInv'
  <2>1. Outstanding' <= Outstanding /\ traffic' = traffic + 0
    BY <1>a, <1>b DEF Outstanding, Busy
  <2> QED
    BY <1>a, <2>1, TrafficKept
<1>c. ASSUME UNCHANGED traffic, budget'.fetches = budget.fetches, phase' # "fetching"
      PROVE  TrafficInv'
  <2>1. Outstanding' <= Outstanding /\ traffic' = traffic + 0
    BY <1>a, <1>c DEF Outstanding, Busy
  <2> QED
    BY <1>a, <2>1, TrafficKept
<1>1. CASE Tick
  BY <1>1, <1>b DEF Tick
<1>2. CASE Pop
  BY <1>2, <1>b DEF Pop
<1>3. CASE Judge
  BY <1>3, <1>b DEF Judge
<1>4. CASE Polite
  BY <1>4, <1>b DEF Polite
<1>5. CASE EndCrawl
  BY <1>5, <1>b DEF EndCrawl
<1>6. CASE StartFetch
  <2>1. Outstanding' <= Outstanding /\ traffic' = traffic + 0
    <3>1. budget'.fetches = budget.fetches - 1
      BY <1>6, ReservedType DEF StartFetch, TypeOK
    <3>2. traffic' = traffic /\ phase = "reserving" /\ phase' = "fetching"
      BY <1>6 DEF StartFetch
    <3> QED
      BY <1>a, <3>1, <3>2 DEF Outstanding, Busy
  <2> QED
    BY <1>a, <2>1, TrafficKept
<1>7. CASE Refuse
  <2>1. Outstanding' <= Outstanding /\ traffic' = traffic + 0
    <3>1. budget'.fetches <= budget.fetches + 1
      BY <1>7, ReleasedType DEF Refuse, TypeOK
    <3>2. traffic' = traffic /\ phase = "fetching" /\ phase' = "loop"
      BY <1>7 DEF Refuse
    <3> QED
      BY <1>a, <3>1, <3>2 DEF Outstanding, Busy
  <2> QED
    BY <1>a, <2>1, TrafficKept
<1>8. CASE Launch
  <2>1. budget'.fetches = budget.fetches /\ UNCHANGED traffic /\ phase' = "executing"
    BY <1>8 DEF Launch, TypeOK, Budgets
  <2> QED
    BY <1>c, <2>1
<1>9. CASE SubqueryFails
  BY <1>9, <1>b DEF SubqueryFails
<1>10. CASE Finish
  BY <1>10, <1>b DEF Finish
<1>11. CASE UNCHANGED vars
  BY <1>11, <1>b DEF vars
<1>12. ASSUME NEW g \in {Parse(f) : f \in Files} \cup {AllowAll, Unavailable}, RobotsAnswer(g)
       PROVE  TrafficInv'
  BY <1>12, <1>b DEF RobotsAnswer
<1>13. ASSUME NEW p \in Pages, Redirect(p) PROVE TrafficInv'
  BY <1>13, <1>b DEF Redirect
<1>14. ASSUME NEW e, NEW b \in 0 .. MostSent, FailFetch(e, b) PROVE TrafficInv'
  <2>1. Outstanding' + 1 <= Outstanding /\ traffic' = traffic + b
    BY <1>14, <1>a DEF FailFetch, Outstanding, Busy
  <2> QED
    BY <2>1, TrafficKept
<1>15. ASSUME NEW size \in 0 .. PerFetch, NEW v \in Versions, NEW m \in BOOLEAN, Receive(size, v, m)
       PROVE  TrafficInv'
  <2>1. size \in Nat /\ fetch.hops \in Nat
    BY PerFetchIs, Limits DEF TypeOK, Requests
  <2>2. budget'.fetches = budget.fetches
    BY <1>15, <2>1, ConsumedType DEF Receive, TypeOK
  <2>3. Outstanding' + 1 <= Outstanding /\ traffic' = traffic + size
    BY <1>15, <1>a, <2>2 DEF Receive, Outstanding, Busy
  <2>4. size \in 0 .. MostSent
    BY <1>15, MostSentIs
  <2> QED
    BY <2>3, <2>4, TrafficKept
<1>16. ASSUME NEW w \in BOOLEAN, NEW o, Extract(o, w) PROVE TrafficInv'
  <2>1. budget'.fetches = budget.fetches /\ UNCHANGED traffic /\ phase' # "fetching"
    BY <1>16 DEF Extract, TypeOK, Budgets
  <2> QED
    BY <1>c, <2>1
<1>17. ASSUME NEW w \in BOOLEAN, NEW dom \in 1 .. MaxDom, Render(dom, w)
       PROVE  TrafficInv'
  <2>1. budget \in Budgets /\ dom \in Nat /\ 0 \in Nat
    BY Limits DEF TypeOK
  <2>2. budget'.fetches = budget.fetches
    BY <1>17, <2>1, ConsumedType DEF Render
  <2>3. UNCHANGED traffic /\ phase' # "fetching"
    BY <1>17 DEF Render
  <2> QED
    BY <1>c, <2>2, <2>3
<1>18. ASSUME NEW w \in BOOLEAN, NEW e, RenderFails(e, w) PROVE TrafficInv'
  <2>1. budget'.fetches = budget.fetches /\ UNCHANGED traffic /\ phase' # "fetching"
    BY <1>18 DEF RenderFails, TypeOK, Budgets
  <2> QED
    BY <1>c, <2>1
<1>19. ASSUME NEW w \in BOOLEAN, NEW o, ReExtract(o, w) PROVE TrafficInv'
  BY <1>19, <1>b DEF ReExtract
<1>20. ASSUME NEW n \in 0 .. 2, NEW r \in BOOLEAN, NEW k \in BOOLEAN, NEW d \in BOOLEAN, Analyze(n, r, k, d)
       PROVE  TrafficInv'
  BY <1>20, <1>b DEF Analyze
<1>21. ASSUME NEW r, SkipSubquery(r) PROVE TrafficInv'
  BY <1>21, <1>b DEF SkipSubquery
<1>22. ASSUME NEW rs \in Answers, Expand(rs) PROVE TrafficInv'
  BY <1>22, <1>b DEF Expand
<1> QED
  BY <1>1, <1>2, <1>3, <1>4, <1>5, <1>6, <1>7, <1>8, <1>9, <1>10, <1>11, <1>12,
     <1>13, <1>14, <1>15, <1>16, <1>17, <1>18, <1>19, <1>20, <1>21, <1>22, Steps, Zenon

\* The bytes pages send, those of failed and refused fetches too, stay within
\* deep.max_bytes, or one byte for each fetch if that is more, and one chunk for each
\* fetch: a fetch in progress holds its slot, and only one that brought nothing gives
\* it back.
THEOREM TrafficBound == Spec => []TrafficIsBounded
<1>1. Init => TrafficInv
  BY MostSentIs, Limits DEF Init, TrafficInv, Outstanding, Busy, FullBudget
<1>2. TypeOK /\ TrafficInv => TrafficIsBounded
  <2> SUFFICES ASSUME TypeOK, TrafficInv PROVE TrafficIsBounded
    OBVIOUS
  <2>0. budget \in Budgets /\ traffic \in Nat
    BY DEF TypeOK
  <2>1. Outstanding \in Nat /\ traffic \in Nat /\ Fetches \in Nat
    BY <2>0, Limits DEF Budgets, Outstanding, Busy
  <2>2. MostSent * Outstanding \in Nat /\ MostSent * Fetches \in Nat
    BY <2>1, Products
  <2>3. Max({Bytes, Fetches}) + Fetches * Chunk \in Nat
    BY MostSentIs
  <2>4. traffic <= MostSent * Fetches
    BY <2>1, <2>2 DEF TrafficInv
  <2> QED
    BY <2>1, <2>2, <2>3, <2>4, MostSentIs DEF TrafficIsBounded
<1> QED
  BY <1>1, <1>2, TrafficStep, DeepTypes, PTL DEF Spec

----------------------------------------------------------------------------
(* The deadline.                                                            *)

Bound ==
  deadline + RobotsTimeout + MaxDelay
    + (IF phase \in {"ranking", "subqueries", "executing", "done"} THEN RankTimeout ELSE 0)

\* Until the fetch starts the delays are counted from the top of the loop, which is
\* before the deadline; every timer ends within the bound of its phase.
DeadlineInv ==
  /\ now <= Bound
  /\ phase \in Awaiting => until <= Bound
  /\ phase \in {"robots", "judging", "polite", "reserving"} => top < deadline
  /\ phase = "robots" => now <= until /\ until <= top + RobotsTimeout
  /\ phase = "judging" => now <= top + RobotsTimeout
  /\ phase = "polite" => now <= until /\ until <= top + RobotsTimeout + MaxDelay
  /\ phase = "reserving" => now <= top + RobotsTimeout + MaxDelay

LEMMA ClockTypes ==
  ASSUME TypeOK
  PROVE  /\ now \in Nat /\ deadline \in Nat /\ top \in Nat /\ until \in Nat
         /\ RobotsTimeout \in Nat /\ MaxDelay \in Nat /\ RankTimeout \in Nat
         /\ ExtractTimeout \in Nat
  BY Limits DEF TypeOK

LEMMA CrawlDelay ==
  ASSUME TypeOK
  PROVE  LET group == robots[Host[cur.page]] IN
         /\ group.delay \in Nat
         /\ Decide(group, cur.page) = "allowed" => group.delay <= MaxDelay
<1>1. cur.page \in Pages
  BY DEF TypeOK, Items
<1>2. robots[Host[cur.page]].delay \in Nat
  BY <1>1, DeepLimits DEF TypeOK
<1>3. Decide(robots[Host[cur.page]], cur.page) = "allowed" =>
        ~(robots[Host[cur.page]].delay > MaxDelay)
  BY DEF Decide
<1> QED
  BY <1>2, <1>3, Limits

\* A turn ends, and a document is kept, early in the pipeline and in no time.
LEMMA TurnInTime ==
  ASSUME TypeOK, DeadlineInv, phase \notin {"ranking", "subqueries", "executing", "done"},
         UNCHANGED <<now, deadline>>, phase' = "loop"
  PROVE  DeadlineInv'
  BY ClockTypes DEF DeadlineInv, Bound, Awaiting

LEMMA DeadlineStep == TypeOK /\ DeadlineInv /\ [Next]_vars => DeadlineInv'
<1> SUFFICES ASSUME TypeOK, DeadlineInv, [Next]_vars PROVE DeadlineInv'
  OBVIOUS
<1> USE DEF crawl, ahead, subs, seen
<1>a. /\ now \in Nat /\ deadline \in Nat /\ top \in Nat /\ until \in Nat
      /\ RobotsTimeout \in Nat /\ MaxDelay \in Nat /\ RankTimeout \in Nat
      /\ ExtractTimeout \in Nat
  BY ClockTypes
<1>1. CASE Tick
  BY <1>1, <1>a DEF Tick, DeadlineInv, Bound, Awaiting
<1>2. CASE Pop
  BY <1>2, <1>a DEF Pop, DeadlineInv, Bound, Awaiting
<1>3. CASE Judge
  <2> DEFINE delay == robots[Host[cur.page]].delay
  <2>1. delay \in Nat /\ (Decide(robots[Host[cur.page]], cur.page) = "allowed" => delay <= MaxDelay)
    BY CrawlDelay
  <2>2. /\ phase = "judging" /\ UNCHANGED <<now, deadline>>
        /\ \/ phase' = "loop"
           \/ phase' = "reserving" /\ UNCHANGED <<top, until>>
           \/ /\ delay <= MaxDelay
              /\ phase' = "polite" /\ until' = now + delay /\ UNCHANGED top
    BY <1>3, <2>1 DEF Judge, NextTurn
  <2> HIDE DEF delay
  <2> QED
    BY <1>a, <2>1, <2>2 DEF DeadlineInv, Bound, Awaiting
<1>4. CASE Polite
  BY <1>4, <1>a DEF Polite, DeadlineInv, Bound, Awaiting
<1>5. CASE EndCrawl
  BY <1>5, <1>a DEF EndCrawl, DeadlineInv, Bound, Awaiting
<1>6. CASE StartFetch
  <2>1. /\ phase = "reserving" /\ phase' = "fetching" /\ UNCHANGED <<now, deadline, top>>
        /\ until' = now + (IF deadline >= top THEN deadline - top ELSE 0)
    BY <1>6, Timers DEF StartFetch
  <2> QED
    BY <1>a, <2>1 DEF DeadlineInv, Bound, Awaiting
<1>7. CASE Refuse
  BY <1>7, TurnInTime DEF Refuse, NextTurn
<1>8. CASE Launch
  BY <1>8, <1>a DEF Launch, DeadlineInv, Bound, Awaiting
<1>9. CASE SubqueryFails
  BY <1>9, <1>a DEF SubqueryFails, DeadlineInv, Bound, Awaiting
<1>10. CASE Finish
  BY <1>10, <1>a DEF Finish, DeadlineInv, Bound, Awaiting
<1>11. CASE UNCHANGED vars
  BY <1>11, <1>a DEF vars, DeadlineInv, Bound, Awaiting
<1>12. ASSUME NEW g \in {Parse(f) : f \in Files} \cup {AllowAll, Unavailable}, RobotsAnswer(g)
       PROVE  DeadlineInv'
  BY <1>12, <1>a DEF RobotsAnswer, DeadlineInv, Bound, Awaiting
<1>13. ASSUME NEW p \in Pages, Redirect(p) PROVE DeadlineInv'
  BY <1>13, <1>a DEF Redirect, DeadlineInv, Bound, Awaiting
<1>14. ASSUME NEW e, NEW b \in 0 .. MostSent, FailFetch(e, b) PROVE DeadlineInv'
  BY <1>14, TurnInTime DEF FailFetch, NextTurn
<1>15. ASSUME NEW size \in 0 .. PerFetch, NEW v \in Versions, NEW m \in BOOLEAN, Receive(size, v, m)
       PROVE  DeadlineInv'
  <2>1. CASE NextTurn
    BY <1>15, <2>1, TurnInTime DEF Receive, NextTurn
  <2>2. CASE ~NextTurn
    <3>1. /\ phase = "fetching" /\ phase' = "extracting" /\ UNCHANGED <<now, deadline, top>>
          /\ until' = Max({now, Min({deadline, now + ExtractTimeout})})
      BY <1>15, <2>2 DEF Receive
    <3>2. until' <= now \/ until' <= deadline
      BY <1>a, <3>1, Timers
    <3>3. until' \in Nat
      BY <1>a, <3>1, Timers
    <3> QED
      BY <1>a, <3>1, <3>2, <3>3 DEF DeadlineInv, Bound, Awaiting
  <2> QED
    BY <2>1, <2>2
<1>16. ASSUME NEW w \in BOOLEAN, NEW o, Extract(o, w) PROVE DeadlineInv'
  <2>1. CASE phase' = "loop"
    BY <1>16, <2>1, TurnInTime DEF Extract
  <2>2. CASE phase' # "loop"
    <3>1. /\ phase = "extracting" /\ phase' = "rendering" /\ UNCHANGED <<now, deadline, top>>
          /\ until' = IF now >= deadline THEN now ELSE deadline
      BY <1>16, <2>2, Timers DEF Extract, Keep, NextTurn
    <3> QED
      BY <1>a, <3>1 DEF DeadlineInv, Bound, Awaiting
  <2> QED
    BY <2>1, <2>2
<1>17. ASSUME NEW w \in BOOLEAN, NEW dom \in 1 .. MaxDom, Render(dom, w)
       PROVE  DeadlineInv'
  <2>1. CASE phase' = "loop"
    BY <1>17, <2>1, TurnInTime DEF Render
  <2>2. CASE phase' # "loop"
    <3>1. /\ phase = "rendering" /\ phase' = "reextracting" /\ UNCHANGED <<now, deadline, top>>
          /\ until' = IF now >= deadline THEN now ELSE deadline
      BY <1>17, <2>2, Timers DEF Render, Keep, NextTurn
    <3> QED
      BY <1>a, <3>1 DEF DeadlineInv, Bound, Awaiting
  <2> QED
    BY <2>1, <2>2
<1>18. ASSUME NEW w \in BOOLEAN, NEW e, RenderFails(e, w) PROVE DeadlineInv'
  BY <1>18, TurnInTime DEF RenderFails, Keep, NextTurn
<1>19. ASSUME NEW w \in BOOLEAN, NEW o, ReExtract(o, w) PROVE DeadlineInv'
  BY <1>19, TurnInTime DEF ReExtract, Keep, NextTurn
<1>20. ASSUME NEW n \in 0 .. 2, NEW r \in BOOLEAN, NEW k \in BOOLEAN, NEW d \in BOOLEAN, Analyze(n, r, k, d)
       PROVE  DeadlineInv'
  BY <1>20, <1>a DEF Analyze, DeadlineInv, Bound, Awaiting
<1>21. ASSUME NEW r, SkipSubquery(r) PROVE DeadlineInv'
  BY <1>21, <1>a DEF SkipSubquery, DeadlineInv, Bound, Awaiting
<1>22. ASSUME NEW rs \in Answers, Expand(rs) PROVE DeadlineInv'
  BY <1>22, <1>a DEF Expand, DeadlineInv, Bound, Awaiting
<1> QED
  BY <1>1, <1>2, <1>3, <1>4, <1>5, <1>6, <1>7, <1>8, <1>9, <1>10, <1>11, <1>12,
     <1>13, <1>14, <1>15, <1>16, <1>17, <1>18, <1>19, <1>20, <1>21, <1>22, Steps, Zenon

\* However late peers answer, the pipeline outlives its deadline by at most one
\* robots.txt timeout and one crawl delay, and ranking's own timer.
THEOREM OverrunBound == Spec => []OverrunIsBounded
<1>1. TypeOK /\ Init => DeadlineInv
  BY ClockTypes DEF Init, DeadlineInv, Bound, Awaiting
<1>2. DeadlineInv => OverrunIsBounded
  BY DEF DeadlineInv, Bound, OverrunIsBounded
<1> QED
  BY <1>1, <1>2, DeadlineStep, DeepTypes, PTL DEF Spec

----------------------------------------------------------------------------
(* What is never done twice.                                                *)

GainInv ==
  /\ GainIsNew
  /\ Range(Candidates) \subseteq known
  /\ \A i \in DOMAIN gains : gains[i] \subseteq known

LEMMA GainStep == TypeOK /\ GainInv /\ [Next]_vars => GainInv'
<1> SUFFICES ASSUME TypeOK, GainInv, [Next]_vars PROVE GainInv'
  OBVIOUS
<1> USE DEF crawl, ahead, subs, seen
<1>a. ASSUME UNCHANGED <<known, gains>> PROVE GainInv'
  BY <1>a DEF GainInv, GainIsNew, Range
<1>1. CASE Tick
  BY <1>1, <1>a DEF Tick
<1>2. CASE Pop
  BY <1>2, <1>a DEF Pop
<1>3. CASE Judge
  BY <1>3, <1>a DEF Judge
<1>4. CASE Polite
  BY <1>4, <1>a DEF Polite
<1>5. CASE EndCrawl
  BY <1>5, <1>a DEF EndCrawl
<1>6. CASE StartFetch
  BY <1>6, <1>a DEF StartFetch
<1>7. CASE Refuse
  BY <1>7, <1>a DEF Refuse
<1>8. CASE Launch
  BY <1>8, <1>a DEF Launch
<1>9. CASE SubqueryFails
  BY <1>9, <1>a DEF SubqueryFails
<1>10. CASE Finish
  BY <1>10, <1>a DEF Finish
<1>11. CASE UNCHANGED vars
  BY <1>11, <1>a DEF vars
<1>12. ASSUME NEW g \in {Parse(f) : f \in Files} \cup {AllowAll, Unavailable}, RobotsAnswer(g)
       PROVE  GainInv'
  BY <1>12, <1>a DEF RobotsAnswer
<1>13. ASSUME NEW p \in Pages, Redirect(p) PROVE GainInv'
  BY <1>13, <1>a DEF Redirect
<1>14. ASSUME NEW e, NEW b \in 0 .. MostSent, FailFetch(e, b) PROVE GainInv'
  BY <1>14, <1>a DEF FailFetch
<1>15. ASSUME NEW size \in 0 .. PerFetch, NEW v \in Versions, NEW m \in BOOLEAN, Receive(size, v, m)
       PROVE  GainInv'
  BY <1>15, <1>a DEF Receive
<1>16. ASSUME NEW w \in BOOLEAN, NEW o, Extract(o, w) PROVE GainInv'
  BY <1>16, <1>a DEF Extract
<1>17. ASSUME NEW w \in BOOLEAN, NEW dom \in 1 .. MaxDom, Render(dom, w)
       PROVE  GainInv'
  BY <1>17, <1>a DEF Render
<1>18. ASSUME NEW w \in BOOLEAN, NEW e, RenderFails(e, w) PROVE GainInv'
  BY <1>18, <1>a DEF RenderFails
<1>19. ASSUME NEW w \in BOOLEAN, NEW o, ReExtract(o, w) PROVE GainInv'
  BY <1>19, <1>a DEF ReExtract
<1>20. ASSUME NEW n \in 0 .. 2, NEW r \in BOOLEAN, NEW k \in BOOLEAN, NEW d \in BOOLEAN, Analyze(n, r, k, d)
       PROVE  GainInv'
  BY <1>20, <1>a DEF Analyze
<1>21. ASSUME NEW r, SkipSubquery(r) PROVE GainInv'
  BY <1>21, <1>a DEF SkipSubquery
<1>22. ASSUME NEW rs \in Answers, Expand(rs) PROVE GainInv'
  <2> DEFINE new == rs \ known
  <2>1. gains \in Seq(SUBSET Pages) /\ new \in SUBSET Pages
    BY DeepLimits DEF TypeOK
  <2>2. gains' = Append(gains, new) /\ known' = known \cup rs
    BY <1>22 DEF Expand
  <2>3. /\ DOMAIN gains' = 1 .. (Len(gains) + 1) /\ DOMAIN gains = 1 .. Len(gains)
        /\ Len(gains) \in Nat
        /\ \A i \in 1 .. Len(gains) : gains'[i] = gains[i]
        /\ gains'[Len(gains) + 1] = new
    BY <2>1, <2>2
  <2>4. \A i \in DOMAIN gains' : gains'[i] = new \/ i \in DOMAIN gains
    BY <2>3
  <2>5. \A i \in DOMAIN gains' : gains'[i] \subseteq known'
    BY <2>2, <2>3, <2>4 DEF GainInv
  <2>6. \A i \in DOMAIN gains' : gains'[i] \cap Range(Candidates) = {}
    BY <2>3, <2>4 DEF GainInv, GainIsNew
  <2>7. ASSUME NEW i \in DOMAIN gains', NEW j \in DOMAIN gains', i # j
        PROVE  gains'[i] \cap gains'[j] = {}
    <3>1. CASE i \in DOMAIN gains /\ j \in DOMAIN gains
      BY <2>3, <2>7, <3>1 DEF GainInv, GainIsNew
    <3>2. CASE i \in DOMAIN gains /\ j = Len(gains) + 1
      BY <2>3, <3>2 DEF GainInv
    <3>3. CASE i = Len(gains) + 1 /\ j \in DOMAIN gains
      BY <2>3, <3>3 DEF GainInv
    <3> QED
      BY <2>3, <2>7, <3>1, <3>2, <3>3
  <2>8. Range(Candidates) \subseteq known'
    BY <2>2 DEF GainInv
  <2>9. GainIsNew'
    BY <2>6, <2>7 DEF GainIsNew, Range
  <2> QED
    BY <2>5, <2>8, <2>9 DEF GainInv, Range
<1> QED
  BY <1>1, <1>2, <1>3, <1>4, <1>5, <1>6, <1>7, <1>8, <1>9, <1>10, <1>11, <1>12,
     <1>13, <1>14, <1>15, <1>16, <1>17, <1>18, <1>19, <1>20, <1>21, <1>22, Steps, Zenon

\* The gain of a subquery counts no URL that Search or another subquery brought.
THEOREM GainsAreNew == Spec => []GainIsNew
<1>1. Init => GainInv
  BY DEF Init, GainInv, GainIsNew
<1>2. GainInv => GainIsNew
  BY DEF GainInv
<1> QED
  BY <1>1, <1>2, GainStep, DeepTypes, PTL DEF Spec

Working ==
  {"robots", "judging", "polite", "reserving", "fetching", "extracting", "rendering",
   "reextracting"}

\* An href is in the queue, in hand or in a document, and in one place only; what was
\* ever in one of them was visited.
HrefInv ==
  /\ \A i \in DOMAIN docs : docs[i].href \in visited
  /\ \A i \in DOMAIN queue : queue[i].href \in visited
  /\ \A i \in DOMAIN queue, j \in DOMAIN docs : queue[i].href # docs[j].href
  /\ \A i, j \in DOMAIN queue : queue[i].href = queue[j].href => i = j
  /\ \A i, j \in DOMAIN docs : docs[i].href = docs[j].href => i = j
  /\ phase \in Working =>
       /\ cur.href \in visited
       /\ \A i \in DOMAIN queue : queue[i].href # cur.href
       /\ \A i \in DOMAIN docs : docs[i].href # cur.href

\* A document of the candidate in hand.
LEMMA DocumentAdded ==
  ASSUME TypeOK, HrefInv, phase \in Working, NEW content \in BOOLEAN,
         docs' = Append(docs, [href |-> cur.href, content |-> content])
  PROVE  /\ \A i \in DOMAIN docs' : docs'[i].href = cur.href \/ \E j \in DOMAIN docs : docs'[i].href = docs[j].href
         /\ \A i, j \in DOMAIN docs' : docs'[i].href = docs'[j].href => i = j
<1> DEFINE D == [href : Hrefs, content : BOOLEAN]
           e == [href |-> cur.href, content |-> content]
<1>1. docs \in Seq(D) /\ e \in D /\ e.href = cur.href
  BY DEF TypeOK, Items
<1> HIDE DEF D, e
<1>2. /\ DOMAIN docs' = 1 .. (Len(docs) + 1) /\ DOMAIN docs = 1 .. Len(docs)
      /\ Len(docs) \in Nat
      /\ \A i \in 1 .. Len(docs) : docs'[i] = docs[i]
      /\ docs'[Len(docs) + 1] = e
  BY <1>1 DEF e
<1>3. \A i \in DOMAIN docs' : i = Len(docs) + 1 \/ i \in DOMAIN docs
  BY <1>2
<1>4. \A i \in DOMAIN docs : docs'[i].href = docs[i].href /\ docs[i].href # cur.href
  BY <1>2 DEF HrefInv
<1>5. docs'[Len(docs) + 1].href = cur.href
  BY <1>1, <1>2
<1>6. \A i, j \in DOMAIN docs : docs[i].href = docs[j].href => i = j
  BY DEF HrefInv
<1>7. ASSUME NEW i \in DOMAIN docs', NEW j \in DOMAIN docs', docs'[i].href = docs'[j].href
      PROVE  i = j
  BY <1>3, <1>4, <1>5, <1>6, <1>7
<1> QED
  BY <1>3, <1>4, <1>5, <1>7

\* The turn ends with or without a document.
LEMMA TurnHrefs ==
  ASSUME TypeOK, HrefInv, phase \in Working, phase' = "loop",
         UNCHANGED <<queue, visited>>,
         \/ UNCHANGED docs
         \/ \E content \in BOOLEAN : docs' = Append(docs, [href |-> cur.href, content |-> content])
  PROVE  HrefInv'
<1>1. CASE UNCHANGED docs
  BY <1>1 DEF HrefInv, Working
<1>2. ASSUME NEW content \in BOOLEAN,
             docs' = Append(docs, [href |-> cur.href, content |-> content])
      PROVE  HrefInv'
  <2>1. /\ \A i \in DOMAIN docs' : docs'[i].href = cur.href \/ \E j \in DOMAIN docs : docs'[i].href = docs[j].href
        /\ \A i, j \in DOMAIN docs' : docs'[i].href = docs'[j].href => i = j
    BY <1>2, DocumentAdded
  <2>2. \A i \in DOMAIN docs' : docs'[i].href \in visited
    BY <2>1 DEF HrefInv
  <2>3. \A i \in DOMAIN queue, j \in DOMAIN docs' : queue[i].href # docs'[j].href
    BY <2>1 DEF HrefInv
  <2>4. \A i, j \in DOMAIN queue : queue[i].href = queue[j].href => i = j
    BY DEF HrefInv
  <2>5. \A i \in DOMAIN queue : queue[i].href \in visited
    BY DEF HrefInv
  <2>6. phase' \notin Working
    BY DEF Working
  <2> QED
    BY <2>1, <2>2, <2>3, <2>4, <2>5, <2>6 DEF HrefInv
<1> QED
  BY <1>1, <1>2

\* Keep queues links that were not visited, each once.
LEMMA KeepHrefs ==
  ASSUME TypeOK, HrefInv, phase \in Working,
         NEW content \in BOOLEAN, NEW method \in Methods, NEW written \in BOOLEAN,
         Keep(content, method, written)
  PROVE  HrefInv'
<1>1. PICK links \in Seq(Hrefs) :
        /\ \A k \in DOMAIN links : links[k] \notin visited
        /\ \A k, m \in DOMAIN links : links[k] = links[m] => k = m
        /\ visited' = visited \cup Range(links)
        /\ \E more \in Seq(Items) :
             /\ queue' = queue \o more
             /\ Len(more) = Len(links) /\ \A k \in DOMAIN links : more[k].href = links[k]
  BY KeepIs, Zenon
<1>2. PICK more \in Seq(Items) :
        /\ queue' = queue \o more
        /\ Len(more) = Len(links) /\ \A k \in DOMAIN links : more[k].href = links[k]
  BY <1>1
<1>3. queue \in Seq(Items)
  BY DEF TypeOK
<1> DEFINE n == Len(queue)
<1>4. /\ n \in Nat /\ DOMAIN queue = 1 .. n /\ Len(links) \in Nat /\ DOMAIN links = 1 .. Len(links)
      /\ DOMAIN queue' = 1 .. (n + Len(links))
      /\ \A i \in 1 .. n : queue'[i] = queue[i]
      /\ \A i \in (n + 1) .. (n + Len(links)) : queue'[i] = more[i - n]
  <2>1. n \in Nat /\ DOMAIN queue = 1 .. n
    BY <1>3
  <2>2. Len(links) \in Nat /\ DOMAIN links = 1 .. Len(links)
    OBVIOUS
  <2>3. /\ DOMAIN (queue \o more) = 1 .. (Len(queue) + Len(more))
        /\ \A i \in 1 .. Len(queue) : (queue \o more)[i] = queue[i]
        /\ \A i \in (Len(queue) + 1) .. (Len(queue) + Len(more)) :
             (queue \o more)[i] = more[i - Len(queue)]
    BY <1>3, Joined, Zenon
  <2> DEFINE q == queue'
  <2>4. q = queue \o more /\ Len(more) = Len(links)
    BY <1>2
  <2> HIDE DEF q
  <2>5. DOMAIN q = 1 .. (n + Len(links))
    BY <2>3, <2>4, Zenon
  <2>6. \A i \in 1 .. n : q[i] = queue[i]
    BY <2>3, <2>4, Zenon
  <2>7. \A i \in (n + 1) .. (n + Len(links)) : q[i] = more[i - n]
    BY <2>3, <2>4, Zenon
  <2> QED
    BY <2>1, <2>2, <2>5, <2>6, <2>7 DEF q
<1> HIDE DEF n
<1>5. ASSUME NEW i \in DOMAIN queue'
      PROVE  \/ i \in DOMAIN queue /\ queue'[i].href = queue[i].href
             \/ i - n \in DOMAIN links /\ queue'[i].href = links[i - n]
  <2>1. CASE i \in 1 .. n
    BY <1>4, <2>1
  <2>2. CASE i \notin 1 .. n
    <3>1. i \in (n + 1) .. (n + Len(links)) /\ i - n \in DOMAIN links
      BY <1>4, <2>2
    <3> QED
      BY <1>2, <1>4, <3>1
  <2> QED
    BY <2>1, <2>2
<1>6. \A k \in DOMAIN links : links[k] \in visited' /\ links[k] \notin visited
  BY <1>1 DEF Range
<1>7. visited \subseteq visited'
  BY <1>1
<1>8. docs' = Append(docs, [href |-> cur.href, content |-> content]) /\ phase' = "loop"
  BY KeepTypes
<1>9. /\ \A i \in DOMAIN docs' : docs'[i].href = cur.href \/ \E j \in DOMAIN docs : docs'[i].href = docs[j].href
      /\ \A i, j \in DOMAIN docs' : docs'[i].href = docs'[j].href => i = j
  BY <1>8, DocumentAdded
<1>10. \A i \in DOMAIN docs' : docs'[i].href \in visited
  BY <1>9 DEF HrefInv
<1>11. \A i \in DOMAIN queue' : queue'[i].href \in visited'
  BY <1>5, <1>6, <1>7 DEF HrefInv
<1>12. ASSUME NEW i \in DOMAIN queue', NEW j \in DOMAIN docs'
       PROVE  queue'[i].href # docs'[j].href
  <2>1. CASE i \in DOMAIN queue /\ queue'[i].href = queue[i].href
    BY <1>9, <2>1 DEF HrefInv
  <2>2. CASE i - n \in DOMAIN links /\ queue'[i].href = links[i - n]
    BY <1>6, <1>10, <2>2
  <2> QED
    BY <1>5, <2>1, <2>2
<1>13. ASSUME NEW i \in DOMAIN queue', NEW j \in DOMAIN queue', queue'[i].href = queue'[j].href
       PROVE  i = j
  <2>1. \A a \in DOMAIN queue : queue[a].href \in visited
    BY DEF HrefInv
  <2>2. i \in Int /\ j \in Int /\ n \in Int
    BY <1>4
  <2>3. CASE i \in DOMAIN queue /\ j \in DOMAIN queue
    BY <1>4, <1>13, <2>3 DEF HrefInv
  <2>4. CASE i - n \in DOMAIN links /\ j - n \in DOMAIN links
             /\ queue'[i].href = links[i - n] /\ queue'[j].href = links[j - n]
    <3>1. i - n = j - n
      BY <1>1, <1>13, <2>4
    <3> QED
      BY <2>2, <3>1
  <2> QED
    BY <1>5, <1>6, <1>13, <2>1, <2>3, <2>4
<1>14. phase' \notin Working
  BY <1>8 DEF Working
<1> QED
  BY <1>7, <1>9, <1>10, <1>11, <1>12, <1>13, <1>14 DEF HrefInv

LEMMA HrefStep == TypeOK /\ HrefInv /\ [Next]_vars => HrefInv'
<1> SUFFICES ASSUME TypeOK, HrefInv, [Next]_vars PROVE HrefInv'
  OBVIOUS
<1> USE DEF crawl, ahead, subs, seen
<1>a. ASSUME UNCHANGED <<queue, visited, docs>>,
             phase' \notin Working \/ (phase \in Working /\ UNCHANGED cur)
      PROVE  HrefInv'
  BY <1>a DEF HrefInv
<1>1. CASE Tick
  BY <1>1, <1>a DEF Tick, Working
<1>2. CASE Pop
  <2>1. /\ queue \in Seq(Items) /\ queue # <<>> /\ cur' = Head(queue) /\ queue' = Tail(queue)
        /\ UNCHANGED <<visited, docs>>
    BY <1>2 DEF Pop, TypeOK
  <2>2. /\ Len(queue) \in Nat /\ DOMAIN queue = 1 .. Len(queue) /\ 1 \in DOMAIN queue
        /\ cur' = queue[1]
    BY <2>1
  <2>3. /\ DOMAIN queue' = 1 .. (Len(queue) - 1)
        /\ \A i \in DOMAIN queue' : queue'[i] = queue[i + 1]
    BY <2>1
  <2>4. \A i \in DOMAIN queue' : i + 1 \in DOMAIN queue /\ i + 1 # 1 /\ i \in Int
    BY <2>2, <2>3
  <2>5. /\ cur'.href \in visited'
        /\ \A i \in DOMAIN queue' : queue'[i].href \in visited' /\ queue'[i].href # cur'.href
        /\ \A i \in DOMAIN docs' : docs'[i].href # cur'.href
        /\ \A i \in DOMAIN queue', j \in DOMAIN docs' : queue'[i].href # docs'[j].href
    BY <2>1, <2>2, <2>3, <2>4 DEF HrefInv
  <2>6. ASSUME NEW i \in DOMAIN queue', NEW j \in DOMAIN queue', queue'[i].href = queue'[j].href
        PROVE  i = j
    <3>1. i + 1 = j + 1
      BY <2>3, <2>4, <2>6 DEF HrefInv
    <3> QED
      BY <2>4, <3>1
  <2>7. /\ \A i \in DOMAIN docs' : docs'[i].href \in visited'
        /\ \A i, j \in DOMAIN docs' : docs'[i].href = docs'[j].href => i = j
    BY <2>1 DEF HrefInv
  <2> QED
    BY <2>5, <2>6, <2>7 DEF HrefInv
<1>3. CASE Judge
  <2>1. /\ phase = "judging" /\ UNCHANGED <<queue, visited, docs>>
        /\ phase' = "loop" \/ UNCHANGED cur
    BY <1>3 DEF Judge, NextTurn
  <2> QED
    BY <1>a, <2>1 DEF Working
<1>4. CASE Polite
  BY <1>4, <1>a DEF Polite, Working
<1>5. CASE EndCrawl
  <2>1. queue' = <<>> /\ UNCHANGED <<visited, docs>> /\ phase' = "ranking"
    BY <1>5 DEF EndCrawl
  <2>2. DOMAIN queue' = {}
    BY <2>1
  <2> QED
    BY <2>1, <2>2 DEF HrefInv, Working
<1>6. CASE StartFetch
  BY <1>6, <1>a DEF StartFetch, Working
<1>7. CASE Refuse
  BY <1>7, TurnHrefs DEF Refuse, NextTurn, Working
<1>8. CASE Launch
  BY <1>8, <1>a DEF Launch, Working
<1>9. CASE SubqueryFails
  BY <1>9, <1>a DEF SubqueryFails, Working
<1>10. CASE Finish
  BY <1>10, <1>a DEF Finish, Working
<1>11. CASE UNCHANGED vars
  BY <1>11, <1>a DEF vars
<1>12. ASSUME NEW g \in {Parse(f) : f \in Files} \cup {AllowAll, Unavailable}, RobotsAnswer(g)
       PROVE  HrefInv'
  BY <1>12, <1>a DEF RobotsAnswer, Working
<1>13. ASSUME NEW p \in Pages, Redirect(p) PROVE HrefInv'
  BY <1>13, <1>a DEF Redirect, Working
<1>14. ASSUME NEW e, NEW b \in 0 .. MostSent, FailFetch(e, b) PROVE HrefInv'
  BY <1>14, TurnHrefs DEF FailFetch, NextTurn, Working
<1>15. ASSUME NEW size \in 0 .. PerFetch, NEW v \in Versions, NEW m \in BOOLEAN, Receive(size, v, m)
       PROVE  HrefInv'
  <2>1. phase = "fetching" /\ UNCHANGED <<queue, visited>>
    BY <1>15 DEF Receive
  <2>2. CASE NextTurn
    <3>1. UNCHANGED docs \/ docs' = Append(docs, [href |-> cur.href, content |-> TRUE])
      BY <1>15, <2>2 DEF Receive
    <3> QED
      BY <2>1, <2>2, <3>1, TurnHrefs DEF NextTurn, Working
  <2>3. CASE ~NextTurn
    BY <1>15, <1>a, <2>1, <2>3 DEF Receive, Working
  <2> QED
    BY <2>2, <2>3
<1>16. ASSUME NEW w \in BOOLEAN, NEW o, Extract(o, w) PROVE HrefInv'
  <2>1. CASE Keep(o = "ok", "http", w)
    <3>1. (o = "ok") \in BOOLEAN /\ "http" \in Methods /\ phase \in Working
      BY <1>16 DEF Methods, Working, Extract
    <3> QED
      BY <2>1, <3>1, KeepHrefs
  <2>2. CASE ~Keep(o = "ok", "http", w)
    BY <1>16, <1>a, <2>2 DEF Extract, Working
  <2> QED
    BY <2>1, <2>2
<1>17. ASSUME NEW w \in BOOLEAN, NEW dom \in 1 .. MaxDom, Render(dom, w)
       PROVE  HrefInv'
  <2>1. CASE Keep(FALSE, "http", w)
    BY <1>17, <2>1, KeepHrefs DEF Render, Methods, Working
  <2>2. CASE ~Keep(FALSE, "http", w)
    BY <1>17, <1>a, <2>2 DEF Render, Working
  <2> QED
    BY <2>1, <2>2
<1>18. ASSUME NEW w \in BOOLEAN, NEW e, RenderFails(e, w) PROVE HrefInv'
  BY <1>18, KeepHrefs DEF RenderFails, Methods, Working
<1>19. ASSUME NEW w \in BOOLEAN, NEW o, ReExtract(o, w) PROVE HrefInv'
  <2>1. (o = "ok") \in BOOLEAN /\ "rendered" \in Methods /\ phase \in Working
    BY <1>19 DEF Methods, Working, ReExtract
  <2> QED
    BY <1>19, <2>1, KeepHrefs DEF ReExtract
<1>20. ASSUME NEW n \in 0 .. 2, NEW r \in BOOLEAN, NEW k \in BOOLEAN, NEW d \in BOOLEAN, Analyze(n, r, k, d)
       PROVE  HrefInv'
  BY <1>20, <1>a DEF Analyze, Working
<1>21. ASSUME NEW r, SkipSubquery(r) PROVE HrefInv'
  BY <1>21, <1>a DEF SkipSubquery, Working
<1>22. ASSUME NEW rs \in Answers, Expand(rs) PROVE HrefInv'
  BY <1>22, <1>a DEF Expand, Working
<1> QED
  BY <1>1, <1>2, <1>3, <1>4, <1>5, <1>6, <1>7, <1>8, <1>9, <1>10, <1>11, <1>12,
     <1>13, <1>14, <1>15, <1>16, <1>17, <1>18, <1>19, <1>20, <1>21, <1>22, Steps, Zenon

\* No href is enriched twice, however the pages link to one another, whatever they
\* redirect to and however often a refused fetch returns its slot.
THEOREM HrefsOnce == Spec => []OncePerHref
<1>1. Init => HrefInv
  <2> SUFFICES ASSUME Init PROVE HrefInv
    OBVIOUS
  <2>1. queue = Seeds /\ docs = <<>> /\ phase = "loop" /\ visited = {Seeds[i].href : i \in DOMAIN Seeds}
    BY DEF Init
  <2>2. DOMAIN docs = {} /\ phase \notin Working
    BY <2>1 DEF Working
  <2>3. ASSUME NEW i \in DOMAIN Seeds, NEW j \in DOMAIN Seeds, Seeds[i].href = Seeds[j].href
        PROVE  i = j
    <3>1. Candidates[i] = Candidates[j] /\ i \in DOMAIN Candidates /\ j \in DOMAIN Candidates
      <4>1. Seeds[i].href = <<Candidates[i], "">> /\ Seeds[j].href = <<Candidates[j], "">>
        BY SeedsIs
      <4>2. i \in DOMAIN Candidates /\ j \in DOMAIN Candidates
        BY SeedsIs
      <4>3. <<Candidates[i], "">> = <<Candidates[j], "">>
        BY <2>3, <4>1
      <4>4. <<Candidates[i], "">>[1] = <<Candidates[j], "">>[1]
        BY <4>3, Zenon
      <4> QED
        BY <4>2, <4>4
    <3> QED
      BY <3>1, DeepLimits
  <2> QED
    BY <2>1, <2>2, <2>3 DEF HrefInv
<1>2. HrefInv => OncePerHref
  BY DEF HrefInv, OncePerHref
<1> QED
  BY <1>1, <1>2, HrefStep, DeepTypes, PTL DEF Spec

----------------------------------------------------------------------------
(* Politeness.                                                              *)

Here == Host[cur.page]

\* A wait that began after the last contact ends a crawl delay after it.
SpacedInv ==
  /\ \A h \in Hosts : contact[h] <= now
  /\ phase = "polite" => until - contact[Here] >= robots[Here].delay
  /\ phase = "reserving" /\ cur.depth > 0 /\ RespectRobots =>
       now - contact[Here] >= robots[Here].delay

LEMMA HostTypes ==
  ASSUME TypeOK
  PROVE  /\ Here \in Hosts /\ now \in Nat /\ until \in Nat /\ robots[Here].delay \in Nat
         /\ contact[Here] \in Int /\ \A h \in Hosts : contact[h] \in Int
<1>1. cur.page \in Pages
  BY DEF TypeOK, Items
<1>2. Here \in Hosts
  BY <1>1, DeepLimits DEF Here
<1> QED
  BY <1>2 DEF TypeOK, Never

LEMMA SpacedStep == TypeOK /\ SpacedInv /\ [Next]_vars => SpacedInv'
<1> SUFFICES ASSUME TypeOK, SpacedInv, [Next]_vars PROVE SpacedInv'
  OBVIOUS
<1> USE DEF crawl, ahead, subs, seen
<1>a. /\ Here \in Hosts /\ now \in Nat /\ until \in Nat /\ robots[Here].delay \in Nat
      /\ contact[Here] \in Int /\ \A h \in Hosts : contact[h] \in Int
  BY HostTypes
<1>b. ASSUME UNCHANGED <<now, contact>>, phase' \notin {"polite", "reserving"} PROVE SpacedInv'
  BY <1>b DEF SpacedInv
<1>1. CASE Tick
  <2>1. /\ now' = now + 1 /\ UNCHANGED <<contact, phase, until, robots, cur>>
        /\ phase # "reserving"
    BY <1>1 DEF Tick, Awaiting
  <2>2. \A h \in Hosts : contact[h] <= now + 1
    BY <1>a DEF SpacedInv
  <2> QED
    BY <2>1, <2>2 DEF SpacedInv, Here
<1>2. CASE Pop
  <2>1. /\ UNCHANGED <<now, contact>> /\ phase' # "polite"
        /\ phase' = "reserving" => cur'.depth = 0 \/ ~RespectRobots
    BY <1>2 DEF Pop
  <2> QED
    BY <2>1 DEF SpacedInv
<1>3. CASE Judge
  <2> DEFINE delay == robots[Here].delay
  <2>1. /\ UNCHANGED <<now, contact, robots>>
        /\ \/ phase' = "loop"
           \/ phase' = "reserving" /\ delay = 0 /\ UNCHANGED cur
           \/ phase' = "polite" /\ until' = now + delay /\ UNCHANGED cur
    BY <1>3 DEF Judge, NextTurn, Here
  <2>2. contact[Here] <= now
    BY <1>a DEF SpacedInv
  <2>3. phase' # "loop" => Here' = Here
    BY <2>1 DEF Here
  <2>4. \A h \in Hosts : contact'[h] <= now'
    BY <2>1 DEF SpacedInv
  <2>5. phase' # "loop" => contact'[Here'] = contact[Here] /\ robots'[Here'].delay = delay
    BY <2>1, <2>3
  <2> HIDE DEF delay
  <2>6. delay \in Nat
    BY <1>a DEF delay
  <2> QED
    BY <1>a, <2>1, <2>2, <2>4, <2>5, <2>6 DEF SpacedInv
<1>4. CASE Polite
  <2>1. now = until /\ phase = "polite" /\ phase' = "reserving"
        /\ UNCHANGED <<now, contact, robots, cur>>
    BY <1>4 DEF Polite
  <2> QED
    BY <2>1 DEF SpacedInv, Here
<1>5. CASE EndCrawl
  <2>1. contact' = [h \in Hosts |-> Never] /\ now' = now /\ phase' = "ranking"
    BY <1>5 DEF EndCrawl
  <2> QED
    BY <1>a, <2>1 DEF SpacedInv, Never
<1>6. CASE StartFetch
  <2>1. contact' = [contact EXCEPT ![Here] = now] /\ now' = now /\ phase' = "fetching"
    BY <1>6 DEF StartFetch, Here
  <2>2. \A h \in Hosts : contact'[h] <= now'
    BY <1>a, <2>1 DEF SpacedInv, TypeOK
  <2> QED
    BY <2>1, <2>2 DEF SpacedInv
<1>7. CASE Refuse
  BY <1>7, <1>b DEF Refuse, NextTurn, Keep
<1>8. CASE Launch
  BY <1>8, <1>b DEF Launch, NextTurn, Keep
<1>9. CASE SubqueryFails
  BY <1>9, <1>b DEF SubqueryFails, NextTurn, Keep
<1>10. CASE Finish
  BY <1>10, <1>b DEF Finish, NextTurn, Keep
<1>11. CASE UNCHANGED vars
  BY <1>11 DEF vars, SpacedInv, Here
<1>12. ASSUME NEW g \in {Parse(f) : f \in Files} \cup {AllowAll, Unavailable}, RobotsAnswer(g)
       PROVE  SpacedInv'
  BY <1>12, <1>b DEF RobotsAnswer, NextTurn, Keep
<1>13. ASSUME NEW p \in Pages, Redirect(p) PROVE SpacedInv'
  <2>1. contact' = [contact EXCEPT ![Host[p]] = now] /\ now' = now /\ phase' = "fetching"
    BY <1>13 DEF Redirect
  <2>2. \A h \in Hosts : contact'[h] <= now'
    BY <1>a, <2>1 DEF SpacedInv, TypeOK
  <2> QED
    BY <2>1, <2>2 DEF SpacedInv
<1>14. ASSUME NEW e, NEW b \in 0 .. MostSent, FailFetch(e, b) PROVE SpacedInv'
  BY <1>14, <1>b DEF FailFetch, NextTurn, Keep
<1>15. ASSUME NEW size \in 0 .. PerFetch, NEW v \in Versions, NEW m \in BOOLEAN, Receive(size, v, m)
       PROVE  SpacedInv'
  BY <1>15, <1>b DEF Receive, NextTurn, Keep
<1>16. ASSUME NEW w \in BOOLEAN, NEW o, Extract(o, w) PROVE SpacedInv'
  BY <1>16, <1>b DEF Extract, NextTurn, Keep
<1>17. ASSUME NEW w \in BOOLEAN, NEW dom \in 1 .. MaxDom, Render(dom, w)
       PROVE  SpacedInv'
  BY <1>17, <1>b DEF Render, NextTurn, Keep
<1>18. ASSUME NEW w \in BOOLEAN, NEW e, RenderFails(e, w) PROVE SpacedInv'
  BY <1>18, <1>b DEF RenderFails, NextTurn, Keep
<1>19. ASSUME NEW w \in BOOLEAN, NEW o, ReExtract(o, w) PROVE SpacedInv'
  BY <1>19, <1>b DEF ReExtract, NextTurn, Keep
<1>20. ASSUME NEW n \in 0 .. 2, NEW r \in BOOLEAN, NEW k \in BOOLEAN, NEW d \in BOOLEAN, Analyze(n, r, k, d)
       PROVE  SpacedInv'
  BY <1>20, <1>b DEF Analyze, NextTurn, Keep
<1>21. ASSUME NEW r, SkipSubquery(r) PROVE SpacedInv'
  BY <1>21, <1>b DEF SkipSubquery, NextTurn, Keep
<1>22. ASSUME NEW rs \in Answers, Expand(rs) PROVE SpacedInv'
  BY <1>22, <1>b DEF Expand, NextTurn, Keep
<1> QED
  BY <1>1, <1>2, <1>3, <1>4, <1>5, <1>6, <1>7, <1>8, <1>9, <1>10, <1>11, <1>12,
     <1>13, <1>14, <1>15, <1>16, <1>17, <1>18, <1>19, <1>20, <1>21, <1>22, Steps, Zenon

\* A discovered page is not requested before its origin's crawl delay has passed
\* since the last request to that host, a redirect's included.
THEOREM VisitsAreSpaced == Spec => SpacedVisits
<1>1. Init => SpacedInv
  BY DEF Init, SpacedInv, Never
<1>2. TypeOK /\ SpacedInv /\ [Next]_vars =>
        [(phase = "reserving" /\ phase' = "fetching" /\ cur.depth > 0 /\ RespectRobots) =>
           LET h == Host[cur.page] IN
           contact[h] = Never \/ now - contact[h] >= robots[h].delay]_vars
  BY DEF SpacedInv, Here
<1> QED
  BY <1>1, <1>2, SpacedStep, DeepTypes, PTL DEF Spec, SpacedVisits

=============================================================================
