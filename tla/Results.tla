------------------------------- MODULE Results -------------------------------
(***************************************************************************)
(* The result pipeline (execution.rs run_pipeline): the answers of the     *)
(* providers, in the order they arrived, are normalised, canonicalised,    *)
(* deduplicated, ranked, adjusted and diversified; search_inner then cuts  *)
(* the page that was asked for.  Every page is a whole execution: a new    *)
(* plan with a reference time, a routing and an arrival order of its own,  *)
(* so the answers, the time and the optics may differ from page to page.   *)
(* Scores are integers: One stands for 1.0 before the weights of           *)
(* RankingPolicyV1 (in hundredths) are applied; they are exact for three   *)
(* providers with two items each, and rounded down beyond.                 *)
(***************************************************************************)
EXTENDS Subsequences, SequencesExt, FiniteSetsExt

CONSTANTS
  Providers,     \* provider names, as integers in their alphabetical order
  Primary,       \* the providers with the PRIMARY role; the others are EXPANSION
  Listings,      \* Listings[p]: the lists provider p may answer with
  Optics,        \* the optics documents an operator may have written
  TrackerHosts,  \* the bundled tracker domains
  PageSizes,     \* the page sizes callers ask for
  MaxPageSize, MaxPerDomain, MaxPerProvider, MaxPerType,
  MaxChanges     \* how often what an execution is given changes under one reader

\* What a provider may list: a title or a date of 0 is absent; dates count
\* half-lives of the freshness policy.
Items == [valid : BOOLEAN, host : Int, path : Int, tracked : BOOLEAN, title : Nat,
          snippet : Nat, date : Nat, type : STRING]

\* A rule of an optics document: what its patterns match, and its multiplier in
\* hundredths.
Rules == [hosts : SUBSET Int, titles : SUBSET Nat, urls : SUBSET (Int \X Int), percent : Nat]

ASSUME ResultsAssumption ==
  /\ Providers \subseteq Int /\ IsFiniteSet(Providers) /\ Primary \subseteq Providers
  /\ \A p \in Providers : Listings[p] \subseteq Seq(Items)
  /\ Optics \subseteq [rules : Seq(Rules), discard : BOOLEAN]
  /\ PageSizes \subseteq Nat /\ MaxChanges \in Nat
  /\ {MaxPageSize, MaxPerDomain, MaxPerProvider, MaxPerType} \subseteq Nat \ {0}

VARIABLES
  question,  \* the page size asked for, and what an execution that starts now is given
  pages      \* the pages served so far; from: what the execution was given (auxiliary)

resultsVars == <<question, pages>>

NoQuestion == [asked |-> FALSE]

\* The optics document of a file that is missing or does not parse, and of one
\* that declares nothing.
NoOptics == [rules |-> <<>>, discard |-> FALSE]

\* Lexicographic order of two tuples of integers of the same length.
Precedes(a, b) ==
  \E i \in DOMAIN a : a[i] < b[i] /\ \A j \in 1 .. i - 1 : a[j] = b[j]

\* The element of S with the least key.
Least(S, key) == CHOOSE x \in S : \A y \in S \ {x} : Precedes(key[x], key[y])

\* The elements of S in the order of their keys, no two of which are equal.
Sorted(S, key) ==
  [k \in 1 .. Cardinality(S) |->
     CHOOSE x \in S : Cardinality({y \in S : Precedes(key[y], key[x])}) = k - 1]

----------------------------------------------------------------------------
(* normalize, canonicalize.                                                 *)

\* One answer: an item whose URL breaks the contract is discarded, the others
\* keep the provider and the rank it gave them.
Normalized(p, list) ==
  LET ranked == [i \in DOMAIN list |-> [item |-> list[i], provider |-> p, rank |-> i]]
  IN Picked(ranked, {i \in DOMAIN list : list[i].valid})

\* Tracking parameters do not count for identity.
Canonicalize(item) == <<item.host, item.path>>

----------------------------------------------------------------------------
(* deduplicate.                                                             *)

\* Mutant: a group is represented by the result that arrived first.
ArrivalOrder(arrived, i) == <<i>>

\* The order in which a group looks for its representative: with a title, with
\* a snippet, the newest, the smallest original URL, the first provider.
RepresentativeOrder(arrived, i) ==
  LET item == arrived[i].item
  IN <<IF item.title > 0 THEN 0 ELSE 1, IF item.snippet > 0 THEN 0 ELSE 1, -item.date,
       IF item.tracked THEN 1 ELSE 0, arrived[i].provider, i>>

\* merge_confirmed_group: the best rank of each provider, the representative's
\* fields.
Merged(arrived, url) ==
  LET group == {i \in DOMAIN arrived : Canonicalize(arrived[i].item) = url}
      best == arrived[Least(group, [i \in group |-> RepresentativeOrder(arrived, i)])]
      providers == {arrived[i].provider : i \in group}
  IN [url |-> url, item |-> best.item, representative |-> best.provider,
      providers |-> providers,
      ranks |-> [p \in providers |->
                   Min({arrived[i].rank : i \in {j \in group : arrived[j].provider = p}})]]

\* One result per canonical URL, in the order of the URLs.
Deduplicate(arrived) ==
  LET urls == {Canonicalize(arrived[i].item) : i \in DOMAIN arrived}
      inOrder == Sorted(urls, [url \in urls |-> url])
  IN [k \in DOMAIN inOrder |-> Merged(arrived, inOrder[k])]

\* title_similarity: two hosts under the same title, which is long enough.
PossibleDuplicates(a, b) ==
  a.item.host # b.item.host /\ a.item.title = b.item.title /\ a.item.title > 0

----------------------------------------------------------------------------
(* rank.                                                                    *)

One == 14880  \* a multiple of 62 * 6 * 40: two ranks, three providers, halves

\* The mean over the providers' ranks of (k + 1) / (k + rank), with k = 60, in
\* the order of the providers.
Rrf(result) ==
  LET share == One \div Cardinality(result.providers)
      names == Sorted(result.providers, [p \in result.providers |-> <<p>>])
      sum[n \in 0 .. Len(names)] ==
        IF n = 0 THEN 0 ELSE sum[n - 1] + (share * 61) \div (60 + result.ranks[names[n]])
  IN sum[Len(names)]

\* Coverage of the query's two tokens; without quoted phrases it is worth 0.85.
TextMatch(tokens) == (One \div 40) * 17 * tokens

\* Halved for every half-life between the date and the plan's reference time;
\* a date to come is as good as today's, an absent one is worth nothing.
Freshness(date, today) ==
  LET age == IF today > date THEN today - date ELSE 0
      halved[n \in 0 .. age] == IF n = 0 THEN One ELSE halved[n - 1] \div 2
  IN IF date = 0 THEN 0 ELSE halved[age]

Agreement(providers, active) ==
  IF active <= 1 THEN 0 ELSE (One * (Cardinality(providers) - 1)) \div (active - 1)

\* Tokens of the query in a title; the two titles of the same text hold both.
TitleTokens(item) == IF item.title > 2 THEN 2 ELSE item.title

Score(result, active, today) ==
  35 * Rrf(result) + 30 * TextMatch(TitleTokens(result.item))
  + 15 * TextMatch(result.item.snippet) + 10 * Freshness(result.item.date, today)
  + 10 * Agreement(result.providers, active)

\* Descending score, descending title match, then the order of the URLs.
Ordered(scored) ==
  LET places == Sorted(DOMAIN scored, [i \in DOMAIN scored |->
                  <<-scored[i].score, -TitleTokens(scored[i].item), scored[i].stable>>])
  IN [k \in DOMAIN places |-> scored[places[k]]]

Rank(deduped, active, today) ==
  Ordered([i \in DOMAIN deduped |->
    [url |-> deduped[i].url, item |-> deduped[i].item, providers |-> deduped[i].providers,
     stable |-> i, score |-> Score(deduped[i], active, today)]])

----------------------------------------------------------------------------
(* apply_adjustments.                                                       *)

Clamped(score) == IF score > 100 * One THEN 100 * One ELSE score

\* The multipliers of an action, a tenth per step; Downrank has a floor.
Boost(n) == 100 + 10 * n
Downrank(n) == Max({100 - 10 * n, 1})

FieldMatches(rule, result) ==
  \/ result.item.host \in rule.hosts
  \/ result.item.title \in rule.titles
  \/ result.url \in rule.urls

\* multiplier_for: the rules that match; every one of them multiplies.
Matching(document, result) ==
  {n \in DOMAIN document.rules : FieldMatches(document.rules[n], result)}

Adjusted(document, result) ==
  LET penalised == IF result.item.host \in TrackerHosts THEN (result.score * 5) \div 100
                   ELSE result.score
      scaled[n \in 0 .. Len(document.rules)] ==
        IF n = 0 THEN penalised
        ELSE IF n \in Matching(document, result)
             THEN (scaled[n - 1] * document.rules[n].percent) \div 100
             ELSE scaled[n - 1]
  IN [result EXCEPT !.score = Clamped(scaled[Len(document.rules)])]

ApplyAdjustments(ranked, document) ==
  LET kept == IF document.discard
              THEN Picked(ranked, {i \in DOMAIN ranked : Matching(document, ranked[i]) # {}})
              ELSE ranked
  IN Ordered([i \in DOMAIN kept |-> Adjusted(document, kept[i])])

----------------------------------------------------------------------------
(* diversify.                                                               *)

\* The groups of a result that can be full, and membership in a group.
Groups(r) ==
  {<<"domain", r.item.host>>, <<"type", r.item.type>>} \cup {<<"provider", p>> : p \in r.providers}
InGroup(r, group) == group \in Groups(r)
Limit(group) ==
  CASE group[1] = "domain" -> MaxPerDomain
    [] group[1] = "type" -> MaxPerType
    [] group[1] = "provider" -> MaxPerProvider

\* The next result of the group scores at least 15% less.
Overrides(ranked, i, group) ==
  LET after == {j \in i + 1 .. Len(ranked) : InGroup(ranked[j], group)}
  IN after # {} /\ ranked[i].score * 100 >= ranked[Min(after)].score * 115

\* Every result stays in its place; beyond a limit it is relegated, unless it
\* is much better than the next of each full group.
Diversify(ranked) ==
  LET visible[n \in 0 .. Len(ranked)] ==
        IF n = 0 THEN {}
        ELSE LET shown(g) == Cardinality({j \in visible[n - 1] : InGroup(ranked[j], g)})
                 exceeded == {g \in Groups(ranked[n]) : shown(g) >= Limit(g)}
             IN visible[n - 1] \cup
                  (IF \A g \in exceeded : Overrides(ranked, n, g) THEN {n} ELSE {})
      places == visible[Len(ranked)]
  IN [i \in DOMAIN ranked |->
       [url |-> ranked[i].url, item |-> ranked[i].item, providers |-> ranked[i].providers,
        visible |-> i \in places]]

----------------------------------------------------------------------------
(* compute_complementarity_metrics.                                         *)

Complementarity(deduped) ==
  LET all == ToSet(deduped)
      primary == {r \in all : r.providers \cap Primary # {}}
      expansion == {r \in all : r.providers \ Primary # {}}
      hosts(S) == {r.item.host : r \in S}
  IN [foundPrimary |-> Cardinality(primary), foundExpansion |-> Cardinality(expansion),
      overlap |-> Cardinality(primary \cap expansion),
      uniquePrimary |-> Cardinality(primary \ expansion),
      uniqueExpansion |-> Cardinality(expansion \ primary),
      possible |-> Cardinality({r \in primary \ expansion :
                      \E s \in expansion \ primary : PossibleDuplicates(r, s)}),
      newDomains |-> Cardinality(hosts(expansion) \ hosts(primary)),
      domains |-> Cardinality(hosts(all))]

----------------------------------------------------------------------------
(* run_pipeline and search_inner.                                           *)

\* The answers in the order of arrival, joined.
Arrived(lists, order) ==
  FlattenSeq([n \in DOMAIN order |-> Normalized(order[n], lists[order[n]])])

\* given: the lists, the optics document and the reference time.
RunPipeline(given, order) ==
  LET arrived == Arrived(given.lists, order)
      active == Cardinality({arrived[i].provider : i \in DOMAIN arrived})
      deduped == Deduplicate(arrived)
      ranked == Rank(deduped, active, given.today)
  IN [results |-> Diversify(ApplyAdjustments(ranked, given.optics)),
      metrics |-> Complementarity(deduped)]

\* The page size a caller gets.
PageSize(wanted) == Max({1, Min({wanted, MaxPageSize})})

\* The window of page n, from 0, over the whole list.
Window(results, n, size) ==
  SubSeq(results, n * size + 1, Min({(n + 1) * size, Len(results)}))

----------------------------------------------------------------------------
\* What the providers may answer together: one that is not selected, is left
\* out by coverage or refused by its circuit, fails or finds nothing adds
\* nothing.
Offers ==
  {lists \in [Providers -> UNION {Listings[p] : p \in Providers}] :
     \A p \in Providers : lists[p] \in Listings[p]}

ResultsInit == question = NoQuestion /\ pages = <<>>

\* parse_optics: the whole file is one document, or there is none.
ParseOptics(document, wellFormed) == IF wellFormed THEN document ELSE NoOptics

\* load_optics: a file that cannot be read counts as one that does not parse.
LoadOptics(document, readable, wellFormed) ==
  IF readable THEN ParseOptics(document, wellFormed) ELSE NoOptics

\* A reader asks for the first page of a query, on day 2.
Ask ==
  /\ question = NoQuestion
  /\ \E lists \in Offers, wanted \in PageSizes, d \in Optics,
        readable \in BOOLEAN, wellFormed \in BOOLEAN :
       question' = [asked |-> TRUE, size |-> PageSize(wanted), changes |-> 0,
                    given |-> [lists |-> lists, today |-> 2,
                               optics |-> LoadOptics(d, readable, wellFormed)]]
  /\ UNCHANGED pages

\* The next execution will be given something else than the last one.
Becomes(given) ==
  /\ question.asked /\ question.changes < MaxChanges
  /\ question' = [question EXCEPT !.given = given, !.changes = @ + 1]
  /\ UNCHANGED pages

\* A provider answers differently, or is now selected, left out, refused by its
\* circuit or failing.
AnswerChanges(p) ==
  \E list \in Listings[p] : Becomes([question.given EXCEPT !.lists[p] = list])

\* The next plan takes a later reference time.
TimePasses == Becomes([question.given EXCEPT !.today = @ + 1])

\* A reload reads the optics file again.
ReloadOptics ==
  \E d \in Optics, readable \in BOOLEAN, wellFormed \in BOOLEAN :
    Becomes([question.given EXCEPT !.optics = LoadOptics(d, readable, wellFormed)])

\* search_paginated for the next page, with the answers in some order.
ServePage(order) ==
  LET run == RunPipeline(question.given, order)
  IN
  /\ question.asked
  /\ pages # <<>> => Last(pages).results # <<>>
  /\ pages' = Append(pages, [results |-> Window(run.results, Len(pages), question.size),
                             total |-> Len(run.results), metrics |-> run.metrics,
                             from |-> question.given])
  /\ UNCHANGED question

\* The reader has seen the empty page past the end.
StopReading ==
  /\ pages # <<>> /\ Last(pages).results = <<>>
  /\ question' = NoQuestion /\ pages' = <<>>

ResultsNext ==
  \/ Ask
  \/ \E p \in Providers : AnswerChanges(p)
  \/ TimePasses
  \/ ReloadOptics
  \/ \E order \in SetToSeqs(Providers) : ServePage(order)
  \/ StopReading

ResultsSpec == ResultsInit /\ [][ResultsNext]_resultsVars

----------------------------------------------------------------------------
\* The arrival order the property compares with.
Alphabetical == Sorted(Providers, [p \in Providers |-> <<p>>])

\* The URLs of the valid items of all lists.
OfferedUrls(lists) ==
  UNION {{Canonicalize(lists[p][i]) : i \in {j \in DOMAIN lists[p] : lists[p][j].valid}} :
         p \in Providers}

\* "Every page is served from a full execution, so `page` selects a window over
\* the ranked result set and total_results always describes the whole set":
\* whatever order the answers arrived in, a page is its window of the one list
\* that its own inputs determine, with that list's total and metrics.  Pages
\* read while answers, time and optics stay the same are consecutive pieces of
\* one list: no result is skipped or shown twice, and every valid item of every
\* provider stands in exactly one result unless the optics discard it.  Pages
\* whose inputs differ may skip or repeat a result.
PagesPartition ==
  (pages # <<>>) =>
    LET run(i) == RunPipeline(pages[i].from, Alphabetical)
        read == FlattenSeq([i \in DOMAIN pages |-> pages[i].results])
    IN /\ \A i \in DOMAIN pages :
            /\ pages[i].results = Window(run(i).results, i - 1, question.size)
            /\ pages[i].total = Len(run(i).results) /\ pages[i].metrics = run(i).metrics
       /\ (\A i \in DOMAIN pages : pages[i].from = pages[1].from) =>
            /\ read = SubSeq(run(1).results, 1, Len(read))
            /\ Last(pages).results = <<>> =>
                 /\ Len(read) = Len(run(1).results)
                 /\ Cardinality({read[i].url : i \in DOMAIN read}) = Len(read)
                 /\ ~pages[1].from.optics.discard =>
                      {read[i].url : i \in DOMAIN read} = OfferedUrls(pages[1].from.lists)
=============================================================================
