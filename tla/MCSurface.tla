------------------------------ MODULE MCSurface ------------------------------
(***************************************************************************)
(* The seven parts around the search, checked side by side: each explores  *)
(* its own behaviours while the others rest in their initial state, so the *)
(* state spaces add up.  They share no variable.                           *)
(***************************************************************************)
EXTENDS Outbound, MCAnswers, Embeddings, Relevance, Results, Access, Settings

Item(valid, host, path, tracked, title, snippet, date, type) ==
  [valid |-> valid, host |-> host, path |-> path, tracked |-> tracked, title |-> title,
   snippet |-> snippet, date |-> date, type |-> type]

\* One page under three guises, another page of its host, a page of a tracker,
\* a page with the title of the first, and an item with a bad URL.
Page == Item(TRUE, 1, 1, FALSE, 1, 0, 0, "web")
PageTracked == Item(TRUE, 1, 1, TRUE, 3, 1, 2, "web")
PageUntitled == Item(TRUE, 1, 1, FALSE, 0, 2, 1, "news")
Sibling == Item(TRUE, 1, 2, FALSE, 2, 2, 0, "web")
Tracker == Item(TRUE, 2, 1, FALSE, 2, 2, 1, "web")
Twin == Item(TRUE, 3, 1, FALSE, 3, 0, 0, "news")
Bad == Item(FALSE, 3, 2, FALSE, 1, 1, 1, "web")

MCListings ==
  <<{<<>>, <<Page, Sibling>>, <<PageTracked>>, <<Sibling, PageTracked>>, <<Sibling>>},
    {<<>>, <<PageUntitled>>, <<Tracker, PageTracked>>, <<Bad, PageUntitled>>, <<Tracker>>},
    {<<>>, <<Page>>, <<Twin>>}>>

\* A rule on a host, one on hosts and titles, and one on a URL.
MCOptics ==
  {[rules |-> <<[hosts |-> {3}, titles |-> {}, urls |-> {}, percent |-> Boost(3)],
                [hosts |-> {1}, titles |-> {3}, urls |-> {}, percent |-> Downrank(4)],
                [hosts |-> {}, titles |-> {}, urls |-> {<<1, 2>>}, percent |-> Boost(1)]>>,
    discard |-> TRUE]}

\* All scopes; a reader whose credential ends on day 0; an agent with the same
\* token as the reader; a client whose secret is missing.
Credential(token, scopes, expires, tools) ==
  [token |-> token, scopes |-> scopes, expires |-> expires, lastDay |-> 0, tools |-> tools]
Operator == Credential("t0", Scopes, FALSE, Tools)
Reader == Credential("t1", {"read"}, TRUE, {})
Agent == Credential("t1", {"mcp"}, FALSE, {"search"})
Secretless == Credential("t9", Scopes, FALSE, Tools)

MCServerConfigs ==
  {[noAuth |-> TRUE, declared |-> <<>>],
   [noAuth |-> FALSE, declared |-> <<Secretless>>],
   [noAuth |-> FALSE, declared |-> <<Operator, Secretless, Reader>>],
   [noAuth |-> FALSE, declared |-> <<Reader, Agent>>]}

MCFirstConfig == [noAuth |-> FALSE, declared |-> <<Operator, Secretless, Reader>>]

Symmetry == Permutations(Spaces) \cup Permutations(Inputs) \cup Permutations(Runtimes)

----------------------------------------------------------------------------
VARIABLE part  \* the part that moves

Init ==
  /\ part \in {"outbound", "answers", "embeddings", "relevance", "results", "access",
               "settings"}
  /\ OutboundInit /\ AnswersInit /\ EmbeddingsInit /\ RelevanceInit
  /\ ResultsInit /\ AccessInit /\ SettingsInit

Next ==
  \/ /\ part = "outbound" /\ OutboundNext
     /\ UNCHANGED <<part, answersVars, embeddingsVars, relevanceVars,
                    resultsVars, accessVars, settingsVars>>
  \/ /\ part = "answers" /\ AnswersNext
     /\ UNCHANGED <<part, outboundVars, embeddingsVars, relevanceVars,
                    resultsVars, accessVars, settingsVars>>
  \/ /\ part = "embeddings" /\ EmbeddingsNext
     /\ UNCHANGED <<part, outboundVars, answersVars, relevanceVars,
                    resultsVars, accessVars, settingsVars>>
  \/ /\ part = "relevance" /\ RelevanceNext
     /\ UNCHANGED <<part, outboundVars, answersVars, embeddingsVars,
                    resultsVars, accessVars, settingsVars>>
  \/ /\ part = "results" /\ ResultsNext
     /\ UNCHANGED <<part, outboundVars, answersVars, embeddingsVars,
                    relevanceVars, accessVars, settingsVars>>
  \/ /\ part = "access" /\ AccessNext
     /\ UNCHANGED <<part, outboundVars, answersVars, embeddingsVars,
                    relevanceVars, resultsVars, settingsVars>>
  \/ /\ part = "settings" /\ SettingsNext
     /\ UNCHANGED <<part, outboundVars, answersVars, embeddingsVars,
                    relevanceVars, resultsVars, accessVars>>

Spec ==
  Init /\ [][Next]_<<part, outboundVars, answersVars, embeddingsVars, relevanceVars,
                     resultsVars, accessVars, settingsVars>>
=============================================================================
