------------------------------ MODULE Relevance ------------------------------
(***************************************************************************)
(* The relevance signal of one result (relevance.rs and                    *)
(* relevance_semantics.rs): what the texts show, read into the semantic    *)
(* assessment, and the ladder of conditions that turns both into a label.  *)
(* A text is reduced to counts of the query's significant terms, of which  *)
(* there are Terms, and to the facts the semantic layer looks for.         *)
(***************************************************************************)
EXTENDS Integers, FiniteSets

Terms == 4  \* significant terms of the query

VARIABLES
  texts,  \* the facts about a query and a result
  label   \* the classification they were given

relevanceVars == <<texts, label>>

Intents == {"none", "factual_capital", "factual_attribution", "documentation"}
Labels == {"relevant", "possibly", "not", "unknown"}

\* Terms that only their stem finds in the texts, and concepts under whose
\* names the query and the texts both have one: none or one of each.
StemMatches == {0, 1}
AliasMatches == {0, 1}

\* What the query and the texts of the result show.
Facts ==
  [quoted : BOOLEAN,       \* the query holds a quoted phrase
   phrase : BOOLEAN,       \* that phrase stands in the title or the snippet
   shape : Intents,        \* the shape of the query
   title : 0 .. Terms,     \* terms in the title
   wordy : BOOLEAN,        \* the title has two tokens or more
   hasSnippet : BOOLEAN,
   snippet : {0, 2, 4},    \* terms in the snippet
   url : {0, 2},           \* terms in the URL
   matched : 0 .. Terms,   \* terms in one of the three at least
   spelled : BOOLEAN,      \* the URL spells them in lower case, as the query does
   first : BOOLEAN,        \* some provider ranks it first
   stems : StemMatches,
   aliases : AliasMatches,
   subject : BOOLEAN,      \* enough terms of the intent's subject are there
   rival : BOOLEAN,        \* another known subject is in the title
   asserts : BOOLEAN,      \* the texts state the fact for the queried entity
   competes : BOOLEAN,     \* the texts state it for another one
   generic : BOOLEAN]      \* they name no entity and no capital, and match generic words only

Plain ==
  [quoted |-> FALSE, phrase |-> FALSE, shape |-> "none", title |-> 0, wordy |-> FALSE,
   hasSnippet |-> FALSE, snippet |-> 0, url |-> 0, matched |-> 0, spelled |-> FALSE,
   first |-> FALSE, stems |-> 0, aliases |-> 0, subject |-> FALSE, rival |-> FALSE,
   asserts |-> FALSE, competes |-> FALSE, generic |-> FALSE]

\* Facts that can be true of one query and one result.
Consistent(f) ==
  /\ f.phrase => f.quoted
  /\ f.snippet > 0 => f.hasSnippet
  /\ f.title > 1 => f.wordy
  /\ f.title <= f.matched /\ f.snippet <= f.matched /\ f.url <= f.matched
  /\ f.matched <= f.title + f.snippet + f.url
  /\ f.spelled => f.url > 0
  /\ f.shape = "none" => ~(f.subject \/ f.rival \/ f.asserts \/ f.competes)
  /\ f.shape # "factual_capital" => ~(f.competes \/ f.generic)
  /\ f.generic => ~(f.asserts \/ f.competes)
  /\ f.shape = "documentation" => ~f.asserts

----------------------------------------------------------------------------
(* assess_semantics.                                                        *)

\* Mutant: a quoted query has an intent too.
IntentOfShape(f) == f.shape

\* detect_intent: a quoted query keeps the lexical path.
DetectIntent(f) == IF f.quoted THEN "none" ELSE f.shape

SubjectMatch(f) == DetectIntent(f) # "none" /\ f.subject

\* For a capital the text may assert the fact for the entity and for another.
EntityMatch(f) ==
  CASE DetectIntent(f) = "factual_capital" -> f.asserts /\ ~f.competes
    [] DetectIntent(f) = "factual_attribution" -> f.asserts
    [] OTHER -> FALSE

SubjectMismatch(f) == DetectIntent(f) # "none" /\ ~f.subject /\ f.rival
EntityMismatch(f) == DetectIntent(f) = "factual_capital" /\ f.competes /\ ~f.asserts
Blocking(f) == EntityMismatch(f) \/ SubjectMismatch(f)

\* A generic word where a capital was asked for, or terms in the URL alone.
WeakGeneric(f) ==
  \/ DetectIntent(f) = "factual_capital" /\ f.generic
  \/ f.matched > 0 /\ f.title = 0 /\ f.snippet = 0 /\ f.spelled

----------------------------------------------------------------------------
(* assess_result, with the default thresholds.                              *)

SufficientText(f) == f.hasSnippet \/ f.wordy

\* title_cov + 0.5 * snippet_cov, in halves of a term.
Combined(f) == 2 * f.title + f.snippet

\* A coverage of at least the given percentage of the terms.
Covers(n, percent) == 100 * n >= percent * Terms

SemanticTerms(f) ==
  LET n == f.matched + f.stems + f.aliases IN IF n > Terms THEN Terms ELSE n

LexicalStrong(f) ==
  \/ Covers(f.title, 75)
  \/ Covers(Combined(f), 200)
  \/ Covers(f.snippet, 90) /\ f.matched >= 2

\* Coverage that makes a result possibly relevant.
Partial(f) == Covers(f.title, 40) \/ Covers(f.snippet, 40) \/ Covers(Combined(f), 80)

LexicalModerate(f) == ~LexicalStrong(f) /\ (Partial(f) \/ Covers(SemanticTerms(f), 50))

StrongRescue(f) ==
  /\ ~Blocking(f) /\ SubjectMatch(f)
  /\ f.aliases > 0 \/ EntityMatch(f) \/ Covers(SemanticTerms(f), 75)

\* intent_rescue_qualifies.
IntentRescue(f) ==
  LET supported == SubjectMatch(f) /\ (f.aliases > 0 \/ Covers(SemanticTerms(f), 60))
  IN CASE DetectIntent(f) = "none" -> FALSE
       [] DetectIntent(f) = "factual_attribution" -> EntityMatch(f)
       [] DetectIntent(f) = "factual_capital" -> EntityMatch(f) \/ supported
       [] OTHER -> supported

\* The evidence that is not enough for relevant, and not nothing.
Weak(f) ==
  \/ Partial(f)
  \/ Covers(f.url, 40) /\ f.matched > 0
  \/ f.first /\ f.matched > 0 /\ Combined(f) > 0
  \/ Covers(SemanticTerms(f), 50) /\ ~Blocking(f)
  \/ f.aliases > 0 /\ f.stems + f.matched >= 1 /\ ~Blocking(f)

\* demote_weak.
DemoteWeak(f) ==
  IF ~f.hasSnippet THEN "unknown"
  ELSE IF Covers(Combined(f), 100) /\ Combined(f) # Terms THEN "possibly" ELSE "not"

\* The ladder of assess_result.
Classification(f) ==
  CASE ~SufficientText(f) -> "unknown"
    [] SufficientText(f) /\ f.phrase -> "relevant"
    [] OTHER ->
       IF LexicalStrong(f) /\ Blocking(f) THEN IF f.hasSnippet THEN "possibly" ELSE "unknown"
       ELSE IF LexicalStrong(f) \/ (LexicalModerate(f) /\ StrongRescue(f)) THEN "relevant"
       ELSE IF ~Blocking(f) /\ IntentRescue(f) THEN "relevant"
       ELSE IF Weak(f) THEN IF Blocking(f) \/ WeakGeneric(f) THEN DemoteWeak(f) ELSE "possibly"
       ELSE IF ~f.hasSnippet THEN "unknown"
       ELSE IF 200 * Terms >= 400 * Combined(f) THEN "not" ELSE "possibly"

----------------------------------------------------------------------------
RelevanceInit == texts = Plain /\ label = "unknown"

Assess(f) ==
  /\ Consistent(f)
  /\ texts' = f
  /\ label' = Classification(f)

Forgotten == texts' = Plain /\ label' = "unknown"

RelevanceNext == (texts = Plain /\ \E f \in Facts : Assess(f)) \/ (texts # Plain /\ Forgotten)

RelevanceSpec == RelevanceInit /\ [][RelevanceNext]_relevanceVars

----------------------------------------------------------------------------
\* A result is called relevant only with enough text to judge and with no
\* contradiction of the subject or the entity asked for, although a quoted
\* phrase is accepted before the contradictions are looked at; and an alias or
\* a stem alone never makes it relevant.
RelevanceUncontradicted ==
  label = "relevant" =>
    /\ SufficientText(texts)
    /\ ~Blocking(texts)
    /\ texts.phrase \/ LexicalStrong(texts) \/ SubjectMatch(texts) \/ EntityMatch(texts)
=============================================================================
