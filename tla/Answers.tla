------------------------------- MODULE Answers -------------------------------
(***************************************************************************)
(* Grounded answers (answer.rs, AmatlService::answer): a search, the first *)
(* results as numbered sources, one call to a model, and the two scans of  *)
(* its text: the citations it counts and the markers it strips.  A text is *)
(* a sequence of tokens: the two brackets, words and numbers; what lies    *)
(* between brackets parses as an index when it is exactly one number.      *)
(***************************************************************************)
EXTENDS Subsequences, SequencesExt

CONSTANTS
  MaxResults,  \* results of a search
  MaxSources,  \* answer.max_sources
  Numbers,     \* the indices a model may write
  Texts        \* the texts a model may return, sequences of Tokens

Words == {"open", "close", "word"}
Token(n) == [kind |-> "number", value |-> n]
Symbol(w) == [kind |-> w, value |-> 0]
Tokens == {Token(n) : n \in Numbers} \cup {Symbol(w) : w \in Words}

ASSUME AnswersAssumption ==
  /\ MaxResults \in Nat /\ MaxSources \in Nat \ {0}
  /\ Numbers \subseteq Nat /\ Texts \subseteq Seq(Tokens)

VARIABLES
  stage,    \* "idle", "searched", "replied" or "refused"
  sources,  \* the number of sources the model was shown
  answer    \* the text and citations returned

answersVars == <<stage, sources, answer>>

NoAnswer == [text |-> <<>>, citations |-> <<>>]

----------------------------------------------------------------------------
(* The scans.                                                               *)

\* The place of the first bracket that closes the one opened at place i, 0 when
\* there is none.
Closing(text, i) ==
  LET places == {j \in i + 1 .. Len(text) : text[i].kind = "open" /\ text[j].kind = "close"}
  IN IF places = {} THEN 0 ELSE Min(places)

\* Where both loops go on from place i: a bracket that closes is skipped whole,
\* everything else is one step.
After(text, i) == IF Closing(text, i) = 0 THEN i + 1 ELSE Closing(text, i) + 1

\* The places the loops stop at: where they are after n rounds, for every n.
Stops(text) ==
  LET index[n \in 0 .. Len(text)] ==
        IF n = 0 THEN 1
        ELSE IF index[n - 1] > Len(text) THEN index[n - 1] ELSE After(text, index[n - 1])
  IN {index[n] : n \in 0 .. Len(text)} \cap 1 .. Len(text)

\* The index the marker at place i holds, -1 when none is there or it does not
\* parse.
IndexAt(text, i) ==
  IF Closing(text, i) = i + 2 /\ text[i + 1].kind = "number" THEN text[i + 1].value ELSE -1

\* extract_citations: the valid indices in order of first appearance.
ExtractCitations(text, valid) ==
  LET found == {i \in Stops(text) : IndexAt(text, i) \in valid}
      cited == {i \in found : \A j \in found : IndexAt(text, j) = IndexAt(text, i) => i <= j}
  IN Picked([i \in DOMAIN text |-> IndexAt(text, i)], cited)

\* Mutant: the text is returned as the model wrote it.
Unstripped(text, valid) == text

\* strip_invalid_citations: a marker that parses and names no source is dropped.
StripInvalid(text, valid) ==
  LET invalid == {i \in Stops(text) : IndexAt(text, i) \notin valid \cup {-1}}
      dropped == UNION {i .. Closing(text, i) : i \in invalid}
  IN Picked(text, DOMAIN text \ dropped)

----------------------------------------------------------------------------
AnswersInit == stage = "idle" /\ sources = 0 /\ answer = NoAnswer

\* search_inner, then build_sources.
SearchForAnswer(results) ==
  /\ stage = "idle"
  /\ sources' = IF results < MaxSources THEN results ELSE MaxSources
  /\ stage' = "searched"
  /\ UNCHANGED answer

\* synthesize without sources, and complete with an error or a bad response.
RefuseAnswer ==
  /\ stage = "searched"
  /\ stage' = "refused"
  /\ UNCHANGED <<sources, answer>>

\* synthesize after the model replied: an answer that cites nothing is refused.
Synthesize(raw) ==
  LET valid == 1 .. sources
      cited == ExtractCitations(raw, valid)
  IN
  /\ stage = "searched" /\ sources > 0
  /\ IF cited = <<>>
     THEN stage' = "refused" /\ UNCHANGED answer
     ELSE stage' = "replied" /\ answer' = [text |-> StripInvalid(raw, valid), citations |-> cited]
  /\ UNCHANGED sources

FinishAnswer ==
  /\ stage \in {"replied", "refused"}
  /\ stage' = "idle" /\ sources' = 0 /\ answer' = NoAnswer

AnswersNext ==
  \/ \E results \in 0 .. MaxResults : SearchForAnswer(results)
  \/ RefuseAnswer
  \/ \E raw \in Texts : Synthesize(raw)
  \/ FinishAnswer

AnswersSpec == AnswersInit /\ [][AnswersNext]_answersVars

----------------------------------------------------------------------------
\* What stands at a place of the returned text: an index that is none of the
\* sources the model was shown.
Fabricated(i) == IndexAt(answer.text, i) \notin (1 .. sources) \cup {-1}

\* An answer is returned only with citations, each of them listed once, and what
\* is left of the text cites exactly those: stripping removes text and the rest
\* is read anew, so a removal must not join two pieces into a marker.  A marker
\* [n] that names no source may stay only where another bracket was open before
\* it and closes with it, as in "[see [9]": both scans take that bracket and what
\* it holds for one piece and never look inside.
AnswerGrounded ==
  stage = "replied" =>
    LET text == answer.text
        shown == {IndexAt(text, i) : i \in Stops(text)} \ {-1}
    IN /\ answer.citations # <<>>
       /\ Cardinality(ToSet(answer.citations)) = Len(answer.citations)
       /\ shown = ToSet(answer.citations)
       /\ shown \subseteq 1 .. sources
       /\ \A i \in DOMAIN text : Fabricated(i) =>
            \E j \in 1 .. i - 1 : Closing(text, j) = Closing(text, i)

\* A citation to a source that does not exist is stripped from the visible text
\* (answer.rs): no marker [n] of the returned text, wherever it stands, names
\* anything but a source.
NoneFabricated ==
  stage = "replied" => \A i \in DOMAIN answer.text : ~Fabricated(i)
=============================================================================
