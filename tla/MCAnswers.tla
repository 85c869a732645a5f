------------------------------ MODULE MCAnswers ------------------------------
(***************************************************************************)
(* A small instance of Answers: the texts a model may write.               *)
(***************************************************************************)
EXTENDS Answers, TLC

\* Every text of up to five tokens, and longer ones with repeated markers and
\* with markers inside another bracket.
MCTexts ==
  LET open == Symbol("open") close == Symbol("close") word == Symbol("word") IN
  SeqOf(Tokens, 5) \cup
  {<<open, Token(1), close, open, Token(9), close, open, Token(2), close>>,
   <<open, open, Token(9), close, Token(1), close, open, Token(1), close>>,
   <<open, word, open, Token(9), close, word, open, Token(1), close>>}
=============================================================================
