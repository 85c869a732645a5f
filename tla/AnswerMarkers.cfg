CONSTANTS
  MaxResults = 3
  MaxSources = 2
  Numbers = {1, 2, 9}
  Texts <- MCTexts
SPECIFICATION AnswersSpec
INVARIANT NoneFabricated
