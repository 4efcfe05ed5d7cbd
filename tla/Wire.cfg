CONSTANTS
  MaxDepth = 5
  CharOf <- MCCharOf
  Texts <- MCTexts
  First = 8
  Lexemes <- MCLexemes
  MaxLines = 2
  MaxLexemes = 4
SPECIFICATION Spec
INVARIANTS
  HeardAsSaid
  RewriteKeepsAll
CHECK_DEADLOCK FALSE
