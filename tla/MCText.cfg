SPECIFICATION TextSpec
CONSTANTS
  Strings <- MCStrings
  Values = {1, 2}
  Zero = 0
  Top = 3
  Width = 4
  MaxPooled = 6
  ShrinkRatio = 2
  ShrinkAfter = 2
  Alphabet <- MCAlphabet
  MaxLen <- MCMaxLen
INVARIANTS
  SnakeAsWords
  AliasMeetsKey
  NumbersOfGrammar
  EscapedReadsBack
  MaskIsSound
  GivenUpWhenOutgrown
CHECK_DEADLOCK FALSE
