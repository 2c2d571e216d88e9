SPECIFICATION LexSpec
CONSTANTS
  MaxChars = 5
  CharTexts <- MCCharTexts
INVARIANTS
  StringIsExact
  NumberIsExact
  DecodesUnits
  MinifyKeepsLexemes
CHECK_DEADLOCK FALSE
