SPECIFICATION MCSpec
CONSTANTS
  Null = Null
  Invalid = Invalid
  Missing = Missing
  Unreadable = Unreadable
  IntMax <- MCIntMax
  NumberOf <- MCNumberOf
  Lower <- MCLower
  IsRegex <- MCIsRegex
  Strings <- MCStrings
  Inputs <- MCConfigInputs
  Chars <- MCChars
  Spaces <- MCSpaces
  NewLine <- MCNewLine
  NoText = NoText
  LineSize = 5
  MaxStrlen = 4
  Documents <- MCDocuments
  MaxKept = 2
INVARIANTS TypeOK Resolved OneClipPerDrag ShownFaithfully NumberReadBack
CHECK_DEADLOCK FALSE
