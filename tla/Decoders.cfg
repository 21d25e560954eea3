CONSTANTS
  HeaderChars = {0, 32, 43, 45, 48, 49, 50, 51, 53, 120}
  MaxBody = 512
  MaxAsked = 600
  SizeMod = 65536
  MaxContent = 3
SPECIFICATION MCSpec
INVARIANTS
  LengthsAreSound
  FieldsAreSound
  EndsAtBlankLine
  ParsersAgree
\* both parsers have given their verdict
CHECK_DEADLOCK FALSE
