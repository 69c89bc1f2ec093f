CONSTANTS
  Bytes = {"a", "b", "x", "NUL"}
  NUL = "NUL"
  Junk = "Junk"
  Strings <- MCStrings
  Counts = {0, 1, 2, 5}
  Sizes = {0, 3}
  Block = 2
  MaxUsed = 8
  Results = {1}
  Texts <- MCTexts
  NotUTF8 = {"x"}
  None = None
  Garbage = Garbage
SPECIFICATION ReplySpec
CHECK_DEADLOCK FALSE
INVARIANTS
  TypeOK
  ReadsBack
  AbortsKnown
PROPERTIES
  ImplementsText
