CONSTANTS
  Letters = {"g", "q", "f"}
  NoError = NoError
  Users <- MCUsers
  Empty <- MCEmpty
  NoUser = NoUser
  None = None
  MaxLines = 2
  NameLetters = {"a", "b"}
  Program <- MCProgram
  QuietWord <- MCQuiet
  ForceWord <- MCForce
  LineEnd = LineEnd
  Chunk = 2
  PipeSize = 3
  MaxQuoted = 6
  MaxRaw = 4
SPECIFICATION FairLaunchSpec
INVARIANTS
  ParsesAsMeant
  Delivered
  NeitherWaits
  RunsAsConfigured
  NoApplierLeft
  InvalidLeavesNoTrace
  ReplyText
PROPERTIES
  EachStepCounts
  HelperEnds
