SPECIFICATION FairSpec
CONSTANTS
  NumRows = 3
  LinesPerChunk = 3
  EmailOf <- MCEmailOf
  SpellingOf <- MCSpellingOf
  Invalid <- MCInvalid
  Short <- MCShort
  Lists = {1, 2}
  MaxAttempts = 2
  MaxTrouble = 1
CHECK_DEADLOCK FALSE
INVARIANTS
  TypeOK
  DoneMeansSubscribed
  NoRowCountedTwice
  ErrorFileComplete
  OverlayIsBusy
  ImportInv
PROPERTIES
  ImportEnds
