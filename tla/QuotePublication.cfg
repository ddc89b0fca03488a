SPECIFICATION PdfSpec
CONSTANTS
  NoVersion = NoVersion
  NoOne = NoOne
  Versions = {v1}
  Contents <- MCContents
  Staff = {ana}
  Overriders = {}
  Keys = {k1}
  MaxEdits = 2
  w1 = w1
  w2 = w2
  Workers <- MCWorkers
  MaxDocs = 2
SYMMETRY Symmetry
INVARIANTS ReadyHasBytes SentHasDocument StaleOnlyWhenOwed
PROPERTIES ReadyIsFinal ReviewedIsSent
CHECK_DEADLOCK FALSE
