SPECIFICATION Spec
CONSTANTS
  Word <- OrdinaryWords
  Lexicon <- Entries
  Newline = "newline"
  Tools <- OrdinaryTools
  Inputs <- AllInputs
  Places <- ReplyPlaces
  Keys <- ReplyKeys
  Values <- ReplyValues
  Vocabularies <- OrdinaryVocabularies
  TokenLimit = 512
  MaxWords = 4
  MaxFields = 2
INVARIANTS MostImportantWins WrappersAreTransparent FailuresMatch NativeMatchesReference
CHECK_DEADLOCK FALSE
