\* Every script of up to four characters, and of five about quotes or comments;
\* a table of up to three rows and two edits; counters that wrap at eight.
CONSTANTS
  None = None
  MaxLen = 4
  Scripts <- ShortScripts
  r1 = r1
  r2 = r2
  r3 = r3
  a = a
  b = b
  Null = Null
  Unread = Unread
  RowIds <- ThreeRows
  Keys <- TwoKeys
  MaxLimit = 2
  DefaultLimit = 1
  MaxLinks = 2
  Params <- SomeParams
  MaxEdits = 2
  Word = 8
  MaxTicks = 3
  Sizes <- SomeSizes
  TableRows <- TwoKeys
  Guesses <- SomeGuesses
SYMMETRY Interchangeable
SPECIFICATION PagesSpec
INVARIANTS
  TypeOK
  SplitsAsDescribed
  AllAccounted
  BrowseTypeOK
  LinksLeadEverywhere
  StatsTypeOK
  PercentagesInRange
  QueryTypeOK
  NeverTwiceWhole
  PreviewIsCautious
PROPERTY EditsHitShownRow
CHECK_DEADLOCK FALSE
