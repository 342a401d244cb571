SPECIFICATION PagesSpec
CONSTANTS
  Nothing = Nothing
  Sent = Sent
  Locked = Locked
  Places <- MCPlaces
  FirstTree <- MCTree
  Selections <- MCSelections
  Typed <- MCTyped
  Copies <- MCCopies
  Mutations = {s1, s2}
  MaxActions = 2
  Files = {"f", "g"}
  FirstText <- MCFirstText
  Texts = {"empty", "t1"}
  Empty = "empty"
  MaxPages = 3
  MaxSteps = 8
  Sources <- MCSources
  Lower <- MCLower
  Needles <- MCNeedles
  Rows <- MCRows
  TableRows = 3
  MaxRows = 2
  MaxColumns = 2
  MaxCellCharacters = 2
  MaxCharacters = 100
  Folders = {"p", "q"}
  Home = "p"
  Below <- MCBelow
  Order <- MCOrder
  Tree <- MCListed
  Hidden = {"s"}
  Special = {"s"}
  Matching = {"a"}
  Visits = 4
  Paths = {"a", "b"}
  Rests = {"r1", "r2"}
  FirstSettings <- MCSettings
  SystemDark = TRUE
  MaxPuts = 2
  MaxChanges = 4
  MaxRequests = 2
  MaxTurns = 5
  SharedFolders = {"top", "sub"}
  First = "top"
  MaxMoves = 6
SYMMETRY Slot
INVARIANTS
  ReplacesWhatWasAsked
  BackKeepsPlace
  FindAgrees
  CsvReadsBack
  ListingCurrent
  SettingsAsAsked
  ListsCurrent
  SharedFolderShown
PROPERTIES
  ClosesWhole
  LeavesNothingUnsaved
  DeletesWhole
CHECK_DEADLOCK FALSE
