CONSTANTS
  big = big
  small = small
  Mode <- Modes
  FirstMode = big
  NoMode = NoMode
  MaxVersion = 8
  c1 = c1
  c2 = c2
  white = white
  black = black
  NoClient = NoClient
  Client <- TwoClients
  Resizable <- OneClient
  MaxRow = 2
  Heights <- TwoHeights
  Lines <- OneLine
  Pixel <- Colours
  White = white
  Live = TRUE
  Parts = {"direct", "updates"}
SPECIFICATION ScreenSpec
INVARIANTS
  ScanReadsMapped
  CacheIsCurrent
  GoneIsNoticed
  RowsExist
  ClientHasRows
  StaleIsTracked
PROPERTIES
  CacheCatchesUp
CONSTRAINT StillPromised
