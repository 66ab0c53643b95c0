CONSTANTS
  big = big
  small = small
  Mode <- Modes
  FirstMode = big
  NoMode = NoMode
  MaxVersion = 8
  c1 = c1
  c2 = c2
  white = white
  black = black
  NoClient = NoClient
  Client <- OneClient
  Resizable <- OneClient
  MaxRow = 2
  Heights <- TwoHeights
  Lines <- AnyLines
  Pixel <- Colours
  White = white
  Live = FALSE
  Parts = {"updates"}
SPECIFICATION FairUpdatesSpec
PROPERTIES
  SettledScreenIsShown
