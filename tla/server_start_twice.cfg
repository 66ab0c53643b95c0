CONSTANTS
  c1 = c1
  c2 = c2
  c3 = c3
  Conn <- TwoConns
  NoConn = NoConn
  Key = {Tab, ShiftL}
  ShiftL = ShiftL
  ShiftR = ShiftR
  Tab = Tab
  AlwaysShared = FALSE
  NeverShared = TRUE
  DisconnectClients = FALSE
  BlacklistLevel = 2
  QueryResults = {"ACCEPT", "REJECT", "PENDING"}
  MaxOpens = 2
  Size = 3
  Pixel = {p1, p2}
  Arrow = arrow
  CompareFB = TRUE
  Wanted <- AllOrMost
  Encodings <- CopyRectOnly
  MaxEvents = 2
  ByteBits = 8
  nativeBigEndian = FALSE
  CubeSide = 6
  ColourSpaces <- SomeColourSpaces
  ScreenSizes <- ThreeSizes
  RowAlign = 4
  MaxSwitches = 2
  MaskBits = 2
  Shapes <- SmallShapes
  Outline = 7
  ScreenPixel = 8
  ScreenSide = 3
  Parts = {"clients"}
SPECIFICATION ServerSpec
SYMMETRY Symmetry
INVARIANTS
  StartStopAlternate
