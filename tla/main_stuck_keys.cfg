CONSTANTS
  c1 = c1
  c2 = c2
  Conn <- TwoConns
  NoConn = NoConn
  Key = {Tab}
  ShiftL = ShiftL
  ShiftR = ShiftR
  Tab = Tab
  AlwaysShared = FALSE
  NeverShared = FALSE
  DisconnectClients = TRUE
  BlacklistLevel = 2
  QueryResults = {"ACCEPT"}
  MaxOpens = 1
  MaxPolls = 1
SPECIFICATION MainSpec
INVARIANTS
  KeysDownAreHeld
