CONSTANTS
  h1 = h1
  h2 = h2
  Host <- Hosts
  NoEntry = NoEntry
  Threshold = 3
  InitialTimeout = 1
  StartTime = 1
  MaxTime = 10
  Offers <- AllOffers
  Supports <- AllSupports
  QueryResults = {"ACCEPT", "REJECT", "PENDING"}
  OutSize = 3
  InSize = 2
  PipeSize = 2
  MinBulk = 4
  ItemSizes = {1, 2}
  Lengths = {3, 4}
  MaxBytes = 7
  MaxRow = 2
  Room = 2
  clientWaitTimeMillis = 1
  idleTimeout = 2
  MaxEvents = 2
  PasswordLines <- SomeLines
  Challenges <- SomeChallenges
  Pieces = {7, 9, 16}
  MaxRuns = 2
  LongBits = 64
  Arguments <- SomeArguments
  MaxArgs = 3
  Kind <- SomeKinds
  Default <- Defaults
  Numerals <- SomeNumerals
  OtherCase <- SomeWords
  Writers = {"Main", "Sock"}
  Loggers = {"stdout", "stderr"}
  Sock = {1}
  Requests <- SomeRequests
  Portions = {5, 7}
  Files <- SomeFiles
  LineSize = 6
  MethodRoom = 2
  PathRoom = 2
  Filters <- SomeFilters
  Addresses <- SomeAddresses
  AddressBits = 4
  Parts = {"blacklist", "handshake", "streams", "session", "passwords", "settings", "http"}
SPECIFICATION PartsSpec
INVARIANTS
  NotBeforeThreshold
  NotAfterThreshold
  NoFasterThanDoubling
  NeverMisread
  AgreeOnSecurity
  InOrder
  ClientUnderstands
  PasswordsAreKept
  SettingsAreTaken
  RequestsAreAnswered
PROPERTIES
  ConversationsEnd
  CatchesUp
  NotStuckForEver
CHECK_DEADLOCK FALSE
