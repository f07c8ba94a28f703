SPECIFICATION FairSpec
CONSTANTS
  Callers = {c1, c2}
  NoOne = NoOne
  TTL = 4
  Skew = 2
  Timeout = 1
  MaxRevocations = 2
  MaxFaults = 1
  Crossings <- MCCrossings
  Layouts <- MCLayouts
  headerScanDepth = 2
  MaxTruth = 2
  MaxText = 4
  Vehicles = {"v1", "v2"}
  PageSize = 2
  ListSize = 1
  MaxChanges = 3
  MaxRecords = 2
  Plans = {"geofence", "temperature", "climate"}
  MaxSetups = 2
  MaxIncidents = 1
  MaxTries = 2
  Instances = 2
  attempts = 3
  Nothing = Nothing
  PerPage = 2
  maxCallLogPages = 2
  maxNumberPages = 1
  MaxListed = 5
  MaxLogged = 1
  MaxDeleted = 1
  Sections <- MCSections
  MaxSections = 2
  MaxLegs = 2
  Lines <- MCLines
  Precision = 5
  MaxMessages = 2
  MaxAgain = 1
  MaxStumbles = 2
  MaxKeys = 2
  MaxEntered = 2
  MaxAttempts = 2
  MaxNow = 2
  Roads <- MCRoads
  Trucks = {0, 2}
  maxIntermediates = 1
  Stacks <- MCStacks
  callerChainDepth = 2
  MaxLookups = 2
  MaxKeyChanges = 1
  Dots = {1, 2}
  Numbers = {1, 12}
  Within <- MCWithin
  Limit = 1
  MaxCensus = 1
  Keys = {"k1", "k2"}
  Documents = {"d1"}
  Files <- MCFiles
  MaxOrders = 3
  Fleet = {"v1"}
  MaxCalls = 2
  MaxMoment = 2
CHECK_DEADLOCK FALSE
INVARIANTS
  TokenSound
  ParsedSound
  ReadSound
  WrittenSound
PROPERTIES
  EveryoneAnswered
