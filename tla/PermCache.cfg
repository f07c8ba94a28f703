SPECIFICATION FairSpec
CONSTANTS
  NoList = NoList
  Requests = {"a1", "a2", "b"}
  Replicas = {"A", "B"}
  ReplicaOf <- MCReplicaOf
  Stores = {"red"}
  StoreOf <- SharedStore
  AuthStore = "red"
  MaxWrites = 1
  Empty = {1}
  TTL = 2
  Lag = 1
  Attempts = 2
CHECK_DEADLOCK FALSE
INVARIANTS
  IInv
  StalenessBounded
  FlightsSound
PROPERTIES
  EveryoneAnswered
