SPECIFICATION Spec
CONSTANTS
  Events = {"a1", "a2"}
  Txns = {t1}
  Relays = {r1, r2}
  Entities = {"A", "B"}
  Topics = {"shipments", "stops"}
  Partitions = {"p0", "p1"}
  NoTopic = NoTopic
  BatchSize = 2
  MaxDepth = 2
  MaxStamp = 1
  MaxFaults = 2
  EntityOf <- MCEntityOf
  EntityType <- MCEntityType
  TopicOverride <- MCTopicOverride
  PartitionTopic <- MCPartitionTopic
SYMMETRY RelaySymmetry
CHECK_DEADLOCK FALSE
INVARIANTS
  IInv
  NoLostEvent
  PromiseKept
  DuplicatesOwedToFaults
