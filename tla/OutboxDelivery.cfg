SPECIFICATION FairSpec
CONSTANTS
  Events = {"a1", "a2", "b1"}
  Txns = {t1, t2}
  Relays = {r1}
  Entities = {"A", "B"}
  Topics = {"shipments", "stops"}
  Partitions = {"p0"}
  NoTopic = NoTopic
  BatchSize = 2
  MaxDepth = 1
  MaxStamp = 2
  MaxFaults = 1
  EntityOf <- MCEntityOf
  EntityType <- MCEntityType
  TopicOverride <- MCTopicOverride
  PartitionTopic <- MCPartitionTopic
CHECK_DEADLOCK FALSE
INVARIANTS
  EntityOrder
PROPERTIES
  ImplementsDelivery
