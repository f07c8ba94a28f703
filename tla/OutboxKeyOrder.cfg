SPECIFICATION Spec
CONSTANTS
  Events = {"a1", "a2"}
  Txns = {t1}
  Relays = {r1}
  Entities = {"A", "B"}
  Topics = {"shipments", "stops"}
  Partitions = {"p0", "p1"}
  NoTopic = NoTopic
  BatchSize = 2
  MaxDepth = 1
  MaxStamp = 2
  MaxFaults = 0
  EntityOf <- MCEntityOf
  EntityType <- MCEntityType
  TopicOverride <- MCTopicOverride
  PartitionTopic <- MCPartitionTopic
CHECK_DEADLOCK FALSE
INVARIANTS
  EntityOrder
