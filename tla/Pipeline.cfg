SPECIFICATION FairPipelineSpec
CONSTANTS
  Events = {"a1", "a2"}
  Txns = {t1}
  Relays = {r1}
  Entities = {"A"}
  Topics = {"shipments"}
  Partitions = {"p0"}
  NoTopic = NoTopic
  BatchSize = 2
  MaxDepth = 1
  MaxStamp = 1
  MaxFaults = 1
  Messages = {"a1", "a2"}
  Malformed = {}
  Poison = {}
  Replicas = {c1}
  Handlers = {"index"}
  NoOne = NoOne
  MaxLog = 4
  MaxDisruptions = 1
  EntityOf <- MCEntityOf
  EntityType <- MCEntityType
  TopicOverride <- MCTopicOverride
  PartitionTopic <- MCPartitionTopic
  HandlersOf <- MCOneHandler
  ActionsOf <- MCNoActions
CHECK_DEADLOCK FALSE
INVARIANTS
  HandoverSound
PROPERTIES
  ImplementsEndToEnd
