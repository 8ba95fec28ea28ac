SPECIFICATION MCReplaySpec
CONSTANTS
  NULL = NULL
  Garbled = Garbled
  Queues <- MCQueues
  Agents <- MCAgents
  NoQueue = NoQueue
  NoAgent = NoAgent
  Unkeyed <- MCUnkeyed
  QueueLeads <- MCQueueLeads
  HeadOfSupport <- HEAD_OF_SUPPORT
  Rules <- DEFAULT_RULES
  Lines <- MCLines
  Events <- MCEvents
  BrokenLines = TRUE
  TickInterval = 30
  MaxLines = 5
INVARIANTS
  IngestTypeOK
  WorldIsNewest
  EveryLineCounted
  BreachImpliesAtRisk

  
CHECK_DEADLOCK FALSE
