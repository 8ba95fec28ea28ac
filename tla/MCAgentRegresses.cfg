SPECIFICATION MCReplaySpec
CONSTANTS
  NULL = NULL
  Garbled = Garbled
  Queues <- MCQueues
  Agents <- MCAgents
  NoQueue = NoQueue
  NoAgent = NoAgent
  Unkeyed <- MCUnkeyed
  QueueLeads <- MCQueueLeads
  HeadOfSupport <- HEAD_OF_SUPPORT
  Rules <- DEFAULT_RULES
  Lines <- MCKeyedLines
  Events <- MCEvents
  BrokenLines = FALSE
  TickInterval = 30
  MaxLines = 5
PROPERTIES
  StateNeverRegresses
CHECK_DEADLOCK FALSE
