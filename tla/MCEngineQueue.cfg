SPECIFICATION MCSpec
CONSTANTS
  NULL = NULL
  q1 = q1
  Queues <- MCQueues
  Agents <- MCAgents
  QueueLeads <- MCQueueLeads
  HeadOfSupport = "hos_dana"
  Rules <- MCRules
  Events <- MCEvents
  TickInterval = 2
  MaxTime = 7
  MaxLate = 2
  MaxLog = 4
INVARIANTS
  TicksCaughtUp
  EpisodesWellFormed
  StoreShowsOpenAlerts
  QuietEpisodesStayQuiet
  CooldownRespected
  StoreInOrder
  DigestMatchesEngine
PROPERTIES
  SilenceIsNotRecovery
  KeepsContract
CHECK_DEADLOCK FALSE
