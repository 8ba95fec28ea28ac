SPECIFICATION MCSpec
CONSTANTS
  NULL = NULL
  q1 = q1
  q2 = q2
  a1 = a1
  Queues <- MCQueues
  Agents <- MCAgents
  QueueLeads <- MCQueueLeads
  HeadOfSupport = "hos_dana"
  Rules <- MCRules
  Events <- MCEvents
  TickInterval = 2
  MaxTime = 6
  MaxLate = 2
  MaxLog = 3
INVARIANTS
  TypeOK
  NoFutureData
  FiringIsJustified
  TimersAreSwept
  DurationAlertsArePrompt
  DriftIsNoticed
PROPERTIES
  RightLeadIsTold
  DriftIsReal
CHECK_DEADLOCK FALSE
