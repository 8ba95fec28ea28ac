SPECIFICATION FairBrowserSpec
CONSTANTS
  NULL = NULL
  Personas <- MCPersonas
  RoleOf <- MCRoleOf
  Tasks <- MCTasks
INVARIANTS
  PatientPersonaSeesOwnFeed
  PatientStripIsCurrent
  OneReplayPerPage
PROPERTIES
  ReplayButtonReturns
