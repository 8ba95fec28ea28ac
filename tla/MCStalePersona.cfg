SPECIFICATION BrowserSpec
CONSTANTS
  NULL = NULL
  Personas <- MCDigestPersonas
  RoleOf <- MCRoleOf
  Tasks <- MCTasks
INVARIANTS
  TrayIsNeverStale
