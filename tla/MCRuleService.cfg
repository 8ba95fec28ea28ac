SPECIFICATION MCServiceSpec
CONSTANTS
  NULL = NULL
  c1 = c1
  c2 = c2
  a1 = a1
  Clients <- MCClients
  Agents <- MCAgents
  RuleIds <- MCRuleIds
  Suffixed <- MCSuffixed
  AdherenceId <- MCAdherenceId
  Drafts <- MCDrafts
  Patches <- MCPatches
  DefaultRules <- MCDefaultRules
  ReplayStore <- MCReplayStore
  MaxRuns = 2
SYMMETRY ClientSymmetry
INVARIANTS
  ServiceTypeOK
  RowsValid
  DigestNamesOpenAlerts
PROPERTIES
  RowLife
  DeleteClosesAlerts
