SPECIFICATION MCServiceSpec
CONSTANTS
  NULL = NULL
  c1 = c1
  c2 = c2
  a1 = a1
  Clients <- MCClients
  Agents <- MCAgents
  RuleIds <- MCPersonalIds
  Suffixed <- MCPersonalSuffixed
  AdherenceId <- MCAdherenceId
  Drafts <- MCPersonalDrafts
  Patches = {}
  DefaultRules <- MCPersonalDefaults
  ReplayStore <- MCPersonalStore
  MaxRuns = 1
SYMMETRY ClientSymmetry
INVARIANTS
  PersonalRuleIsOwn
