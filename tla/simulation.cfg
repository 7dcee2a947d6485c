\* Two callers: each may be in the middle of a call of any kind.
SPECIFICATION Spec
CONSTANTS
  Callers = {c1, c2}
  Roles <- MCRoles
  Scenarios <- MCScenarios
  Faults <- MCFaults
  Packages <- MCPackages
  Layouts <- MCLayouts
  MaxPoints = 2
  NoRequest = NoRequest
  Unset = Unset
INVARIANTS EffectsAudited AnswersTellTheTruth LayoutsFit
SYMMETRY Symmetry
CHECK_DEADLOCK FALSE
