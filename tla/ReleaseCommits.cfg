SPECIFICATION Spec
CONSTANTS
  Payloads = {"p1", "p2"}
  CheckNames <- NoChecks
  Actions = Actions
  NoApp = NoApp
  other = other
  Apps = {Actions}
  MaxCommits = 4
  MaxRuns = 0
  PageSize = 1
  Changeable <- Protections
  MaxChanges = 2
INVARIANTS PassedIsExport HeadsWereTogether
