SPECIFICATION Spec
CONSTANTS
  Payloads = {"p1"}
  CheckNames <- OneCheckEach
  Actions = Actions
  NoApp = NoApp
  other = other
  Apps = {Actions, other}
  MaxCommits = 2
  MaxRuns = 3
  PageSize = 2
  Changeable <- OneSettingOfEachKind
  MaxChanges = 1
INVARIANT PassedWereGreen
