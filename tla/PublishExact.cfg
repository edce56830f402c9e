SPECIFICATION MCSpec
CONSTANTS
  Helpers = {h1}
  Marks = {"extra"}
  None = None
  MaxEdits = 1
INVARIANTS ExactArchivesArePublished
CHECK_DEADLOCK FALSE
