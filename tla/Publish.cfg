SPECIFICATION MCSpec
CONSTANTS
  Helpers = {h1, h2, h3}
  Marks = {"secret", "private", "extra"}
  None = None
  MaxEdits = 1
SYMMETRY Symmetry
CHECK_DEADLOCK FALSE
INVARIANTS SecretsStayHome NothingPrivateIsPublished NpmPackageIsComplete PublishedWereAudited WheelAndSdistAgree
PROPERTY KeepsTheRegistry
