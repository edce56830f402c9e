SPECIFICATION Spec
CONSTANTS
  alice = alice
  NoSignature = NoSignature
  NotSigning = NotSigning
  Users = {alice}
  AsyncUsers = {alice}
  MaxLegs = 1
  EvenOdds = 2
  MaxOdds = 5
  Drafts <- EditDrafts
  Drifts <- MostDrift
  Salts = {s1, s2}
  Window = 1
  MaxTime = 1
  MaxSignatures = 2
  MaxRequests = 2
SYMMETRY SaltsAreAlike
CHECK_DEADLOCK FALSE
INVARIANTS AcceptedWasSigned SignedRequestIsHeard RetriesAreRetries OneAcceptancePerOrder
PROPERTY KeepsThePromise
