SPECIFICATION Spec
CONSTANTS
  a1 = a1
  other = other
  d1 = d1
  d2 = d2
  c1 = c1
  c2 = c2
  plain = plain
  braced = braced
  Accounts = {a1}
  Addresses = {a1, other}
  Domains = {d1}
  Chains = {c1}
  Deployments <- OneServer
  Amounts = {1}
  Keys = {1}
  Spellings = {plain, braced}
  None = None
  Times = {0}
  MaxSigned = 2
  MaxSent = 2
INVARIANT ReplaysAreStatuses
CHECK_DEADLOCK FALSE
