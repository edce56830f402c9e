SPECIFICATION Spec
CONSTANTS
  Languages = {"rust", "typescript"}
  Maker = Maker
  Challenges <- OneChallenge
  Requests = {r1}
  U32 = 4
  Fills = {1, 2}
  QuoteIds = {q1}
  NilId = NilId
  NoSignature = NoSignature
  Connections = {c1}
  Timestamps = {1}
  OddsValues = {1, 2, 5}
  MaxQuotes = 2
  MaxEdits = 1
  MaxSends = 2
INVARIANTS TypeOK CollectedWasMeant ReportsNameOneQuote
PROPERTY KeepsTheBook
CHECK_DEADLOCK FALSE
