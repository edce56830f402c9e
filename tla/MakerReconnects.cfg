SPECIFICATION FairSpec
CONSTANTS
  Languages = {"python", "typescript"}
  Maker = Maker
  Challenges <- AllChallenges
  Requests = {r1}
  U32 = 4
  Fills = {1}
  QuoteIds = {q1}
  NilId = NilId
  NoSignature = NoSignature
  Connections = {c1, c2}
  Timestamps = {1}
  OddsValues = {1}
  MaxQuotes = 2
  MaxEdits = 0
  MaxSends = 2
INVARIANTS AuthenticatedWasAnswered AcceptedIsStillOwed
PROPERTY AcceptedIsSettled
CHECK_DEADLOCK FALSE
