SPECIFICATION Spec
CONSTANTS
  U32 = 8
  U64 = 12
  BasisPoints = 2
  MicrosPerDollar = 3
  None = None
  Overflow = Overflow
  DivisionByZero = DivisionByZero
INVARIANTS TypeOK ClientsAgree PayoutsAreCovered SplittingCostsMicros
