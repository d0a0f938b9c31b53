SPECIFICATION Spec

CONSTANTS
  Requests = {r1, r2, r3, r4}
  MaxRows = 3
  Codes = {btc}
  Amounts = {2}
  Step = 1
  MaxItems = 2
  MaxInFlight = 2
  Handlers = {"create", "bulk", "patch", "delete", "sell", "merge", "withdraw"}
  Faults = {"db", "crash"}
  NoRow = NoRow

INVARIANTS
  
  NoOrphanRows
  

PROPERTIES
  DuplicateNeedsOverlap
  UndisturbedCommitsAreExact

SYMMETRY RequestSymmetry
