SPECIFICATION Spec

CONSTANTS
  Requests = {r1, r2, r3}
  MaxAssets = 2
  Symbols = {btc, sec}
  Stocks = {sec}
  Amounts = {2}
  Dust = 0
  MaxInFlight = 2
  Handlers = {"list", "create", "delete", "bulk"}
  Faults = {"mongo"}
  NoDoc = NoDoc
  NoCache = NoCache

INVARIANTS
  NoEntrySurvivesAWrite
  BulkTally

PROPERTIES
  QuietRequestsAreExact

SYMMETRY RequestSymmetry
