SPECIFICATION Spec

CONSTANTS
  Requests = {r1, r2, r3, r4}
  MaxAssets = 2
  Symbols = {btc}
  Stocks = {}
  Amounts = {2, 3}
  Dust = 1
  MaxInFlight = 3
  Handlers = {"create", "sell", "update", "delete"}
  Faults = {"crash", "mongo", "redis"}
  NoDoc = NoDoc
  NoCache = NoCache

INVARIANTS
  
  
  LedgerMatchesSales

PROPERTIES
  OnlyDeletesRemoveStock
  ImplementsBook

SYMMETRY RequestSymmetry
