SPECIFICATION Spec

CONSTANTS
  Requests = {r1, r2, r3}
  MaxAssets = 2
  Symbols = {btc}
  Stocks = {}
  Amounts = {2}
  Dust = 0
  MaxInFlight = 2
  Handlers = {"create", "sell", "bulk"}
  Faults = {}
  NoDoc = NoDoc
  NoCache = NoCache

SYMMETRY RequestSymmetry

PROPERTIES
  SoldStaysSold
