SPECIFICATION Spec

CONSTANTS
  MaxMinute = 3
  MaxTicks = 4
  MaxAge = 2
  Keep = 2
  Readers = FALSE
  Replays = FALSE
  Faults = {"mongo", "redis", "rebalance", "crash"}
  NoCandle = NoCandle

INVARIANTS
  FaultsInv

PROPERTIES
  StoredGrowsWhileUp
