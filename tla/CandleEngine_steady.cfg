SPECIFICATION Spec

CONSTANTS
  MaxMinute = 4
  MaxTicks = 4
  MaxAge = 2
  Keep = 2
  Readers = TRUE
  Replays = TRUE
  Faults = {"loss"}
  NoCandle = NoCandle

INVARIANTS
  CandlesAreRight
  ReadersSeeTheCandles
  
