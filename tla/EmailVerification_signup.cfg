SPECIFICATION FairSpec

CONSTANTS
  Signups = {g1, g2}
  Visits = {v1, v2}
  Emails = {kim}
  MaxUsers = 2
  MaxReceives = 2
  Faults = {"crash", "mongo", "mariadb", "sqs", "ses", "sandbox"}
  NoUser = NoUser

INVARIANTS
  AccountsInv
  NoMailIsLost

PROPERTIES
  
  QueueDrains

CHECK_DEADLOCK FALSE
