SPECIFICATION FairSpec

CONSTANTS
  Tabs = {t1, t2}
  MaxIssue = 2
  MaxFlows = 2
  Faults = {"net"}

PROPERTIES
  TabsComeToRest
