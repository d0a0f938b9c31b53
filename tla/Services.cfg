SPECIFICATION ServicesSpec

CONSTANTS
  Services = {"session", "limit", "token", "alerts", "news"}
  Tabs = {t1, t2}
  MaxIssue = 2
  MaxFlows = 2
  Faults = {"net", "redis"}
  MaxRequests = 2
  Window = 2
  MaxAttempts = 5
  MaxTime = 5
  LimitFaults = {"redis", "loss"}
  Callers = {q1, q2}
  MaxTokens = 2
  TokenFaults = {"redis", "file", "broker"}
  Replicas = {p1, p2}
  MaxAlerts = 2
  MaxClock = 4
  MonitorFaults = {"redis", "crash"}
  Articles = {n1, n2}
  SeenKeep = 1
  Sinks = {"mongo", "elastic"}
  MaxTopic = 2
  NewsFaults = {"delivery", "crash", "upsert"}

INVARIANTS
  
  LimitInv
  TokenInv
  MonitorInv
  NewsInv

CHECK_DEADLOCK FALSE
