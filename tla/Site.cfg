SPECIFICATION FairSiteSpec

CONSTANTS
  Parts = {"stream", "view", "entry", "fill", "search", "csv", "table", "layout", "figures", "widgets", "chart", "chat", "bar", "favorites", "mypage", "console", "disks", "signup"}
  Sockets = {1, 2, 3}
  MaxChanges = 2
  Changes = {c1, c2}
  MaxStored = 2
  MaxStale = 1
  Rows = {r1}
  MaxStore = 3
  Foreign = {"USD", "JPY"}
  Queries = {"q1", "q2"}
  MaxCart = 1
  MaxRows = 2
  MaxEdits = 1
  Holding = {h1, h2, k1}
  Cash = {k1}
  Widgets = {w1, w2, w3}
  Shares = {s1}
  Monies = {m1}
  MaxNum = 2
  MaxTurns = 3
  Listed = {l1, l2}
  Held = {l1}
  MaxRenders = 2
  Visits = 1
  MaxSends = 2
  Panels = {"my", "watchlist"}
  Links = {"asset"}
  BarTabs = {t1, t2}
  Favourites = {f1, f2}
  MaxToggles = 3
  MaxWorks = 2
  LogSpaces = {n1, n2}
  Diagnoses = {d1}
  NodeNames = {a1, a2}
  Ips = {i1, i2}
  MaxTimers = 2
  MaxNodes = 2
  Addresses = {e1}

INVARIANTS
  StreamInv
  ViewInv
  EntryInv
  
  AssetPagesInv
  
  KeptInBrowser
  

PROPERTIES
  
  
  SiteComesToRest

CHECK_DEADLOCK FALSE
