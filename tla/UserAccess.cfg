SPECIFICATION FairSpec
CONSTANTS
  Default = 2
  Settings = {0, 1, 3}
  Window = 3
  MaxHits = 5
  Modules = {"accounting", "customers"}
  Actions <- MCActions
  Custom <- MCCustom
  Unknown <- MCUnknown
  u1 = u1
  u2 = u2
  t1 = t1
  t2 = t2
  t3 = t3
  None = None
  Users = {u1, u2}
  Tabs = {t1, t2, t3}
  OwnerOf <- MCOwnerOf
  Names = {"all"}
  maxFiltersPerUser = 1
  MaxRows = 3
  c1 = c1
  c2 = c2
  r1 = r1
  r2 = r2
  Requests = {r1, r2}
  Resources = {"shipment", "invoice"}
  SharedOne = "shipment"
  Debounce = 2
  Companies = {c1, c2}
  Employers = {c1, c2}
  CompanyOf <- MCCompanyOf
  MaxIds = 2
  MaxEdits = 1
  Filters = {"broker"}
  Refs = {"b1", "b2"}
  Limits = {0, 1, 3}
  maxLimit = 2
  DefaultLimit = 2
  MaxInserted = 2
  RootFields = {"f", "g"}
  InputsOf <- MCInputsOf
  Before <- MCBefore
  RulesOf <- MCRulesOf
  ArgOf <- MCArgOf
  Given <- MCGiven
  Failures <- MCFailures
  Fields = {"pay", "crew"}
  Tracked = {"pay"}
  Money = {"pay"}
  ClassOf <- MCClassOf
  EventActions = {"updated", "permission_changed"}
  SecurityActions = {"permission_changed"}
  MaxEvents = 2
  FirstYear = 2023
  FirstWeekday = 6
  LastYear = 2025
  Zones = {"utc", "los_angeles", "havana"}
  Clocks <- MCClocks
  MaxMonths = 60
  Months = {1, 3, 11}
  From = 8784
  Until = 19300
  Step = 17
  Callers = {"u1", "root"}
  Supers = {"root"}
  Admins = {"u1"}
  EmployerOf <- MCEmployerOf
  Services = {"loads", "teams"}
  InternalTokens = {"k"}
  MaxProxies = 2
  MaxHops = 2
  Columns = {"a", "b"}
  ColumnValues = {0, 1, 2}
  Terms <- MCTerms
  MaxApplied = 1
  g1 = g1
  g2 = g2
  g3 = g3
  Pods = {"p1", "p2"}
  Goroutines = {g1, g2, g3}
  PodOf <- MCPodOf
  LockedRows = {"load", "invoice"}
  MaxOpenConns = 0
  DefaultOpenConns = 1
  MaxDepth = 2
  MaxStatements = 2
CHECK_DEADLOCK FALSE
INVARIANTS
  RequestsSound
  CodesSound
  RowsSound
  InputSound
  AuditSound
  WindowSound
PROPERTIES
  Isolation
  ServedAgain
