SPECIFICATION RequestsSpec
CONSTANTS
  Calls = {c1, c2, c3}
  Limit = 2
  MaxQueue = 1
  Cap <- Caps
  Clients = {1, 2}
  Requests <- RequestSets
  Deployments <- DeploymentSet
  Providers = {"serper", "serpapi", "brave"}
  Family <- Families
  Order <- ListedOrder
  Tool <- Supporting
  Monthly <- MonthlyCaps
  Daily <- DailyCaps
  Minute <- MinuteCaps
  DayTicks = 1
  MonthTicks = 2
  Window = 2
  Cooldown = 1
  Threshold = 2
  Before <- FailedBefore
  Asks = {1, 2}
  Kinds <- KindsAsked
  MaxNow = 1
  Defaults <- LimitSet
  Ceilings <- CeilingSet
  Overrides <- OverrideSet
  Reports <- ReportSet
  Thresholds <- ThresholdSet
  Registered <- ProviderList
  DefaultProvider = "none"
  Extractions <- ExtractionSet
  Schemas <- SchemaSet
  Values <- ValueSet
  Billings <- BillingSet
  Warnings <- WarningSet
  MaxScanNodes = 12
  MaxUrlUnits = 3
  MaxDateUnits = 2
  MaxToolOutput = 5
SYMMETRY Symmetry
CHECK_DEADLOCK FALSE
INVARIANT StateOK
INVARIANT SlotsAccounted
INVARIANT NoIdleSlot
PROPERTY NoWorkForTheGone
 
INVARIANT RoutingIsJustified
INVARIANT AnswersAreExact
