SPECIFICATION Spec
CONSTANTS
  scan = scan
  api = api
  Callers = {scan, api}
  Scanner = scan
  Charge <- MCCharge
  MaxWeight = 2
  MaxRetries = 1
  UniverseSize = 2
  MaxDataFailures = 2
  StreamSymbols = {one, two}
  MaxOpenTime = 2
  MaxReconnects = 2
  Dispatchers = {scan, api}
  AlertKinds <- MCKinds
  StateOf <- MCStateOf
  KeyOf <- MCKeyOf
  Critical = {"kill"}
  NoState = "none"
  Cooldown = 2
  RateWindow = 2
  MaxPerWindow = 2
  DeliveryAttempts = 2
  MaxClock = 2
  MaxMessages = 3
  MaxBotCrashes = 1
  Trades = {a, b}
  MaxStamp = 2
  MaxFailedWrites = 2
INVARIANTS TypeOK AttemptsWithinBudget LossIsSeen CandlesInOrder RepeatsCool  ConfirmedIsAnswered RunsOncePerProcess RunInOrder SoldStaysSold
PROPERTIES StreamGivesUp MessagesAreAnswered
