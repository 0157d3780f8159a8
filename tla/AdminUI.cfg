\* LogViews
CONSTANTS
  Jobs = {job1, job2}
  Services = {svc1}
  LineCounts = {0, 50, 100}
  DefaultLines = 100
  MaxLogCalls = 4
  Nothing = Nothing
\* HistoryPage
  p1 = p1
  p2 = p2
  o1 = o1
  o2 = o2
  Owners = {o1, o2}
  AnyApp = AnyApp
  PastJobs <- PastJobsOfRun
  RetryJobs = {r1}
  PageSize = 1
  MaxActs = 2
\* AppsPage
  Listable = {a1, a2}
  MaxOrders = 2
  NoApp = NoApp
\* AppFormPage
  v1 = v1
  PartValues <- PartValuesInRun
  Saved <- SavedInRun
  Blank = Blank
  MaxEdits = 1
  MaxSubmits = 2
  MaxRenders = 1
\* ServiceUnit
  Sharing = {u1, u2}
  Absent = Absent
  ByHand = ByHand
  Torn = Torn
  NoUnit = NoUnit
  MaxUnitActs = 3
\* TokenSettings
  Operators = {op1, op2}
  Tokens = {t1, t2}
  EnvTokens = {e1}
  NoToken = NoToken
  MaxSaves = 2
  MaxTyped = 1
\* AccountPages
  Names = {n1, n2}
  DefaultName = n1
  NoAccount = NoAccount
  MaxChanges = 3
\* EditorText
  MaxArgs = 2
  MaxLength = 2
  MaxSole = 4
\* AppRegistry
  Registrable = {reg1, reg2}
  Secrets = {s1, s2}
  Handlers = {h1, h2}
  NoRow = NoRow
  Nobody = Nobody
  NoTable = NoTable
  MaxWrites = 2
SPECIFICATION UISpec
INVARIANTS
  UITypeOK
  LogIsOfSubject
  NoDuplicateRows
  PageExists
  ReleasesAskedOnce
  ListIsFresh
  DoneMeansSaved
  UntouchedIsKept
  ReviewedIsLoaded
  HandWrittenIsKept
  MaskNeverStored
  LiveIsStored
  GateHolds
  TextsRoundTrip
  AnswersAreCurrent
PROPERTIES
  BeliefEnds
  StatusSettles
  GateOpens
CHECK_DEADLOCK FALSE
