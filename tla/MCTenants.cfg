\* Accounts: two requests at a time.  Merges: two partitions in any order.  Reminders:
\* one advice on two devices, with a deadline inside and one beyond the horizon, two
\* answers, a pause, and one restart or lost message anywhere.
SPECIFICATION TenantsSpec
CONSTANTS
  Owner = Owner
  Ann = Ann
  Old = Old
  New = New
  Phone = Phone
  Desk = Desk
  Web = Web
  Invitation = Invitation
  c1 = c1
  c2 = c2
  Caller = {c1, c2}
  Name = {Owner, Ann}
  Word = {Old, New}
  Device = {Phone, Desk, Web}
  Bootstrap = Bootstrap
  Invite = {Invitation}
  NoCode = NoCode
  Nobody = Nobody
  Cases <- AllCases
  DeviceLimit = 2
  HistoryLimit = 2
  HashSlots = 2
  FailureLimit = 2
  FailureWindow = 2
  LockTime = 2
  SessionTime = 2
  KeepTime = 1
  LeaseTime = 2
  Cooldown = 1
  SweepMargin = 1
  MaxFailures = 4
  u1 = u1
  u2 = u2
  i1 = i1
  i2 = i2
  walk = walk
  read = read
  seen1 = seen1
  seen2 = seen2
  ref1 = ref1
  ref2 = ref2
  home = home
  away = away
  advise1 = advise1
  advise2 = advise2
  topic1 = topic1
  topic2 = topic2
  tap1 = tap1
  tap2 = tap2
  key1 = key1
  domain = domain
  None = None
  User = {u1, u2}
  Target = u2
  MaxAt = 2
  History <- Histories
  NumAdvice = 1
  Machine = {c1, c2}
  Interval = 2
  Lease = 1
  Snooze = 2
  MaxTime = 4
  Bounds <- ReminderBounds
SYMMETRY Symmetry
CHECK_DEADLOCK FALSE
INVARIANTS
  CodesAreHonoured
  EndedStaysEnded
  LoginsAreLimited
  OneExportAtATime
  OneLiveAdvice
  NoReminderReplayed
  ReferencesSurvive
  JudgementsAreBacked
  RunsKeepTheirWord
  AtMostTwoReminders
PROPERTIES
  OnlyWithThePasswordInForce
  IgnoredMeansSeenTwice
  ReportedBeforeForgotten
