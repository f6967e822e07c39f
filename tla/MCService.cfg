\* Publishing: two workers and two settings screens.  Admission: two requests of two
\* people at a time.  Desktop: one or two accounts, few of each thing that may happen.
SPECIFICATION ServiceSpec
CONSTANTS
  Bill = Bill
  Reminder = Reminder
  Breach = Breach
  Outage = Outage
  Plea = Plea
  Promise = Promise
  Rumour = Rumour
  Debt = Debt
  Leak = Leak
  Safety = Safety
  Money = Money
  Work = Work
  w1 = w1
  w2 = w2
  c1 = c1
  c2 = c2
  Worker = {w1, w2}
  Client = {c1, c2}
  Event = {Bill, Reminder, Breach, Outage, Plea, Promise, Rumour}
  Goal = {Money, Work}
  Topic = {Debt, Leak, Safety}
  Global = Global
  Inherit = Inherit
  Nobody = Nobody
  Candidate <- MCCandidate
  Modes = {"active", "quiet", "important_only", "paused"}
  Quota <- MCQuota
  Cooldown <- MCCooldown
  Window = 1
  ErrorWindow <- MCErrorWindow
  AllowedErrors <- MCAllowed
  FreezeTime = 2
  SuppressTime = 2
  Life = 1
  Needed <- MCNeeded
  Weight = 1
  Cases <- AllCases
  MaxRows = 3
  ann = ann
  bob = bob
  zh = zh
  en = en
  Account = {ann, bob}
  Language = {zh, en}
  SystemLanguage = zh
  NoAccount = NoAccount
  MaxTries = 2
  Situations <- MCCases
  Call = {w1, w2}
  User = {c1, c2}
  Source = {s1, s2}
  All = All
  HitWindow = 1
  UserHits = 2
  SourceHits = 3
  AllHits = 3
  MaxKeys = 5
  MaxHits = 9
  SweepTime = 1
  RateWindow = 3
  Requests = 2
  UserSlots = 1
  LeaseTime = 3
  BodyTime = 0
  WorkTime = 1
  Margin = 1
  Scenarios <- AllScenarios
SYMMETRY Symmetry
CHECK_DEADLOCK FALSE
INVARIANTS
  MistakesLowerTheVoice
  BooksBalance
  LimitsHold
  AccountsAreKeptApart
PROPERTIES
  PublishesWithinLimits
  NothingOverwrittenUnseen
