\* One or two advices of one or two users and two consumers, from four
\* beginnings, under fairness: texts and locales change, processes die, the live
\* analysis goes first.
SPECIFICATION FairSpec
CONSTANTS
  x1 = x1
  x2 = x2
  p1 = p1
  p2 = p2
  Nobody = Nobody
  Advice = {x1, x2}
  User = {p1, p2}
  Worker = {w1, w2}
  Cases <- MCCases
  MaxAttempts = 2
  DailyLimit = 1
  Day = 2
  Lease = 1
  RetryAfter = {0}
CHECK_DEADLOCK FALSE
INVARIANTS
  TranslationsAreFaithful
PROPERTIES
  EveryTranslationSettles
