\* Choices of language, made here or elsewhere.
SPECIFICATION DesktopSpec
CONSTANTS
  ann = ann
  bob = bob
  zh = zh
  en = en
  Account = {ann, bob}
  Language = {zh, en}
  SystemLanguage = zh
  NoAccount = NoAccount
  MaxTries = 2
  Situations <- Languages
CHECK_DEADLOCK FALSE
INVARIANTS
  SyncLastsAsLongAsTheSession
