SPECIFICATION LiveSpec
CONSTANTS
  a = a
  b = b
  theme = theme
  width = width
  t1 = t1
  t2 = t2
  Devices = {a}
  Tabs = {t1, t2}
  Locking = {}
  Fields = {theme}
  Values = {0, 1}
  Default = 0
  None = None
  MaxAttempts = 2
  MaxChoices = 2
  MaxRevision = 3
INVARIANTS TypeOK Inductive NoChoiceLost NoBlindOverwrite NoFalseConflict
PROPERTIES CacheNeverRollsBack ChoicesSettle
