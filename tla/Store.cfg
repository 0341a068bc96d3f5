SPECIFICATION FairSpec
CONSTANTS
  b1 = b1
  t1 = t1
  Trees = {t1, t2}
  Builders = {b1, b2}
  Slots = {s1, s2}
  Inodes = {i1, i2, i3}
  Readers = {r1}
  Modes <- CheckedModes
  RereadsRoot = FALSE
  Root = Root
  None = None
  Torn = Torn
INVARIANTS NamedIsComplete  StagingSurvives
PROPERTIES ImplementsContract 
