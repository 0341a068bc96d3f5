SPECIFICATION FairSpec
CONSTANTS
  g1 = g1
  g2 = g2
  s1 = s1
  s2 = s2
  Gens = {g1, g2}
  First = g1
  StampOf <- MCStampOf
  Trainable <- MCTrainable
  SameDim = FALSE
  Warmers = {w1, w2}
  MaxDisturbances = 2
  None = None
INVARIANTS HandleServesOwnGraph AdoptedRowsAreMappedOrOwn CommitsItsOwn FreshIsAdoptable
PROPERTIES FreshStays TierHeals
