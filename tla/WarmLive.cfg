SPECIFICATION FairSpec
CONSTANTS
  Syms = {x}
  Modes <- LiveModes
  None = None
PROPERTIES EventuallyTier 
