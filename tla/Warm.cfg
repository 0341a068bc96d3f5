SPECIFICATION Spec
CONSTANTS
  Syms = {x}
  Modes <- SafetyModes
  None = None
INVARIANTS LatchBudget LiveTierExactUnlessStale
