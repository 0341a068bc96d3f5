SPECIFICATION Spec
CONSTANTS
  b1 = b1
  b2 = b2
  Files = {f1, f2}
  Contents = {c1, c2}
  Builders = {b1, b2}
  Window = 2
  Horizon = 4
  None = None
  Modes <- HeldModes
SYMMETRY Renamings
INVARIANT ResultIsCurrent
