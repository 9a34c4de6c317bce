SPECIFICATION MCSpec
CONSTANTS
  v0 = v0
  v1 = v1
  v2 = v2
  po = po
  arch = arch
  F1 = F1
  Typed = Typed
  None = None
  Aspects = {"product"}
  Features = {F1}
  Values <- MCValues
  Personas <- MCPersonas
SYMMETRY MCSymmetry
INVARIANT OneSidedChangesKept
