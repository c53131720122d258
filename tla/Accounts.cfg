SPECIFICATION Spec
CONSTANTS
  Daemons = {d1, d2}
  Keys = {k1, k2, k3, k4}
  None = None
INVARIANTS KeysToldAreValid RootKeyAuthenticates
SYMMETRY Symmetry
