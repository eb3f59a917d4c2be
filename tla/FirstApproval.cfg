SPECIFICATION Spec
CONSTANTS
  Pod = {p1}
  Admin = {a1, a2}
  LastSecond = 3
SYMMETRY Symmetric
PROPERTY RecoverCreatesTask
