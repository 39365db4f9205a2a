SPECIFICATION ContainersSpec
CHECK_DEADLOCK FALSE
CONSTANTS
  Vec = {v, w}
  Value = {x, zero}
  Default = zero
  Unspecified = Unspecified
  Raw = Raw
  None = None
  MaxCapacity = 3
  MaxLost = 1
  List = {l, m}
  Address = {a1, a2, a3, a4}
  Simple = {s, t}
  MaxSimpleSize = 3
  Optionals = {o, p}
SYMMETRY ContainersSymmetry

PROPERTY StrongExceptionSafety
