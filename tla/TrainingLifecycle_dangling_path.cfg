SPECIFICATION Spec
CONSTANTS
  Run = {r1, r2}
  Pid = {p1, p2}
  Name = {n1, n2}
  Kill = {k1}
  NoOne = NoOne
SYMMETRY Symmetry
INVARIANT SlotPathExists
