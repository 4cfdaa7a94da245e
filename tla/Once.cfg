SPECIFICATION Spec
CONSTANTS
  k1 = k1  k2 = k2  c1 = c1  c2 = c2  c3 = c3
  Nil = Nil
  Keys = {k1, k2}
  Callers = {c1, c2, c3}
  Evicting = FALSE
SYMMETRY Interchangeable
INVARIANTS NoOverlap
