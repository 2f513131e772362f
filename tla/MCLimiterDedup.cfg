SPECIFICATION Spec
CONSTANTS
  Keys = {k1, k2, k3, k4, k5, k6}
  DedupTtl = 4
  DedupMaxEntries = 5
  Window = 1
  WindowMaxAppends = 1
  MaxTime = 8
SYMMETRY Symmetry
INVARIANTS OncePerTtl
