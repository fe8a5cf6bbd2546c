CONSTANTS
  Calls = {c1, c2, c3}
  Stoppers = {s1, s2}
  None = None
SPECIFICATION Spec
SYMMETRY Symm
INVARIANT OneSearch
