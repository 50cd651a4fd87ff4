SPECIFICATION Spec
CONSTANTS
  Requests = {r1, r2, r3}
  Structs = {s1, s2}
INVARIANTS JobIsOwn AnswerIsTrue
SYMMETRY Symmetry
CHECK_DEADLOCK FALSE
