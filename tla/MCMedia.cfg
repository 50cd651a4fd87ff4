SPECIFICATION Spec
CONSTANTS
  Covers = {c1, c2}
  Syncs = {r1}
  Keys = {k1}
  MaxResources = 2
INVARIANTS TypeOK AnswersAreTrue NoShortObject NothingLeftBehind
SYMMETRY Symmetry
CHECK_DEADLOCK FALSE
