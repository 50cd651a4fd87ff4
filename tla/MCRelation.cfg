SPECIFICATION Spec
CONSTANTS
  u1 = u1 u2 = u2 u3 = u3 r1 = r1 r2 = r2 r3 = r3 r4 = r4 r5 = r5 r6 = r6 a1 = a1 a2 = a2 a3 = a3
  Users = {u1, u2}
  TpIDs = {a1, a2}
  Requests = {r1, r2, r3}
  input <- Acquainted
  Serial = FALSE
  MaxUnsaved = 2
  MaxRestarts = 0
  Missing = Missing
INVARIANTS StoredWhenQuiet LinksWereTrue
CHECK_DEADLOCK FALSE
