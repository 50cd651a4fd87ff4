SPECIFICATION Spec
CONSTANTS
  u1 = u1 u2 = u2 u3 = u3 r1 = r1 r2 = r2 r3 = r3 r4 = r4 r5 = r5 r6 = r6 a1 = a1 a2 = a2 a3 = a3
  Users = {u1, u2, u3}
  TpIDs = {a1, a2, a3}
  Requests = {r1, r2, r3, r4, r5, r6}
  input <- Returning
  Serial = TRUE
  MaxUnsaved = 1
  MaxRestarts = 1
  Missing = Missing
INVARIANTS TypeOK ListedWhenQuiet NoDuplicateContacts MutualContactsAreLinked
CHECK_DEADLOCK FALSE
