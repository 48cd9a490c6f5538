\* Two read requests, revisions up to 3.
CONSTANTS
  r1 = r1
  r2 = r2
  Readers = {r1, r2}
  MaxRevision = 3
SPECIFICATION Spec
INVARIANTS NotAhead LoneReadFresh 
PROPERTY ReadsEnd
