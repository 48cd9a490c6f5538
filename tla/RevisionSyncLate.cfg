\* One read request that is overtaken by the election.
CONSTANTS
  r1 = r1
  Readers = {r1}
  MaxRevision = 3
SPECIFICATION Spec
PROPERTY LeaderNeverBack
