CONSTANTS
  Jobs = {j1, j2}
  Revisions = 2
SPECIFICATION FairSpec
INVARIANTS
  NothingMissing
  Published
PROPERTIES
  JobsEnd
