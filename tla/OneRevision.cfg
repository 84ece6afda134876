CONSTANTS
  Jobs = {j1}
  Revisions = 2
SPECIFICATION Spec
INVARIANT
  OneRevision
