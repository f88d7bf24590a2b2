\* An applier that throws, and the job's next attempt.
SPECIFICATION Spec
CONSTANTS
  Deliveries = {p1, p2}
  Attempts = 2
  MaxFaults = 2
  NULL = NULL
PROPERTIES
  LeftToItsOwner
SYMMETRY Symmetry
