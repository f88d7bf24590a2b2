\* A send that fails, and a redelivery within the lease.
SPECIFICATION Spec
CONSTANTS
  Deliveries = {p1, p2}
  Attempts = 2
  MaxFaults = 2
  NULL = NULL
INVARIANTS
  AcknowledgedMeansTold
SYMMETRY Symmetry
