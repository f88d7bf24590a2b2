\* Two overlapping deliveries and three faults, under fairness.
SPECIFICATION FairSpec
CONSTANTS
  Deliveries = {p1, p2}
  Attempts = 2
  MaxFaults = 3
  NULL = NULL
INVARIANTS
  EffectsPaid
PROPERTIES
  ProcessedIsFinal
  RedeliveryHeals
