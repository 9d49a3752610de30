SPECIFICATION Spec
INVARIANTS
  FeaturesAsserted
CHECK_DEADLOCK FALSE
