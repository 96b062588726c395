SPECIFICATION Spec
INVARIANTS WindowAnnounced
PROPERTIES
  Reclaimed SynGivenUp AllDelivered NetEnds CallsEnd PppEnds
CHECK_DEADLOCK FALSE
