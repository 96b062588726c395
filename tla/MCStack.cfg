SPECIFICATION Spec
INVARIANTS
  HeapSound PbufsSound WakeupsSound ArpSound  ServicesSound
  DatagramsSound LineSound NegotiationSound LinkSound
PROPERTIES AddressesSound
CHECK_DEADLOCK FALSE
