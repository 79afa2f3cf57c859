CONSTANTS
  NoRate = NoRate
  Rates = {r250, r500}
  FdMode = TRUE
  FifoDepth = 2
SPECIFICATION Spec
INVARIANTS
  SilentWhenListening
  HeardWhenNotListening
  ListeningFifoEmpty
  ListeningNeverBusOff
PROPERTIES
  ImplementsCanIface
