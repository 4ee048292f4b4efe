SPECIFICATION Spec
CONSTANTS
  Producer = {p1, p2}
  Discarder = {d1}
  Tx = tx
  Packet = {a, b}
  NoPacket = none
  SlotCount = 2
  RetryCount = 2
  RateChoices = {TRUE}
SYMMETRY Symmetry
INVARIANTS TypeOK SlotsConserved PacketsIntact ClosedWhenIdle
PROPERTIES ImplementsTransport
