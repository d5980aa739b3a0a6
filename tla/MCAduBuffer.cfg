SPECIFICATION Spec
CONSTANTS
  Capacity = 8
  MaxMessage = 8
  Values = {1, 2}
INVARIANTS TypeOK InBounds SentAsPut GotAsReceived RefusedAtEnd
