CONSTANTS
  Values = {x}
  Unbound = Unbound
  GMax = 2
  NLocals = 1
  MaxTrail = 2
  MaxFrames = 4
SPECIFICATION Spec
INVARIANTS
  TypeOK
  BarsInStack
  Recoverable
PROPERTY
  ImplementsStore
