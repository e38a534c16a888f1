CONSTANTS
  Exceptions = {"resource", "timeout"}
  MAX_HALT_CANCELLED = 3
  Solutions = {s1, s2}
  Unconvertible = {s2}
  Files = {f1, f2}
  MaxSolutions = 2
  MaxFiles = 2
  RefLimit = 8
SPECIFICATION Spec
INVARIANTS
  TypeOK
  ContextCurrent
  FramesMatchHandles
  AllSolutions
  NoSwallowedException
  ExceptionHasOrigin
  BoundedLeak
  InitMakesUsable
PROPERTY
  CallReturns
