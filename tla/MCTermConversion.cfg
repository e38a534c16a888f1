CONSTANTS
  INT_MIN <- MinusThree
  INT_MAX = 2
  WideNames = {"wide"}
  RValues <- MCRValues
  Terms <- MCTerms
SPECIFICATION Spec
INVARIANTS
  TermRoundTrip
  RoundTrip
  RefusedExactly
