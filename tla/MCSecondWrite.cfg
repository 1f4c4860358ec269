CONSTANTS
  MaxDepth = 3
SPECIFICATION Spec
INVARIANTS
  OneNmiPerRead
