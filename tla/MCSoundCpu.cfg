CONSTANTS
  MaxDepth = 3
SPECIFICATION FairSpec
INVARIANTS
  NoSpuriousInterrupt
  CommandOwed
PROPERTIES
  CommandHeard
