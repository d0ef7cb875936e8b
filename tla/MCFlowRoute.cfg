SPECIFICATION FairSpec
CONSTANTS
  Nodes <- MCNodes
  Roots <- MCRoots
  Parent <- MCParent
  Idx <- MCIdx
  Ancestors <- MCAncestors
  PathOf <- MCPathOf
  Children <- MCChildren
  Tags <- MCTags
  Limiters <- MCLimiters
  MaxGoto = 6
  None = None
INVARIANTS
  WellNested
  ComesBackStarted
PROPERTIES
  IsStructured
  DoWhile
  Ends
