CONSTANTS
  Frames = {f1, f2}
  Blocks = {b1, b2, b3}
  Values = {0, 1}
  Zero = 0
  NoBlock = NoBlock
  NoResult = NoResult
  MaxRefs = 2
SYMMETRY BlockSymmetry
SPECIFICATION Spec
INVARIANTS CacheCoherent
PROPERTIES HeldBlocksStay ImplementsBlockStore
CHECK_DEADLOCK FALSE
