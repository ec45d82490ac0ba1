\* Two blocks and three Python objects: the frame of a plane view, row and
\* memoryview can be gone while they exist.
SPECIFICATION FairSpec
CONSTANTS
  b1 = b1
  b2 = b2
  o1 = o1
  o2 = o2
  o3 = o3
  NoBlock = NoBlock
  NoObject = NoObject
  Native = Native
  Blocks <- TwoBlocks
  Objects <- ThreeObjects
INVARIANTS
  ViewsReadOwnedMemory
  HandlesAreOwned
  WriteKeepsFrame
PROPERTIES
  UnreachedBlocksReturn
