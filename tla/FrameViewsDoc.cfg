\* What the documents say of a view's life: the code keeps it longer.
SPECIFICATION Spec
CONSTANTS
  b1 = b1
  b2 = b2
  o1 = o1
  o2 = o2
  o3 = o3
  NoBlock = NoBlock
  NoObject = NoObject
  Native = Native
  Blocks <- TwoBlocks
  Objects <- ThreeObjects
PROPERTIES
  ViewsEndWithCallback
