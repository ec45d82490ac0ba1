\* Two application threads and two delivery threads: the safety properties.
SPECIFICATION Spec
CONSTANTS
  t1 = t1
  t2 = t2
  n1 = n1
  n2 = n2
  c1 = c1
  c2 = c2
  c3 = c3
  NoThread = NoThread
  NoCallback = NoCallback
  AppThreads <- TwoAppThreads
  NativeThreads <- TwoNativeThreads
  Callbacks <- ThreeCallbacks
  Kinds = {"rawAudio", "rawVideo", "connect"}
  Drains = {"rawAudio", "connect"}
  ExplicitClose = TRUE
SYMMETRY Symmetry
INVARIANTS
  PythonOnlyUnderGil
  NoDanglingCallback
  NoLeakedCallback
  QuietAfterTeardown
  NoGilWaitCycle
PROPERTY
  KeepsCallbackContract
