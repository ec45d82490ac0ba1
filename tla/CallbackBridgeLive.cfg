\* One application thread and two delivery threads: calls and deliveries end.
SPECIFICATION FairSpec
CONSTANTS
  t1 = t1
  t2 = t2
  n1 = n1
  n2 = n2
  c1 = c1
  c2 = c2
  c3 = c3
  NoThread = NoThread
  NoCallback = NoCallback
  AppThreads <- OneAppThread
  NativeThreads <- TwoNativeThreads
  Callbacks <- TwoCallbacks
  Kinds = {"rawAudio", "connect"}
  Drains = {"rawAudio", "connect"}
  ExplicitClose = TRUE
PROPERTIES
  EveryCallReturns
  EveryDeliveryEnds
