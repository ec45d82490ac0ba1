\* A capture and a recording end: there is no next step then.
SPECIFICATION Spec
CHECK_DEADLOCK FALSE
CONSTANT a = a
CONSTANT b = b
CONSTANT v = v
CONSTANT GatedChannels = {a, v}
CONSTANT CountedChannels = {a, b}
CONSTANT VideoChannels = {v}
CONSTANT Target = 2
CONSTANT MaxPts = 1
CONSTANT MaxSize = 2
CONSTANT Capacity = 2
CONSTANT MaxHeard = 4
CONSTANT p = p
CONSTANT q = q
CONSTANT x = x
CONSTANT Buttons = {p, q}
CONSTANT Axes = {x}
CONSTANT MaxAxis = 4
CONSTANT Threshold = 2
INVARIANT SuccessMeansComplete
INVARIANT SavesWhatWasHeard
INVARIANT ShownFollowsInput
PROPERTY ResultIsFinal
PROPERTY CapturesEnd
