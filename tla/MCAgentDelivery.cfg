\* One run, two actions, every frame delivered at any time and any number of times.
CONSTANTS
    Agents = {a1}
    NoAgent = NoAgent
    Conns = {c1}
    Actions = {x1, x2}
    SeenLimit = 2
    MaxVersion = 2
    MaxTime = 2
    MaxFrames = 3
    MaxStarts = 2
SPECIFICATION DeliverySpec
PROPERTIES NoRepeatBeforeDeadline
CHECK_DEADLOCK FALSE
SYMMETRY Symmetry
