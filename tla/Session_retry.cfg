SPECIFICATION Spec
CONSTANTS
    Handlers = {h1, h2}
    Api = Api
    Monitor = Monitor
    Loops = {l1, l2}
    NoLoop = NoLoop
    MaxFaults = 2
CHECK_DEADLOCK FALSE
SYMMETRY Symmetry
INVARIANT DropIsRetried
