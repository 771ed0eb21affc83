SPECIFICATION Spec
CONSTANTS
    Lamp = {"on", "off"}
    MaxJobs = 1
    MaxMoves = 3
INVARIANTS
    DrawingRegenerates
CHECK_DEADLOCK FALSE
