\* An operator's pause of a task the schedule parked.
SPECIFICATION Spec
CONSTANTS
    NumTasks = 1
    MaxHandles = 3
    Parked = {}
    Selective = {}
    Limited = {}
    Sourceless = {}
    StrictEngine = FALSE
    MaxActive = 1
    SpaceAnswers = {"admits"}
    OpKinds = {"pause"}
    Scenarios <- CellsAndRequest
    EngineEvents = {}
INVARIANTS
    PauseSticks
