\* A park that failed for one task of two.
SPECIFICATION Spec
CONSTANTS
    NumTasks = 2
    MaxHandles = 3
    Parked = {}
    Selective = {}
    Limited = {}
    Sourceless = {}
    StrictEngine = FALSE
    MaxActive = 1
    SpaceAnswers = {"admits"}
    OpKinds = {}
    Scenarios <- ParkFails
    EngineEvents = {}
INVARIANTS
    ParkedReleased
