\* A release between the sweep's two listings.
SPECIFICATION Spec
CONSTANTS
    NumTasks = 1
    MaxHandles = 3
    Parked = {}
    Selective = {}
    Limited = {}
    Sourceless = {}
    StrictEngine = FALSE
    MaxActive = 1
    SpaceAnswers = {"admits"}
    OpKinds = {}
    Scenarios <- PassAndSweep
    EngineEvents = {}
INVARIANTS
    OneTransfer
