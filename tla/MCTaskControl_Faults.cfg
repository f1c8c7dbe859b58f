\* The admission pass alone, with failures of the store or of the engine.
SPECIFICATION Spec
CONSTANTS
    NumTasks = 2
    MaxHandles = 3
    Parked = {1, 2}
    Selective = {2}
    Limited = {1}
    Sourceless = {}
    StrictEngine = FALSE
    MaxActive = 1
    SpaceAnswers = {"admits"}
    OpKinds = {}
    Scenarios <- PassFails
    EngineEvents = {"metadata", "finish", "full", "error", "lose"}
INVARIANTS
    StartsInTurn
    TransfersOwned
