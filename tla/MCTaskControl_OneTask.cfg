\* One task against every combination of two actors, with failures and a crash.
SPECIFICATION Spec
CONSTANTS
    NumTasks = 1
    MaxHandles = 2
    Parked = {1}
    Selective = {1}
    Limited = {}
    Sourceless = {}
    StrictEngine = FALSE
    MaxActive = 1
    SpaceAnswers = {"admits"}
    OpKinds = {"pause", "resume", "remove", "delete", "complete"}
    Scenarios <- EveryActor
    EngineEvents = {"full", "lose"}
INVARIANTS
    MarkOnlyQueued
    LeaseOwned
    ParkedReleased
