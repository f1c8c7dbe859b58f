\* Pause and resume requests against the admission pass.
SPECIFICATION Spec
CONSTANTS
    NumTasks = 2
    MaxHandles = 3
    Parked = {1, 2}
    Selective = {2}
    Limited = {}
    Sourceless = {}
    StrictEngine = FALSE
    MaxActive = 1
    SpaceAnswers = {"admits", "full", "unreadable"}
    OpKinds = {"pause", "resume"}
    Scenarios <- OperatorRequests
    EngineEvents = {"metadata", "finish", "full"}
INVARIANTS
    AdmissionSafe
    PauseSticks
    OneTransfer
