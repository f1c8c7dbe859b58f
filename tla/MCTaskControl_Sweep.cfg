\* The admission pass and the reconciler; every task finishes.
SPECIFICATION FairSpec
CONSTANTS
    NumTasks = 2
    MaxHandles = 6
    Parked = {2}
    Selective = {2}
    Limited = {}
    Sourceless = {}
    StrictEngine = FALSE
    MaxActive = 1
    SpaceAnswers = {"admits"}
    OpKinds = {}
    Scenarios <- PassAndSweep
    EngineEvents = {"metadata", "finish"}
INVARIANTS
    StartsInTurn
PROPERTIES
    EveryTaskFinishes
