\* The attempt ends: a behaviour that stops has returned, thrown or rejected.
SPECIFICATION FairSpec
CONSTANTS
    MaxPolls = 2
    Repository = "ours"
    Configurations <- MCConfigurations
    Written <- MCWritten
    Unbounded = {"*"}
    Deployable <- MCDeployable
    MaxPushes = 1
CHECK_DEADLOCK FALSE
INVARIANTS TypeOK ReturnedMeansGone AbortDecides TimeoutStopsAgent
    OverLimitNeverSucceeds AgentWorksOnTheRecorded ConfinedAsConfigured
    OneResultPerAttempt
PROPERTIES AttemptEnds
