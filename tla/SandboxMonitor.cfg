SPECIFICATION Spec
CONSTANTS
    MaxPolls = 1
    Repository = "ours"
    Configurations <- MCConfigurations
    Written <- MCWritten
    Unbounded = {"*"}
    Deployable <- MCDeployable
    MaxPushes = 1
CHECK_DEADLOCK FALSE
INVARIANTS MonitoredWhileItExists
