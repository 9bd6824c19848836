\* Two prove runs of either market, one failure or interruption, one save of a keeper.
CONSTANTS
    Builds <- MCBuilds
    Roomy = {"kamino"}
    MaxProves = 2
    MaxSaves = 1
    MaxFailures = 1
SPECIFICATION Spec
INVARIANTS
    TypeOK
    CaughtWasRefused
    OneRunPerPanel
    LeakIsLoud
    GreenIsOfItsRun
