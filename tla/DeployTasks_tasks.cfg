SPECIFICATION Spec
CONSTANTS
    Task = {"migrate", "seed"}
    Release = {1, 2}
    Declares <- Both
    RunsHere <- SeedRest
    FirstRelease = 1
    Lagging = {TRUE, FALSE}
    TaskRunHistory = 1
    MaxUpsets <- Upsets
    MaxRuns = 4
INVARIANTS
    TypeOK
    RunOncePerDeploy
    OneRunAtATime
PROPERTIES
    EarlierRunsFirst
    DeployEnds
