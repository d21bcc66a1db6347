SPECIFICATION Spec
CONSTANTS
    Task = {"migrate", "seed"}
    Release = {1, 2}
    Declares <- Both
    RunsHere <- SeedRest
    FirstRelease = 1
    Lagging = {FALSE}
    TaskRunHistory = 1
    MaxUpsets <- Upsets
    MaxRuns = 3

PROPERTIES MigratedForIt
