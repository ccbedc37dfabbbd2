SPECIFICATION Spec
CONSTANTS
    Tasks <- MCTasks
    Parents <- MCParents
    Synthesis = "synthesis"
    FaultTasks <- MCFaultTasks
    Agents <- MCAgents
    MaxRetries = 2
    MaxDeploys = 1
    MaxFailures = 6
CONSTRAINT BoundFailures
CHECK_DEADLOCK FALSE
INVARIANTS TypeOK AttemptsAreCounted MissionsGoOn
