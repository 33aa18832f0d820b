CONSTANTS
  Agents <- MCAgents
  DefaultStages <- MCDefaultStages
  RefinementStages <- MCRefinementStages
  DefaultGates <- MCDefaultGates
  RefinementGates <- MCRefinementGates
  ApiTasks <- MCApiTasks
  MaxRetries = 1
  MaxTasks = 5
  MaxLate = 1
  MaxFailures = 2
  MaxInterventions = 1
SPECIFICATION Spec
INVARIANTS BoundedExecutions GatedStagesWait
CHECK_DEADLOCK FALSE
PROPERTIES Settles
