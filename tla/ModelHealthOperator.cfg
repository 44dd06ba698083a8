SPECIFICATION HealthSpec
CONSTANTS
  gpt = gpt
  mini = mini
  Candidates <- OneModel
  Threshold = 2
  OnlyFailed = TRUE
  MaxRestarts = 0
PROPERTIES OperatorOutranks
