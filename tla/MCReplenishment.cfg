CONSTANTS
  r1 = r1
  r2 = r2
  r3 = r3
  AiService = ai
  McpServer = mcp
  Requests = {r1, r2, r3}
  ServedBy <- OnMcp
  Positions = {p1, p2}
  Initial <- FirstSettings
  p1 = p1
  Configs <- Settings
  Candidates <- SomePolicies
  Paths <- Days
  MaxChanges = 1
  MaxCrashes = 1
SPECIFICATION FairSpec
INVARIANTS TypeOK AnswersAreCurrent FileKeepsTraining TwinAgrees
PROPERTY RequestsEnd
CHECK_DEADLOCK FALSE
