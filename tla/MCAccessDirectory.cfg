SPECIFICATION Spec
CONSTANTS
  core = core
  archive = archive
  robot = robot
  key = key
  team = team
  Hosts = {"github", "gitlab"}
  Resources <- TwoRepositories
  Unreadable <- NameOfArchive
  Bots <- OneBot
  Keys <- OneKey
  Teams <- OneTeam
  Used <- OneKey
  Accounts = {1, 2}
  Names <- SomeNames
  Username <- BothRobots
  Identifier <- BotAndNumber
  Beginnings <- OneBeginning
  MaxChanges = 2
INVARIANTS
  RegisterMatchesPlatform
PROPERTIES
  PathIntoProductionIsReported
  MovesWithItsAccount
CHECK_DEADLOCK FALSE
