SPECIFICATION FairSpec
CONSTANTS
  llama = llama
  qwen = qwen
  sonnet = sonnet
  deepseek = deepseek
  Models <- ModelIds
  Family <- FamilyOf
  LocalModels = {llama, qwen}
  Fallback = qwen
  Names = {"local-only", "quality-first"}
  Default = "local-only"
  Builtin <- Shipped
  Menu <- MainMenu
  Runs = {r1}
  MaxClaims = 2
  MaxSaves = 2
  MaxFaults = 1
  NoFile = NoFile
  Torn = Torn
  None = None
INVARIANTS
  OnlyJudgedTextShips
  ListedRunIsProvable
  ForgottenForGood
PROPERTY EveryAskEnds
CHECK_DEADLOCK FALSE
