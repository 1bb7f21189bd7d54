SPECIFICATION Spec
CONSTANTS
  llama = llama
  qwen = qwen
  sonnet = sonnet
  deepseek = deepseek
  Models <- ModelIds
  Family <- FamilyOf
  LocalModels = {llama, qwen}
  Fallback = qwen
  Names = {"local-only", "quality-first"}
  Default = "local-only"
  Builtin <- Shipped
  Menu <- ClinicMenu
  Runs = {r1}
  MaxClaims = 1
  MaxSaves = 1
  MaxFaults = 0
  NoFile = NoFile
  Torn = Torn
  None = None
INVARIANT LocalOnlyHolds
CHECK_DEADLOCK FALSE
