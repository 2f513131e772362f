SPECIFICATION Spec
CONSTANTS
  v1 = v1
  v2 = v2
  v3 = v3
  p1 = p1
  p2 = p2
  Specs <- MCSpecs
  Compilable <- MCCompilable
  NoFile = NoFile
  EntityCount = 3
  MAX_ATTEMPTS = 2
  MaxGenerations = 2
  Runtimes = {p1, p2}
  Envs <- MCEnvs
  MaxStarts = 2
  MaxCommands = 3
INVARIANTS HeadIsCompiled ExitTellsTruth MigratedOnce
PROPERTIES CommandsEnd
CHECK_DEADLOCK FALSE
