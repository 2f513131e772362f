SPECIFICATION Spec
CONSTANTS
  Runs = {r1}
  Tasks = {"review", "bare", "ghost"}
  Declared = {"review", "bare"}
  Procedures = {"review", "ghost"}
  MayCall = {"review"}
  AllowedSkills = {"review", "ghost"}
  MaxCrashes = 1
INVARIANTS AuditedBeforeEffect ProposalExplained FinishClosesRun CompletedIsTrue
PROPERTIES RunAnswered
CHECK_DEADLOCK FALSE
