SPECIFICATION Spec
CONSTANTS
  Users = {"u1", "u2", "u3"}
  Importers = {"u1"}
  ParamModules = {"u1"}
  Configs = {"bluesim", "verilog", "xst", "vivado", "altera", "software"}
  Edits <- MCEdits
  Values = {1}
  MaxBuilds = 3
  MaxEdits = 2
  MaxFailures = 1
INVARIANTS
  UpToDate
  NoEarlyRead
  DependsCurrent
  NothingRedone
CHECK_DEADLOCK FALSE
