\* One command at a time.
SPECIFICATION MigrateSpec
CONSTANTS
  r1 = r1
  r2 = r2
  r3 = r3
  Runners = {r1}
  Versions = {1, 2, 3}
  Up <- UpFilesOf
  Down <- DownFilesOf
  Tables <- AllTables
  Models <- ModelItems
INVARIANTS
  EveryStatementApplied
