\* Two people, one of whom rolls back from a list that the other has overtaken.
SPECIFICATION MigrateSpec
CONSTANTS
  r1 = r1
  r2 = r2
  r3 = r3
  Runners = {r1, r2}
  Versions = {1, 2, 3}
  Up <- UpFilesOf
  Down <- DownFilesOf
  Tables <- AllTables
  Models <- ModelItems
INVARIANTS
  MigrationsTracked
