\* Three commands that overlap, on three versions.
SPECIFICATION MigrateSpec
CONSTANTS
  r1 = r1
  r2 = r2
  r3 = r3
  Runners = {r1, r2, r3}
  Versions = {1, 2, 3}
  Up <- UpFilesOf
  Down <- DownFilesOf
  Tables <- AllTables
  Models <- ModelItems
SYMMETRY MigrateSymmetry
INVARIANTS
  MigrateTypeOK
PROPERTIES
  InStepUnlessOvertaken
  AppliedInOrder
  RolledBackFromTheEnd
