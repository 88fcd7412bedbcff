\* Two workers around one tour and two scenes: its embed keys, its edits, its stored objects.
SPECIFICATION AroundTourSpec
CONSTANTS
  w1 = w1
  w2 = w2
  t1 = t1
  s1 = s1
  s2 = s2
  Workers = {w1, w2}
  Tours = {t1}
  Scenes = {s1, s2}
  Elsewhere = Elsewhere
  KeyLimit = 1
  MaxKeys = 3
  Photos = {s1, s2}
  NoScene = NoScene
  MaxRooms = 2
  MaxScenes = 1
  Posts <- SomePosts
  Deleters = {w1}
  ListLimit = 1
  PageSize = 1
  Stored <- SomeObjects
  MaxJobs = 2
INVARIANTS
  KeysTypeOK
  KeysBounded
  EditsTypeOK
  EditsKept
  LinksArePhotos
  CleanupTypeOK
  NothingLeftBehind
  LiveObjectsKept
PROPERTIES
  RevokedForGood
  RoomsLinked
  EveryCleanupEnds
