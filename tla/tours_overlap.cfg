\* Two requests at a time, of a user and an admin, on up to three tours.
SPECIFICATION ToursSpec
CONSTANTS
  w1 = w1
  w2 = w2
  alice = alice
  root = root
  s1 = s1
  s2 = s2
  Workers = {w1, w2}
  Users = {alice, root}
  Admins = {root}
  Slugs = {s1}
  MaxTours = 3
SYMMETRY ToursWorkerSymmetry
INVARIANTS
  ToursTypeOK
  FeaturedBounded
  FreeToursBounded
  RevivedOnlyByStaleSave
