\* Two overlapping requests on two scenes whose hotspots lead to each other.
SPECIFICATION FairCrossedSpec
CONSTANTS
  w1 = w1
  w2 = w2
  t1 = t1
  t2 = t2
  s1 = s1
  s2 = s2
  h1 = h1
  h2 = h2
  o1 = o1
  p1 = p1
  q1 = q1
  q2 = q2
  q3 = q3
  None = None
  Workers = {w1, w2}
  Tours = {t1}
  Scenes = {s1, s2}
  Hotspots = {h1, h2}
  Overlays = {o1}
  Plays = {p1}
  Stops = {q1}
  BySlug = {}
PROPERTIES
  DeletionComplete
  EveryTransactionEnds
