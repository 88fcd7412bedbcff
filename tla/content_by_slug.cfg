\* One request at a time, by clients that name the tour by its slug.
SPECIFICATION ContentSpec
CONSTANTS
  w1 = w1
  w2 = w2
  t1 = t1
  t2 = t2
  s1 = s1
  s2 = s2
  h1 = h1
  h2 = h2
  o1 = o1
  p1 = p1
  q1 = q1
  q2 = q2
  q3 = q3
  None = None
  Workers = {w1}
  Tours = {t1, t2}
  Scenes = {s1}
  Hotspots = {}
  Overlays = {}
  Plays = {}
  Stops = {}
  BySlug = {t1}
INVARIANTS
  ScenesHaveTours
