--------------------------- MODULE MCTourContent ---------------------------
(***************************************************************************)
(* Instances of TourContent for TLC.                                       *)
(***************************************************************************)
EXTENDS TourContent

CONSTANTS w1, w2, t1, t2, s1, s2, h1, h2, o1, p1, q1, q2, q3

ContentSymmetry ==
  Permutations(Workers) \cup Permutations(Scenes) \cup Permutations(Hotspots) \cup
    Permutations(Stops)

\* A later start, which CreateScene, CreateHotspot and CreatePlayTour reach: a tour with two
\* scenes whose hotspots lead to each other, and a play tour that stops at one.
CrossedInit ==
  /\ rows = [r \in {t1, s1, s2, h1, h2, p1, q1} |->
               CASE r \in {s1, s2, p1} -> [of |-> t1, to |-> None]
                 [] r = h1 -> [of |-> s1, to |-> s2]
                 [] r = h2 -> [of |-> s2, to |-> s1]
                 [] r = q1 -> [of |-> p1, to |-> s1]
                 [] OTHER  -> [of |-> None, to |-> None]]
  /\ op = [w \in Workers |-> Idle]
  /\ used = [r \in {s1, s2, h1, h2, p1, q1} |-> IF r \in {p1, q1} THEN 1 ELSE 0]

\* The requests that hold locks, and those about overlays, which wait for them: hotspots, of
\* which content_overlap has every request, are written in the same way.
LockingNext ==
  \E w \in Workers :
    Transactions(w) \/ OverlayRequest(w) \/ ChangeNothing(w) \/ Statement(w) \/ Ends(w) \/ Abandon(w)

FairCrossedSpec == CrossedInit /\ [][LockingNext]_contentVars /\ ContentFairness
=============================================================================
