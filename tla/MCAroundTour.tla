--------------------------- MODULE MCAroundTour ---------------------------
(***************************************************************************)
(* EmbedKeys, TourEdits and Cleanup for TLC.  They write different columns *)
(* and different stores, and each has in it what the others do to the rows *)
(* it reads, so a behaviour follows one of them, chosen at the start, and  *)
(* leaves the state of the other two as it was.                            *)
(***************************************************************************)
EXTENDS EmbedKeys, TourEdits, Cleanup

CONSTANTS w1, w2, t1, s1, s2

VARIABLE part

allVars == <<keyVars, editVars, cleanupVars, part>>

Corner(s, corners) == [scene |-> s, corners |-> corners]

\* Two rooms of one photo, a scan with a room of too few corners, one with too many.
SomePosts == {<<Corner(s1, "fit"), Corner(s1, "fit")>>,
              <<Corner(s2, "few"), Corner(s2, "fit")>>,
              <<Corner(s1, "many")>>}

\* Two pages of one scene, if a page is one object.
SomeObjects == {<<s1, 1>>, <<s1, 2>>}

AroundTourInit ==
  /\ KeysInit /\ EditsInit /\ CleanupInit
  /\ part \in {"keys", "edits", "cleanup"}

AroundTourNext ==
  /\ \/ part = "keys" /\ KeysNext /\ UNCHANGED <<editVars, cleanupVars>>
     \/ part = "edits" /\ EditsNext /\ UNCHANGED <<keyVars, cleanupVars>>
     \/ part = "cleanup" /\ CleanupNext /\ UNCHANGED <<keyVars, editVars>>
  /\ UNCHANGED part

AroundTourSpec == AroundTourInit /\ [][AroundTourNext]_allVars /\ JobFairness
=============================================================================
