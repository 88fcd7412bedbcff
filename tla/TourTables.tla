----------------------------- MODULE TourTables -----------------------------
(***************************************************************************)
(* What EmbedKeys, TourEdits and Cleanup have in common: the goroutines    *)
(* that serve requests, the ids of tours and scenes, and statements on a   *)
(* table, which is a function from the ids that have a row.  Each of the   *)
(* three keeps of these rows what it reads, and says in one step each what *)
(* the handlers of the others do to them.                                  *)
(***************************************************************************)
EXTENDS Integers, FiniteSets, Sequences

CONSTANTS
  Workers,     \* the goroutines serving requests
  Tours,       \* ids of tours
  Scenes,      \* ids of scenes
  Elsewhere    \* a tour that is none of Tours, or no tour

ASSUME TableWorkersFinite == IsFiniteSet(Workers) /\ Workers # {}
ASSUME TableIdsDisjoint == Tours \cap Scenes = {} /\ Elsewhere \notin Tours \cup Scenes

Saved(table, key, row) ==
  [k \in DOMAIN table \cup {key} |-> IF k = key THEN row ELSE table[k]]

Without(table, gone) == [k \in DOMAIN table \ gone |-> table[k]]

Scenery == UNION {[S -> Tours \cup {Elsewhere}] : S \in SUBSET Scenes}

ScenesOf(table, t) == {s \in DOMAIN table : table[s] = t}

\* A listing of a tour's scenes: as many as the limit allows, in an order users decide on.
FirstScenes(table, t, limit) ==
  {S \in SUBSET ScenesOf(table, t) :
     /\ Cardinality(S) <= limit
     /\ S # ScenesOf(table, t) => Cardinality(S) = limit}

Idle == [pc |-> "idle"]
=============================================================================
