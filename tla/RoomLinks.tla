----------------------------- MODULE RoomLinks -----------------------------
(***************************************************************************)
(* Which rooms of a building keep their link to a photo (a scene of the    *)
(* tour): the loops of SaveBuildingScan (internal/floorplan/scan.go) and   *)
(* Analyze (internal/floorplan/handlers.go) over the rooms they are given, *)
(* and what those loops are meant to compute.                              *)
(***************************************************************************)
EXTENDS Naturals, Sequences

CONSTANTS
  Photos,      \* ids of photos
  NoScene,     \* "": a room without a photo
  MaxRooms     \* maxScanRooms

ASSUME NoSceneIsNone == NoScene \notin Photos
ASSUME MaxRoomsNat == MaxRooms \in Nat

\* few: under three corners; many: more than maxRoomCorners.
Room == [scene : Photos \cup {NoScene}, corners : {"few", "fit", "many"}]

\* The photos that the rooms done so far have used.
Used(done) == {done[i].scene : i \in DOMAIN done} \ {NoScene}

\* Mutant of LinkRoom: what is used is not written down.
LinkRoom_Reused(valid, done, room) ==
  Append(done, [room EXCEPT !.scene = IF @ \in valid THEN @ ELSE NoScene])

\* Mutant of LinkRoom: any photo not yet used, of whatever tour.
LinkRoom_AnyScene(valid, done, room) ==
  Append(done, [room EXCEPT !.scene = IF @ \in Used(done) THEN NoScene ELSE @])

LinkRoom(valid, done, room) ==
  Append(done, [room EXCEPT !.scene = IF @ \in valid \ Used(done) THEN @ ELSE NoScene])

\* done[i] is what the loop has made of the first i rooms.
Linked(rooms, valid) ==
  LET done[i \in 0..Len(rooms)] ==
        IF i = 0 THEN <<>> ELSE LinkRoom(valid, done[i - 1], rooms[i])
  IN done[Len(rooms)]

\* validateScan: what an app may store.
Sound(rooms) ==
  /\ Len(rooms) \in 1..MaxRooms
  /\ \A i \in DOMAIN rooms : rooms[i].corners = "fit"

\* What the analysis keeps of the rooms the language model named.
Usable(rooms) ==
  LET kept[i \in 0..Len(rooms)] ==
        IF i = 0 THEN <<>>
        ELSE IF rooms[i].corners = "few" THEN kept[i - 1] ELSE Append(kept[i - 1], rooms[i])
  IN kept[Len(rooms)]

-----------------------------------------------------------------------------
(* What linking means: a room keeps its photo if the photo is valid and no *)
(* earlier room has it.                                                    *)

KeepsLink(rooms, valid, i) ==
  /\ rooms[i].scene \in valid
  /\ \A j \in 1..(i - 1) : rooms[j].scene # rooms[i].scene

IsLinking(rooms, valid, out) ==
  /\ DOMAIN out = DOMAIN rooms
  /\ \A i \in DOMAIN rooms :
       /\ out[i].corners = rooms[i].corners
       /\ out[i].scene = IF KeepsLink(rooms, valid, i) THEN rooms[i].scene ELSE NoScene
=============================================================================
