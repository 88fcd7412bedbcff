----------------------------- MODULE TourEdits -----------------------------
(***************************************************************************)
(* Edits of a tour that overlap: UpdateTour, UpdateTourPublishStatus and   *)
(* UpdateTourFeaturedStatus (internal/tours/handlers.go), and the building *)
(* scan with the links of its rooms to photos (internal/floorplan).        *)
(*                                                                         *)
(* Each reads the row, changes its copy and saves every column.  Of the    *)
(* columns the module keeps is_published and building_scan.  What happens  *)
(* to scenes, and the deletion of a tour, are one step each: Cleanup and   *)
(* TourContent have their handlers.                                        *)
(***************************************************************************)
EXTENDS TourTables, RoomLinks

CONSTANTS
  MaxScenes,   \* maxSceneOptions
  Posts        \* the lists of rooms that an app or the language model sends

ASSUME MaxScenesNat == MaxScenes \in Nat
ASSUME PostsAreRooms == Posts \subseteq Seq(Room)
ASSUME ScenesArePhotos == Scenes \subseteq Photos

VARIABLES
  tours,    \* the table
  scenes,   \* the table: scenes[s] is the tour_id of scene s
  req,      \* req[w]: where worker w's handler is, and its locals
  past      \* history, never read by the program

editVars == <<tours, scenes, req, past>>

Columns == {"published", "scan"}

TourRow == [published : BOOLEAN, scan : Seq(Room)]

\* named: the columns that the request gives.
SaveReq    == [pc : {"save"}, t : Tours, row : TourRow, named : SUBSET Columns,
               stale : BOOLEAN]
LinkReq    == [pc : {"link"}, t : Tours, row : TourRow, rooms : Posts, stale : BOOLEAN]
AnalyzeReq == [pc : {"list"}, t : Tours] \cup [pc : {"ask"}, photos : SUBSET Scenes]
AnswerReq  == [pc : {"answer"}, rooms : Seq(Room)]

\* last: what was last asked of each column; undone: columns overwritten since, by a save
\* of an out-of-date copy; been: the photos a tour has, or had.
Past == [last : [Tours -> TourRow], undone : [Tours -> SUBSET Columns],
         been : [Tours -> SUBSET Scenes]]

\* A tour as CreateTour makes it, unless the body publishes it: hidden, and without a scan.
NewTour == [published |-> FALSE, scan |-> <<>>]

Exists(t) == t \in DOMAIN tours

Goto(w, r) == req' = [req EXCEPT ![w] = r]

HoldsCopy(v, t) == req[v].pc \in {"save", "link"} /\ req[v].t = t

\* The table is left as new: copies that other handlers hold of a row that changed are from
\* then on out of date.
Write(w, t, new, next) ==
  /\ tours' = new
  /\ req' = [v \in Workers |->
               IF v = w THEN next
               ELSE IF HoldsCopy(v, t) /\ new # tours THEN [req[v] EXCEPT !.stale = TRUE]
               ELSE req[v]]

-----------------------------------------------------------------------------
(* Editing *)

\* Mutant of Edited: what a body leaves out is cleared.
Edited_Cleared(row, body) ==
  [c \in Columns |-> IF c \in DOMAIN body THEN body[c] ELSE NewTour[c]]

\* Mutant of Edited: the body is the row.
Edited_BodyOnly(row, body) == body

Edited(row, body) ==
  [c \in Columns |-> IF c \in DOMAIN body THEN body[c] ELSE row[c]]

SaveNext(w, t, row, body, stale) ==
  Goto(w, [pc |-> "save", t |-> t, row |-> Edited(row, body), named |-> DOMAIN body,
           stale |-> stale])

Edit(w, t, body) ==
  /\ req[w].pc = "idle" /\ Exists(t)
  /\ SaveNext(w, t, tours[t], body, FALSE)
  /\ UNCHANGED <<tours, scenes, past>>

\* Any part of the row; <<>> stands for columns that are not kept, and for the requests,
\* as UpdateTourFeaturedStatus, that change no others.
UpdateTour(w, t) == \E b \in BOOLEAN : Edit(w, t, <<>>) \/ Edit(w, t, [published |-> b])

UpdateTourPublishStatus(w, t) == \E b \in BOOLEAN : Edit(w, t, [published |-> b])

DeleteBuildingScan(w, t) == Edit(w, t, [scan |-> <<>>])

\* UPDATE every column, and if no row was there INSERT it.
SaveTour(w) ==
  /\ req[w].pc = "save"
  /\ LET t == req[w].t
         row == req[w].row
         named == req[w].named
     IN /\ Write(w, t, Saved(tours, t, row), Idle)
        /\ past' = [past EXCEPT
             !.last[t] = [c \in Columns |-> IF c \in named THEN row[c] ELSE @[c]],
             !.undone[t] = (@ \ named) \cup
                {c \in Columns \ named : req[w].stale /\ row[c] # past.last[t][c]}]
  /\ UNCHANGED scenes

-----------------------------------------------------------------------------
(* Rooms and photos *)

Listed(t) == FirstScenes(scenes, t, MaxScenes)

SaveBuildingScan(w, t) ==
  /\ req[w].pc = "idle" /\ Exists(t)
  /\ \E rooms \in Posts :
       /\ Sound(rooms)
       /\ Goto(w, [pc |-> "link", t |-> t, row |-> tours[t], rooms |-> rooms, stale |-> FALSE])
  /\ UNCHANGED <<tours, scenes, past>>

LinkRooms(w) ==
  /\ req[w].pc = "link"
  /\ \E photos \in Listed(req[w].t) :
       SaveNext(w, req[w].t, req[w].row, [scan |-> Linked(req[w].rooms, photos)], req[w].stale)
  /\ UNCHANGED <<tours, scenes, past>>

Analyze(w, t) ==
  /\ req[w].pc = "idle" /\ Exists(t)
  /\ Goto(w, [pc |-> "list", t |-> t])
  /\ UNCHANGED <<tours, scenes, past>>

ListPhotos(w) ==
  /\ req[w].pc = "list"
  /\ \E photos \in Listed(req[w].t) : Goto(w, [pc |-> "ask", photos |-> photos])
  /\ UNCHANGED <<tours, scenes, past>>

\* The language model may answer anything, a photo it was not told of included.
ModelAnswers(w) ==
  /\ req[w].pc = "ask"
  /\ \E rooms \in Posts :
       Goto(w, [pc |-> "answer", rooms |-> Linked(Usable(rooms), req[w].photos)])
  /\ UNCHANGED <<tours, scenes, past>>

-----------------------------------------------------------------------------
TourIsDeleted(w, t) ==
  /\ req[w].pc = "idle" /\ Exists(t)
  /\ Write(w, t, Without(tours, {t}), Idle)
  /\ scenes' = Without(scenes, ScenesOf(scenes, t))
  /\ UNCHANGED past

\* CreateScene, and UpdateScene, which may move a scene.
SceneIsSaved(s, t) ==
  /\ scenes' = Saved(scenes, s, t)
  /\ past' = [past EXCEPT !.been[t] = @ \cup {s}]
  /\ UNCHANGED <<tours, req>>

\* Deleted, or moved to a tour that is none of Tours.
SceneIsGone(s) ==
  /\ s \in DOMAIN scenes
  /\ scenes' = Without(scenes, {s})
  /\ UNCHANGED <<tours, req, past>>

\* The request is over: answered, timed out or failed at a statement.
Respond(w) ==
  /\ req[w].pc # "idle"
  /\ Goto(w, Idle)
  /\ UNCHANGED <<tours, scenes, past>>

\* Refusals, and what only reads.
Refuse(w) == req[w].pc = "idle" /\ UNCHANGED editVars

EditsInit ==
  /\ tours = [t \in Tours |-> NewTour]
  /\ scenes = [s \in {} |-> s]
  /\ req = [w \in Workers |-> Idle]
  /\ past = [last |-> tours, undone |-> [t \in Tours |-> {}], been |-> [t \in Tours |-> {}]]

EditRequest(w) ==
  \E t \in Tours :
    \/ UpdateTour(w, t) \/ UpdateTourPublishStatus(w, t) \/ TourIsDeleted(w, t)
    \/ SaveBuildingScan(w, t) \/ DeleteBuildingScan(w, t) \/ Analyze(w, t)

EditStatement(w) == SaveTour(w) \/ LinkRooms(w) \/ ListPhotos(w) \/ ModelAnswers(w)

EditsNext ==
  \/ \E w \in Workers : EditRequest(w) \/ EditStatement(w) \/ Respond(w) \/ Refuse(w)
  \/ \E s \in Scenes :
       SceneIsGone(s) \/ \E t \in Tours : SceneIsSaved(s, t)

EditsSpec == EditsInit /\ [][EditsNext]_editVars

-----------------------------------------------------------------------------
(* Properties *)

\* The tables hold well-formed rows and every handler the locals of its place.
EditsTypeOK ==
  /\ DOMAIN tours \subseteq Tours /\ \A t \in DOMAIN tours : tours[t] \in TourRow
  /\ scenes \in Scenery
  /\ req \in [Workers -> {Idle} \cup SaveReq \cup LinkReq \cup AnalyzeReq \cup AnswerReq]
  /\ past \in Past

\* A tour is as it was last asked to be, column by column, whatever else was edited
\* meanwhile, but for the columns that a request overwrote which had read the row before
\* (handlers.go:258-340, 506-514, scan.go:91-101).
EditsKept ==
  \A t \in DOMAIN tours, c \in Columns :
    tours[t][c] = past.last[t][c] \/ c \in past.undone[t]

\* Every room of a stored scan shows a photo of its own, which is one of the tour's or has
\* been: photos go and move while a scan is linked and saved (scan.go:64-81, 94).
LinksArePhotos ==
  \A t \in DOMAIN tours : LET scan == tours[t].scan IN
    \A i \in DOMAIN scan : scan[i].scene # NoScene =>
      /\ scan[i].scene \in past.been[t]
      /\ \A j \in DOMAIN scan \ {i} : scan[j].scene # scan[i].scene

\* What the app posts and what the language model answers is linked by the same rule: of
\* the rooms that name a photo listed for them the first keeps it, and no room else is
\* changed; rooms the analysis cannot use are gone and take no photo
\* (scan.go:69-81, floorplan/handlers.go:202-222).
RoomsLinked ==
  [][\A w \in Workers :
       /\ req[w].pc = "link" /\ req'[w].pc = "save" =>
            \E photos \in Listed(req[w].t) :
              IsLinking(req[w].rooms, photos, req'[w].row.scan)
       /\ req[w].pc = "ask" /\ req'[w].pc = "answer" =>
            \E rooms \in Posts :
              IsLinking(Usable(rooms), req[w].photos, req'[w].rooms)]_req
=============================================================================
