------------------------------- MODULE Tours -------------------------------
(***************************************************************************)
(* The rows of the table tours: the handlers of internal/tours/handlers.go *)
(* and internal/floorplan/scan.go that create, edit, feature and delete a  *)
(* tour, with the service and repository calls they make.                  *)
(*                                                                         *)
(* No handler runs in a transaction: it reads a row, changes the copy and  *)
(* writes every column of it back (gorm's Save), which also inserts the    *)
(* row again if it is gone.  A step is one SQL statement; requests are     *)
(* served by workers that overlap.  Of the columns, those are kept that    *)
(* some rule of the program is about.                                      *)
(***************************************************************************)
EXTENDS Integers, FiniteSets

CONSTANTS
  Workers,      \* the goroutines serving requests
  Users,        \* the signed-in accounts
  Admins,       \* those whose role is admin
  Slugs,        \* the values Slugify returns for the names in use: never ""
  MaxTours      \* bound: tours ever created

ASSUME ToursWorkersFinite == IsFiniteSet(Workers) /\ Workers # {}
ASSUME AdminsAreUsers == Admins \subseteq Users
ASSUME MaxToursNat == MaxTours \in Nat

VARIABLES
  tours,     \* the table: a function whose domain is the tours that exist
  ids,       \* ids handed out; an id is a number, in the order of UUIDv7
  req,       \* req[w]: where worker w's handler is, and its locals
  trace      \* history, never read by the program

tourVars == <<tours, ids, req, trace>>

TourIds == 1..MaxTours

TourRow == [owner : Users, slug : Slugs, featured : BOOLEAN, paid : BOOLEAN]

IdleReq   == [pc : {"idle"}]
CreateReq == [pc : {"count", "insert"}, t : TourIds, row : TourRow]
EditReq   == [pc : {"unfeature", "save"}, user : Users, t : TourIds, row : TourRow,
              stale : BOOLEAN]
DeleteReq == [pc : {"delete"}, ref : TourIds \cup Slugs]

\* free: tours created without payment; clobbered: tours saved from a copy that was out of
\* date; revived: tours that Save inserted again; gone: tours deleted; helped: users one of
\* whose tours an admin other than themselves asked to feature.
Trace == [free : SUBSET TourIds, clobbered : SUBSET TourIds, revived : SUBSET TourIds,
          gone : SUBSET TourIds, helped : SUBSET Users]

-----------------------------------------------------------------------------
(* Statements on the tables *)

Put(table, i, row) ==
  [j \in DOMAIN table \cup {i} |-> IF j = i THEN row ELSE table[j]]

\* Mutant of Without: the transaction is rolled back, and the caller not told.
Without_RolledBack(table, i) == table

Without(table, i) == [j \in DOMAIN table \ {i} |-> table[j]]

Exists(t) == t \in DOMAIN tours

OwnedBy(u) == {t \in DOMAIN tours : tours[t].owner = u}

\* WHERE id = ? OR slug = ?, and First orders by primary key.
FindByID(ref) ==
  LET found == {t \in DOMAIN tours : t = ref \/ tours[t].slug = ref} IN
  {t \in found : \A s \in found : t <= s}

\* Admins can manage any tour, users only their own.
MayManage(u, t) == u \in Admins \/ tours[t].owner = u

Idle == [pc |-> "idle"]

HoldsCopy(v) == req[v].pc \in {"unfeature", "save"}

Differs(t, new) ==
  \/ Exists(t) # (t \in DOMAIN new)
  \/ Exists(t) /\ t \in DOMAIN new /\ tours[t] # new[t]

\* Worker w leaves the table as new and goes on as r; other handlers' copies of the rows
\* that changed are from then on out of date.
Write(w, new, r) ==
  /\ tours' = new
  /\ req' = [v \in Workers |->
               IF v = w THEN r
               ELSE IF HoldsCopy(v) /\ Differs(req[v].t, new)
                    THEN [req[v] EXCEPT !.stale = TRUE] ELSE req[v]]

Goto(w, r) == req' = [req EXCEPT ![w] = r]

-----------------------------------------------------------------------------
(* Creating *)

\* Mutant of NeedsPayment: the second tour is free as well.
NeedsPayment_OffByOne(u) == Cardinality(OwnedBy(u)) > 1

\* CheckIfPaymentRequired: the user has a tour already.
NeedsPayment(u) == Cardinality(OwnedBy(u)) >= 1

\* The handler builds the row; the payment session it asks for keeps nothing and cannot fail.
CreateTour(w, u) ==
  /\ req[w].pc = "idle"
  /\ ids < MaxTours
  /\ ids' = ids + 1
  /\ \E slug \in Slugs :
       Goto(w, [pc |-> "count", t |-> ids + 1,
                row |-> [owner |-> u, slug |-> slug, featured |-> FALSE,
                         paid |-> ~NeedsPayment(u)]])
  /\ UNCHANGED <<tours, trace>>

\* service.CreateTour: a user's first tour is featured.
CountTours(w) ==
  /\ req[w].pc = "count"
  /\ Goto(w, [req[w] EXCEPT !.pc = "insert", !.row.featured = OwnedBy(req[w].row.owner) = {}])
  /\ UNCHANGED <<tours, ids, trace>>

InsertTour(w) ==
  /\ req[w].pc = "insert"
  /\ Write(w, Put(tours, req[w].t, req[w].row), Idle)
  /\ trace' = IF req[w].row.paid THEN [trace EXCEPT !.free = @ \cup {req[w].t}] ELSE trace
  /\ UNCHANGED ids

-----------------------------------------------------------------------------
(* Editing: read the row, change the copy, save every column *)

\* Mutant of Edited: an empty slug is stored as it comes.
Edited_NoSlugify(row) == {[row EXCEPT !.slug = ""]}

\* UpdateTour, UpdateTourPublishStatus and the building scan: a new slug, or columns that
\* are not kept here.
Edited(row) == {[row EXCEPT !.slug = slug] : slug \in Slugs}

EditTour(w, u, ref) ==
  /\ req[w].pc = "idle"
  /\ \E t \in FindByID(ref) :
       /\ MayManage(u, t)
       /\ \E row \in Edited(tours[t]) :
            Goto(w, [pc |-> "save", user |-> u, t |-> t, row |-> row, stale |-> FALSE])
  /\ UNCHANGED <<tours, ids, trace>>

\* UpdateTourFeaturedStatus
FeatureTour(w, u, ref) ==
  /\ req[w].pc = "idle"
  /\ \E t \in FindByID(ref), featured \in BOOLEAN :
       /\ MayManage(u, t)
       /\ Goto(w, [pc |-> IF featured THEN "unfeature" ELSE "save", user |-> u, t |-> t,
                   row |-> [tours[t] EXCEPT !.featured = featured], stale |-> FALSE])
       /\ trace' = IF ~featured \/ tours[t].owner = u THEN trace
                   ELSE [trace EXCEPT !.helped = @ \cup {tours[t].owner}]
  /\ UNCHANGED <<tours, ids>>

\* Mutant of Unfeatured: the tours of everyone else.
Unfeatured_Others(u) ==
  [t \in DOMAIN tours |->
     IF tours[t].owner # u THEN [tours[t] EXCEPT !.featured = FALSE] ELSE tours[t]]

\* UnfeatureAllTours: of the user who asked, who need not be the tour's owner.
Unfeatured(u) ==
  [t \in DOMAIN tours |->
     IF tours[t].owner = u THEN [tours[t] EXCEPT !.featured = FALSE] ELSE tours[t]]

UnfeatureAll(w) ==
  /\ req[w].pc = "unfeature"
  /\ Write(w, Unfeatured(req[w].user), [req[w] EXCEPT !.pc = "save"])
  /\ UNCHANGED <<ids, trace>>

\* UPDATE every column, and if no row was there INSERT it.
SaveTour(w) ==
  /\ req[w].pc = "save"
  /\ Write(w, Put(tours, req[w].t, req[w].row), Idle)
  /\ trace' = [trace EXCEPT
                 !.clobbered = IF req[w].stale THEN @ \cup {req[w].t} ELSE @,
                 !.revived = IF Exists(req[w].t) THEN @ ELSE @ \cup {req[w].t}]
  /\ UNCHANGED ids

-----------------------------------------------------------------------------
(* Deleting *)

DeleteTour(w, u, ref) ==
  /\ req[w].pc = "idle"
  /\ \E t \in FindByID(ref) : MayManage(u, t)
  /\ Goto(w, [pc |-> "delete", ref |-> ref])
  /\ UNCHANGED <<tours, ids, trace>>

\* WHERE id = ?, with whatever the URL held: a slug deletes nothing.
DeleteRow(w) ==
  /\ req[w].pc = "delete"
  /\ Write(w, Without(tours, req[w].ref), Idle)
  /\ trace' = IF Exists(req[w].ref) THEN [trace EXCEPT !.gone = @ \cup {req[w].ref}] ELSE trace
  /\ UNCHANGED ids

-----------------------------------------------------------------------------
\* No such tour, or not one the user may manage: 404 or 403.
Refuse(w, u, ref) ==
  /\ req[w].pc = "idle"
  /\ ~ \E t \in FindByID(ref) : MayManage(u, t)
  /\ UNCHANGED tourVars

\* A statement fails and the handler answers with an error, or the process dies.
Abandon(w) ==
  /\ req[w].pc # "idle"
  /\ Goto(w, Idle)
  /\ UNCHANGED <<tours, ids, trace>>

ToursInit ==
  /\ tours = [t \in {} |-> t]
  /\ ids = 0
  /\ req = [w \in Workers |-> Idle]
  /\ trace = [free |-> {}, clobbered |-> {}, revived |-> {}, gone |-> {}, helped |-> {}]

Request(w) ==
  \E u \in Users :
    \/ CreateTour(w, u)
    \/ \E ref \in TourIds \cup Slugs : \/ EditTour(w, u, ref)
                                      \/ FeatureTour(w, u, ref)
                                      \/ DeleteTour(w, u, ref)
                                      \/ Refuse(w, u, ref)

Statement(w) ==
  CountTours(w) \/ InsertTour(w) \/ UnfeatureAll(w) \/ SaveTour(w) \/ DeleteRow(w)

ToursNext == \E w \in Workers : Request(w) \/ Statement(w) \/ Abandon(w)

ToursSpec == ToursInit /\ [][ToursNext]_tourVars

-----------------------------------------------------------------------------
(* Properties *)

\* The table holds well-formed rows and every handler the locals of its place.
ToursTypeOK ==
  /\ DOMAIN tours \subseteq TourIds /\ \A t \in DOMAIN tours : tours[t] \in TourRow
  /\ ids \in 0..MaxTours
  /\ req \in [Workers -> IdleReq \cup CreateReq \cup EditReq \cup DeleteReq]
  /\ trace \in Trace

Featured(u) == {t \in OwnedBy(u) : tours[t].featured}

\* Featuring first unfeatures the owner's tours, and only a request that was already under
\* way may undo that: a user ends with at most as many featured tours as there are
\* workers, and with one if requests do not overlap, unless an admin featured a tour of
\* theirs (handlers.go:570-582, service.go:103-106).
FeaturedBounded ==
  \A u \in Users \ trace.helped : Cardinality(Featured(u)) <= Cardinality(Workers)

\* Creations that overlap may each see no tour yet, once per worker: the free tours a user
\* has are at most as many as the workers, and one if requests do not overlap, leaving out
\* those a stale save brought back (handlers.go:122-145).
FreeToursBounded ==
  \A u \in Users :
    Cardinality((OwnedBy(u) \cap trace.free) \ trace.revived) <= Cardinality(Workers)

\* A deleted tour comes back only through a copy read before it was deleted and saved
\* after (repo.go:183, 186-223).
RevivedOnlyByStaleSave ==
  \A t \in trace.gone : Exists(t) => t \in trace.clobbered
=============================================================================
