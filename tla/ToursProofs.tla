---------------------------- MODULE ToursProofs ----------------------------
(***************************************************************************)
(* What overlapping requests can do to the rows of tours, for any number   *)
(* of workers, users, slugs and tours.                                     *)
(***************************************************************************)
EXTENDS Tours, FiniteSetTheorems, TLAPS

Reqs == IdleReq \cup CreateReq \cup EditReq \cup DeleteReq

Creating(v) == req[v].pc \in {"count", "insert"}

\* A handler whose locals name a tour and a row of it.
Busy(v) == Creating(v) \/ HoldsCopy(v)

-----------------------------------------------------------------------------
(* Types *)

\* A handler's place tells which locals it has.
LEMMA WhichReq ==
  ASSUME ToursTypeOK, NEW v \in Workers
  PROVE  /\ req[v] \in Reqs
         /\ Creating(v) => req[v] \in CreateReq
         /\ HoldsCopy(v) => req[v] \in EditReq
         /\ req[v].pc = "delete" => req[v] \in DeleteReq
         /\ Busy(v) => req[v].t \in TourIds /\ req[v].row \in TourRow
BY DEF ToursTypeOK, Reqs, Creating, HoldsCopy, Busy, IdleReq, CreateReq, EditReq, DeleteReq

\* The fields of the records that the history keeps.
LEMMA TraceParts ==
  ASSUME ToursTypeOK
  PROVE  /\ trace.free \subseteq TourIds /\ trace.clobbered \subseteq TourIds
         /\ trace.revived \subseteq TourIds /\ trace.gone \subseteq TourIds
         /\ trace.helped \subseteq Users
BY DEF ToursTypeOK, Trace

\* A row found under an id or a slug is one of the table.
LEMMA FoundExists ==
  ASSUME NEW ref, NEW t \in FindByID(ref)
  PROVE  t \in DOMAIN tours
BY DEF FindByID

\* Marking a copy out of date leaves the rest of the locals.
LEMMA MarkedStale ==
  ASSUME NEW r \in EditReq
  PROVE  LET s == [r EXCEPT !.stale = TRUE] IN
         /\ s \in EditReq /\ s.stale
         /\ s.pc = r.pc /\ s.t = r.t /\ s.row = r.row /\ s.user = r.user
BY DEF EditReq

\* What a step of another handler leaves of this one's locals.
Same(v) ==
  /\ req'[v] \in Reqs
  /\ req'[v].pc = req[v].pc
  /\ Busy(v) => req'[v].t = req[v].t /\ req'[v].row = req[v].row
  /\ HoldsCopy(v) => req'[v].user = req[v].user /\ (req[v].stale => req'[v].stale)

\* A step that only moves one handler.
LEMMA GotoSame ==
  ASSUME ToursTypeOK, NEW w \in Workers, NEW r, Goto(w, r)
  PROVE  /\ DOMAIN req' = Workers /\ req' = [req EXCEPT ![w] = r]
         /\ req'[w] = r
         /\ \A v \in Workers \ {w} : Same(v) /\ req'[v] = req[v]
BY WhichReq DEF Goto, Same, ToursTypeOK, Reqs

\* A statement that writes the table moves one handler and marks copies of what it changed.
LEMMA WriteSame ==
  ASSUME ToursTypeOK, NEW w \in Workers, NEW new, NEW r, r \in Reqs, Write(w, new, r)
  PROVE  /\ tours' = new
         /\ req' \in [Workers -> Reqs]
         /\ req'[w] = r
         /\ \A v \in Workers \ {w} :
              /\ Same(v)
              /\ HoldsCopy(v) /\ Differs(req[v].t, new) => req'[v].stale
<1>1. /\ tours' = new /\ req'[w] = r
      /\ DOMAIN req' = Workers /\ req' = [v \in Workers |-> req'[v]]
  BY DEF Write
<1>2. ASSUME NEW v \in Workers \ {w}
      PROVE  /\ Same(v)
             /\ HoldsCopy(v) /\ Differs(req[v].t, new) => req'[v].stale
  <2>1. CASE HoldsCopy(v) /\ Differs(req[v].t, new)
    <3>1. req[v] \in EditReq
      BY <2>1, WhichReq
    <3>2. req'[v] = [req[v] EXCEPT !.stale = TRUE]
      BY <2>1 DEF Write
    <3>3. QED
      BY <3>1, <3>2, MarkedStale DEF Same, Reqs
  <2>2. CASE ~(HoldsCopy(v) /\ Differs(req[v].t, new))
    <3>1. req'[v] = req[v]
      BY <2>2 DEF Write
    <3>2. QED
      BY <2>2, <3>1, WhichReq DEF Same
  <2>3. QED
    BY <2>1, <2>2
<1>3. \A v \in Workers : req'[v] \in Reqs
  BY <1>1, <1>2 DEF Same
<1>4. QED
  BY <1>1, <1>2, <1>3

\* The table with a row put in.
LEMMA PutTable ==
  ASSUME ToursTypeOK, NEW i \in TourIds, NEW row \in TourRow, tours' = Put(tours, i, row)
  PROVE  /\ DOMAIN tours' = DOMAIN tours \cup {i} /\ DOMAIN tours' \subseteq TourIds
         /\ tours'[i] = row /\ \A t \in DOMAIN tours \ {i} : tours'[t] = tours[t]
         /\ \A t \in DOMAIN tours' : tours'[t] \in TourRow
BY DEF ToursTypeOK, Put

\* The table without a row.
LEMMA WithoutTable ==
  ASSUME ToursTypeOK, NEW i, tours' = Without(tours, i)
  PROVE  /\ DOMAIN tours' = DOMAIN tours \ {i} /\ DOMAIN tours' \subseteq TourIds
         /\ \A t \in DOMAIN tours' : tours'[t] = tours[t] /\ tours'[t] \in TourRow
BY DEF ToursTypeOK, Without

\* The table with the tours of a user unfeatured.
LEMMA UnfeaturedTable ==
  ASSUME ToursTypeOK, NEW u, tours' = Unfeatured(u)
  PROVE  /\ DOMAIN tours' = DOMAIN tours /\ DOMAIN tours' \subseteq TourIds
         /\ \A t \in DOMAIN tours' :
              /\ tours'[t] \in TourRow /\ tours'[t].owner = tours[t].owner
              /\ tours'[t].featured => tours[t].featured /\ tours[t].owner # u
<1>1. DOMAIN tours' = DOMAIN tours /\ DOMAIN tours' \subseteq TourIds
  BY DEF ToursTypeOK, Unfeatured
<1>2. ASSUME NEW t \in DOMAIN tours'
      PROVE  /\ tours'[t] \in TourRow /\ tours'[t].owner = tours[t].owner
             /\ tours'[t].featured => tours[t].featured /\ tours[t].owner # u
  <2>1. tours[t] \in TourRow
    BY <1>1 DEF ToursTypeOK
  <2>2. tours'[t] = IF tours[t].owner = u THEN [tours[t] EXCEPT !.featured = FALSE] ELSE tours[t]
    BY <1>1 DEF Unfeatured
  <2>3. QED
    BY <2>1, <2>2 DEF TourRow
<1>3. QED
  BY <1>1, <1>2

\* Locals of every kind have the type of a handler's locals.
LEMMA IdleTyped == Idle \in Reqs /\ Idle.pc = "idle"
BY DEF Idle, Reqs, IdleReq

-----------------------------------------------------------------------------
(* What each action does to the handler that takes it *)

\* The table of handlers after a step of w.
Others(w) ==
  /\ req' \in [Workers -> Reqs]
  /\ \A v \in Workers \ {w} : Same(v)

\* A step that only moves w to locals of a handler.
LEMMA GotoOthers ==
  ASSUME ToursTypeOK, NEW w \in Workers, NEW r \in Reqs, Goto(w, r)
  PROVE  Others(w) /\ req'[w] = r
<1>1. \A v \in Workers : req'[v] \in Reqs
  BY GotoSame DEF Same
<1>2. DOMAIN req' = Workers /\ req' = [v \in Workers |-> req'[v]]
  BY DEF Goto, ToursTypeOK
<1>3. QED
  BY <1>1, <1>2, GotoSame DEF Others

\* No tour of the user is there when the handler finds that no payment is needed.
LEMMA FirstIsFree ==
  ASSUME ToursTypeOK, NEW u, ~NeedsPayment(u)
  PROVE  OwnedBy(u) = {}
<1>1. IsFiniteSet(TourIds)
  BY MaxToursNat, FS_Interval DEF TourIds
<1>2. OwnedBy(u) \subseteq TourIds
  BY DEF OwnedBy, ToursTypeOK
<1>3. IsFiniteSet(OwnedBy(u)) /\ Cardinality(OwnedBy(u)) \in Nat
  BY <1>1, <1>2, FS_Subset, FS_CardinalityType
<1>4. Cardinality(OwnedBy(u)) = 0
  BY <1>3 DEF NeedsPayment
<1>5. QED
  BY <1>3, <1>4, FS_EmptySet

\* A request for a new tour takes the next id.
LEMMA CreateFacts ==
  ASSUME ToursTypeOK, NEW w \in Workers, NEW u \in Users, CreateTour(w, u)
  PROVE  /\ Others(w) /\ UNCHANGED <<tours, trace>>
         /\ ids' = ids + 1 /\ ids' \in TourIds
         /\ req'[w].pc = "count" /\ req'[w].t = ids + 1
         /\ req'[w].row \in TourRow /\ req'[w].row.owner = u
         /\ req'[w].row.paid => OwnedBy(u) = {}
<1>1. PICK slug \in Slugs :
        Goto(w, [pc |-> "count", t |-> ids + 1,
                 row |-> [owner |-> u, slug |-> slug, featured |-> FALSE,
                          paid |-> ~NeedsPayment(u)]])
  BY DEF CreateTour
<1> DEFINE row == [owner |-> u, slug |-> slug, featured |-> FALSE, paid |-> ~NeedsPayment(u)]
           r == [pc |-> "count", t |-> ids + 1, row |-> row]
<1>2. ids' = ids + 1 /\ ids' \in TourIds
  BY MaxToursNat DEF CreateTour, ToursTypeOK, TourIds
<1>3. (~NeedsPayment(u)) \in BOOLEAN
  BY DEF NeedsPayment
<1>4. row \in TourRow /\ row.owner = u /\ (row.paid => OwnedBy(u) = {})
  BY <1>3, FirstIsFree DEF TourRow
<1>5. r.pc = "count" /\ r.t = ids + 1 /\ r.row = row
  OBVIOUS
<1> HIDE DEF row
<1>6. r \in CreateReq /\ r \in Reqs
  BY <1>2, <1>4 DEF CreateReq, Reqs
<1>7. Goto(w, r)
  BY <1>1 DEF row
<1> HIDE DEF r
<1>8. Others(w) /\ req'[w] = r
  BY <1>6, <1>7, GotoOthers
<1>9. QED
  BY <1>2, <1>4, <1>5, <1>8 DEF CreateTour

\* Counting features the row exactly if its owner has no tour.
LEMMA CountFacts ==
  ASSUME ToursTypeOK, NEW w \in Workers, CountTours(w)
  PROVE  /\ Others(w) /\ UNCHANGED <<tours, ids, trace>>
         /\ req[w].pc = "count" /\ Busy(w)
         /\ req'[w].pc = "insert" /\ req'[w].t = req[w].t
         /\ req'[w].row \in TourRow
         /\ req'[w].row.owner = req[w].row.owner /\ req'[w].row.paid = req[w].row.paid
         /\ req'[w].row.featured => OwnedBy(req[w].row.owner) = {}
<1> DEFINE first == OwnedBy(req[w].row.owner) = {}
           r == [req[w] EXCEPT !.pc = "insert", !.row.featured = first]
<1>1. req[w].pc = "count" /\ req[w] \in CreateReq
  BY WhichReq DEF CountTours, Creating
<1>2. first \in BOOLEAN
  OBVIOUS
<1>3. req[w].row \in TourRow
  BY <1>1 DEF CreateReq
<1> HIDE DEF first
<1>4. /\ r.row = [req[w].row EXCEPT !.featured = first]
      /\ r.pc = "insert" /\ r.t = req[w].t /\ r \in CreateReq
  BY <1>1, <1>2, <1>3 DEF CreateReq, TourRow
<1>5. /\ r.row \in TourRow /\ r.row.owner = req[w].row.owner
      /\ r.row.paid = req[w].row.paid /\ r.row.featured = first
  BY <1>2, <1>3, <1>4 DEF TourRow
<1>6. Goto(w, r)
  BY DEF CountTours, first
<1> HIDE DEF r
<1>7. Others(w) /\ req'[w] = r
  BY <1>4, <1>6, GotoOthers DEF Reqs
<1>8. QED
  BY <1>1, <1>4, <1>5, <1>7 DEF CountTours, first, Busy, Creating

\* A request to edit or feature a tour reads its row: but for the slug and the feature
\* asked for, the copy is the row.
LEMMA CopyFacts ==
  ASSUME ToursTypeOK, NEW w \in Workers, NEW u \in Users, NEW ref,
         EditTour(w, u, ref) \/ FeatureTour(w, u, ref)
  PROVE  /\ Others(w) /\ UNCHANGED <<tours, ids>>
         /\ trace' \in Trace
         /\ trace'.free = trace.free /\ trace'.clobbered = trace.clobbered
         /\ trace'.revived = trace.revived /\ trace'.gone = trace.gone
         /\ trace.helped \subseteq trace'.helped
         /\ req'[w].pc \in {"unfeature", "save"} /\ req[w].pc = "idle"
         /\ req'[w].t \in DOMAIN tours /\ req'[w].row \in TourRow
         /\ req'[w].row.owner = tours[req'[w].t].owner
         /\ req'[w].pc = "save" /\ req'[w].row.featured => tours[req'[w].t].featured
         /\ req'[w].pc = "unfeature" /\ req'[w].row.owner # req'[w].user
              => req'[w].row.owner \in trace'.helped
<1>1. CASE EditTour(w, u, ref)
  <2>1. PICK t \in FindByID(ref), slug \in Slugs :
          Goto(w, [pc |-> "save", user |-> u, t |-> t,
                   row |-> [tours[t] EXCEPT !.slug = slug], stale |-> FALSE])
    BY <1>1 DEF EditTour, Edited
  <2> DEFINE row == [tours[t] EXCEPT !.slug = slug]
             r == [pc |-> "save", user |-> u, t |-> t, row |-> row, stale |-> FALSE]
  <2>2. t \in DOMAIN tours /\ t \in TourIds /\ tours[t] \in TourRow
    BY FoundExists DEF ToursTypeOK
  <2>3. row \in TourRow /\ row.owner = tours[t].owner /\ row.featured = tours[t].featured
    BY <2>2 DEF TourRow
  <2>4. Goto(w, r)
    BY <2>1
  <2> HIDE DEF row
  <2>5. r \in EditReq /\ r \in Reqs /\ r.pc = "save" /\ r.t = t /\ r.row = row
    BY <2>2, <2>3 DEF EditReq, Reqs
  <2> HIDE DEF r
  <2>6. Others(w) /\ req'[w] = r
    BY <2>4, <2>5, GotoOthers
  <2>7. UNCHANGED <<tours, ids, trace>> /\ req[w].pc = "idle" /\ trace \in Trace
    BY <1>1 DEF EditTour, ToursTypeOK
  <2>8. QED
    BY <2>2, <2>3, <2>5, <2>6, <2>7
<1>2. CASE FeatureTour(w, u, ref)
  <2>1. PICK t \in FindByID(ref), featured \in BOOLEAN :
          /\ Goto(w, [pc |-> IF featured THEN "unfeature" ELSE "save", user |-> u, t |-> t,
                      row |-> [tours[t] EXCEPT !.featured = featured], stale |-> FALSE])
          /\ trace' = IF ~featured \/ tours[t].owner = u THEN trace
                      ELSE [trace EXCEPT !.helped = @ \cup {tours[t].owner}]
    BY <1>2 DEF FeatureTour
  <2> DEFINE row == [tours[t] EXCEPT !.featured = featured]
             pc == IF featured THEN "unfeature" ELSE "save"
             r == [pc |-> pc, user |-> u, t |-> t, row |-> row, stale |-> FALSE]
  <2>2. t \in DOMAIN tours /\ t \in TourIds /\ tours[t] \in TourRow
    BY FoundExists DEF ToursTypeOK
  <2>3. row \in TourRow /\ row.owner = tours[t].owner /\ row.featured = featured
    BY <2>2 DEF TourRow
  <2>4. Goto(w, r) /\ pc \in {"unfeature", "save"} /\ (pc = "unfeature" <=> featured)
    BY <2>1
  <2> HIDE DEF row, pc
  <2>5. /\ r \in EditReq /\ r \in Reqs /\ r.pc = pc /\ r.t = t /\ r.row = row /\ r.user = u
    BY <2>2, <2>3, <2>4 DEF EditReq, Reqs
  <2> HIDE DEF r
  <2>6. Others(w) /\ req'[w] = r
    BY <2>4, <2>5, GotoOthers
  <2>7. UNCHANGED <<tours, ids>> /\ req[w].pc = "idle" /\ trace \in Trace
    BY <1>2 DEF FeatureTour, ToursTypeOK
  <2>8. tours[t].owner \in Users
    BY <2>2 DEF TourRow
  <2>9. /\ trace' \in Trace
        /\ trace'.free = trace.free /\ trace'.clobbered = trace.clobbered
        /\ trace'.revived = trace.revived /\ trace'.gone = trace.gone
        /\ trace.helped \subseteq trace'.helped
        /\ featured /\ tours[t].owner # u => tours[t].owner \in trace'.helped
    BY <2>1, <2>7, <2>8 DEF Trace
  <2>10. QED
    BY <2>2, <2>3, <2>4, <2>5, <2>6, <2>7, <2>9
<1>3. QED
  BY <1>1, <1>2

\* Requests to delete, those refused and those that fail touch no table.
LEMMA QuietFacts ==
  ASSUME ToursTypeOK, NEW w \in Workers,
         \/ \E u \in Users, ref \in TourIds \cup Slugs : DeleteTour(w, u, ref) \/ Refuse(w, u, ref)
         \/ Abandon(w)
  PROVE  /\ Others(w) /\ UNCHANGED <<tours, ids, trace>>
         /\ req'[w].pc \in {"idle", "delete"}
<1>1. CASE \E u \in Users, ref \in TourIds \cup Slugs : Refuse(w, u, ref)
  <2>1. UNCHANGED tourVars /\ req[w].pc = "idle"
    BY <1>1 DEF Refuse
  <2>2. req \in [Workers -> Reqs]
    BY DEF ToursTypeOK, Reqs
  <2>3. QED
    BY <2>1, <2>2 DEF tourVars, Others, Same
<1>2. ASSUME NEW u \in Users, NEW ref \in TourIds \cup Slugs, DeleteTour(w, u, ref)
      PROVE  Others(w) /\ UNCHANGED <<tours, ids, trace>> /\ req'[w].pc = "delete"
  <2> DEFINE r == [pc |-> "delete", ref |-> ref]
  <2>1. r \in DeleteReq /\ r \in Reqs /\ r.pc = "delete"
    BY DEF DeleteReq, Reqs
  <2>2. Goto(w, r) /\ UNCHANGED <<tours, ids, trace>>
    BY <1>2 DEF DeleteTour
  <2> HIDE DEF r
  <2>3. QED
    BY <2>1, <2>2, GotoOthers
<1>3. CASE Abandon(w)
  BY <1>3, IdleTyped, GotoOthers DEF Abandon
<1>4. QED
  BY <1>1, <1>2, <1>3

\* Inserting puts the worker's row under its id.
LEMMA InsertFacts ==
  ASSUME ToursTypeOK, NEW w \in Workers, InsertTour(w)
  PROVE  /\ Others(w) /\ UNCHANGED ids
         /\ tours' = Put(tours, req[w].t, req[w].row)
         /\ trace' \in Trace
         /\ trace'.free = trace.free \cup (IF req[w].row.paid THEN {req[w].t} ELSE {})
         /\ trace'.clobbered = trace.clobbered /\ trace'.revived = trace.revived
         /\ trace'.gone = trace.gone /\ trace'.helped = trace.helped
         /\ req[w].pc = "insert" /\ Busy(w) /\ Creating(w) /\ req'[w].pc = "idle"
<1>1. req[w].pc = "insert" /\ Busy(w) /\ Creating(w)
  BY DEF InsertTour, Busy, Creating
<1>2. req[w].t \in TourIds /\ trace \in Trace
  BY <1>1, WhichReq DEF ToursTypeOK
<1>3. /\ trace' \in Trace
      /\ trace'.free = trace.free \cup (IF req[w].row.paid THEN {req[w].t} ELSE {})
      /\ trace'.clobbered = trace.clobbered /\ trace'.revived = trace.revived
      /\ trace'.gone = trace.gone /\ trace'.helped = trace.helped
  BY <1>2 DEF InsertTour, Trace
<1>4. Write(w, Put(tours, req[w].t, req[w].row), Idle) /\ ids' = ids
  BY DEF InsertTour
<1>5. QED
  BY <1>1, <1>3, <1>4, IdleTyped, WriteSame DEF Others

\* Saving puts the worker's copy under its id, and the history says whether the copy was
\* out of date and whether there was a row.
LEMMA SaveFacts ==
  ASSUME ToursTypeOK, NEW w \in Workers, SaveTour(w)
  PROVE  /\ Others(w) /\ UNCHANGED ids
         /\ tours' = Put(tours, req[w].t, req[w].row)
         /\ trace' \in Trace /\ trace'.free = trace.free
         /\ trace'.clobbered = trace.clobbered \cup (IF req[w].stale THEN {req[w].t} ELSE {})
         /\ trace'.revived = trace.revived \cup (IF Exists(req[w].t) THEN {} ELSE {req[w].t})
         /\ trace'.gone = trace.gone /\ trace'.helped = trace.helped
         /\ req[w].pc = "save" /\ Busy(w) /\ HoldsCopy(w) /\ req'[w].pc = "idle"
<1>1. req[w].pc = "save" /\ Busy(w) /\ HoldsCopy(w)
  BY DEF SaveTour, Busy, HoldsCopy
<1>2. req[w].t \in TourIds /\ trace \in Trace
  BY <1>1, WhichReq DEF ToursTypeOK
<1>3. /\ trace' \in Trace /\ trace'.free = trace.free
      /\ trace'.clobbered = trace.clobbered \cup (IF req[w].stale THEN {req[w].t} ELSE {})
      /\ trace'.revived = trace.revived \cup (IF Exists(req[w].t) THEN {} ELSE {req[w].t})
      /\ trace'.gone = trace.gone /\ trace'.helped = trace.helped
  BY <1>2 DEF SaveTour, Trace
<1>4. Write(w, Put(tours, req[w].t, req[w].row), Idle) /\ ids' = ids
  BY DEF SaveTour
<1>5. QED
  BY <1>1, <1>3, <1>4, IdleTyped, WriteSame DEF Others

\* Unfeaturing leaves the worker's copy as it was, even if it changed the copy's row.
LEMMA UnfeatureFacts ==
  ASSUME ToursTypeOK, NEW w \in Workers, UnfeatureAll(w)
  PROVE  /\ Others(w) /\ UNCHANGED <<ids, trace>>
         /\ tours' = Unfeatured(req[w].user)
         /\ req[w].pc = "unfeature" /\ Busy(w) /\ HoldsCopy(w)
         /\ req'[w].pc = "save" /\ req'[w].t = req[w].t /\ req'[w].row = req[w].row
         /\ req'[w].stale = req[w].stale
<1> DEFINE r == [req[w] EXCEPT !.pc = "save"]
<1>1. req[w].pc = "unfeature" /\ Busy(w) /\ HoldsCopy(w)
  BY DEF UnfeatureAll, Busy, HoldsCopy
<1>2. req[w] \in EditReq
  BY <1>1, WhichReq
<1>3. /\ r \in EditReq /\ r \in Reqs
      /\ r.pc = "save" /\ r.t = req[w].t /\ r.row = req[w].row /\ r.stale = req[w].stale
  BY <1>2 DEF EditReq, Reqs
<1>4. Write(w, Unfeatured(req[w].user), r) /\ UNCHANGED <<ids, trace>>
  BY DEF UnfeatureAll
<1> HIDE DEF r
<1>5. QED
  BY <1>1, <1>3, <1>4, WriteSame DEF Others

\* Deleting takes the row away and every copy of it is then out of date.
LEMMA DeleteFacts ==
  ASSUME ToursTypeOK, NEW w \in Workers, DeleteRow(w)
  PROVE  /\ Others(w) /\ UNCHANGED ids
         /\ tours' = Without(tours, req[w].ref)
         /\ trace' \in Trace /\ trace'.free = trace.free
         /\ trace'.clobbered = trace.clobbered /\ trace'.revived = trace.revived
         /\ trace'.gone = trace.gone \cup (IF Exists(req[w].ref) THEN {req[w].ref} ELSE {})
         /\ trace'.helped = trace.helped
         /\ req'[w].pc = "idle"
         /\ \A v \in Workers \ {w} :
              HoldsCopy(v) /\ Exists(req[v].t) /\ req[v].t = req[w].ref => req'[v].stale
<1>1. Exists(req[w].ref) => req[w].ref \in TourIds
  BY DEF Exists, ToursTypeOK
<1>2. trace \in Trace
  BY DEF ToursTypeOK
<1>3. /\ trace' \in Trace /\ trace'.free = trace.free
      /\ trace'.clobbered = trace.clobbered /\ trace'.revived = trace.revived
      /\ trace'.gone = trace.gone \cup (IF Exists(req[w].ref) THEN {req[w].ref} ELSE {})
      /\ trace'.helped = trace.helped
  BY <1>1, <1>2 DEF DeleteRow, Trace
<1>4. Write(w, Without(tours, req[w].ref), Idle) /\ ids' = ids
  BY DEF DeleteRow
<1>5. ASSUME NEW v \in Workers \ {w}, Exists(req[v].t), req[v].t = req[w].ref
      PROVE  Differs(req[v].t, Without(tours, req[w].ref))
  <2>1. req[w].ref \notin DOMAIN Without(tours, req[w].ref)
    BY DEF Without
  <2>2. QED
    BY <1>5, <2>1 DEF Differs, Exists
<1>6. QED
  BY <1>3, <1>4, <1>5, IdleTyped, WriteSame DEF Others

-----------------------------------------------------------------------------
(* Types are kept *)

\* A step whose new table, history and locals are well formed.
LEMMA StepTyped ==
  ASSUME ToursTypeOK, NEW w \in Workers, Others(w), trace' \in Trace, ids' \in 0..MaxTours,
         DOMAIN tours' \subseteq TourIds, \A t \in DOMAIN tours' : tours'[t] \in TourRow
  PROVE  ToursTypeOK'
BY DEF ToursTypeOK, Others, Reqs

\* Every action of a handler keeps the types.
LEMMA NextTyped == ASSUME ToursTypeOK, [ToursNext]_tourVars PROVE ToursTypeOK'
<1>1. /\ trace \in Trace /\ ids \in 0..MaxTours /\ DOMAIN tours \subseteq TourIds
      /\ \A t \in DOMAIN tours : tours[t] \in TourRow
  BY DEF ToursTypeOK
<1>2. CASE UNCHANGED tourVars
  BY <1>2 DEF ToursTypeOK, tourVars
<1>3. ASSUME NEW w \in Workers, NEW u \in Users, CreateTour(w, u)
      PROVE  ToursTypeOK'
  <2>1. ids' \in 0..MaxTours
    BY <1>1, <1>3, MaxToursNat DEF CreateTour
  <2>2. QED
    BY <1>1, <1>3, <2>1, CreateFacts, StepTyped
<1>4. ASSUME NEW w \in Workers, CountTours(w)
      PROVE  ToursTypeOK'
  BY <1>1, <1>4, CountFacts, StepTyped
<1>5. ASSUME NEW w \in Workers, NEW u \in Users, NEW ref,
             EditTour(w, u, ref) \/ FeatureTour(w, u, ref)
      PROVE  ToursTypeOK'
  BY <1>1, <1>5, CopyFacts, StepTyped
<1>6. ASSUME NEW w \in Workers,
             \/ \E u \in Users, ref \in TourIds \cup Slugs :
                  DeleteTour(w, u, ref) \/ Refuse(w, u, ref)
             \/ Abandon(w)
      PROVE  ToursTypeOK'
  BY <1>1, <1>6, QuietFacts, StepTyped
<1>7. ASSUME NEW w \in Workers, InsertTour(w) \/ SaveTour(w)
      PROVE  ToursTypeOK'
  <2>1. /\ Busy(w) /\ tours' = Put(tours, req[w].t, req[w].row)
        /\ Others(w) /\ ids' = ids /\ trace' \in Trace
    BY <1>7, InsertFacts, SaveFacts
  <2>2. req[w].t \in TourIds /\ req[w].row \in TourRow
    BY <2>1, WhichReq
  <2>3. DOMAIN tours' \subseteq TourIds /\ \A t \in DOMAIN tours' : tours'[t] \in TourRow
    BY <2>1, <2>2, PutTable
  <2>4. QED
    BY <1>1, <2>1, <2>3, StepTyped
<1>8. ASSUME NEW w \in Workers, UnfeatureAll(w)
      PROVE  ToursTypeOK'
  <2>1. DOMAIN tours' \subseteq TourIds /\ \A t \in DOMAIN tours' : tours'[t] \in TourRow
    BY <1>8, UnfeatureFacts, UnfeaturedTable
  <2>2. QED
    BY <1>1, <1>8, <2>1, UnfeatureFacts, StepTyped
<1>9. ASSUME NEW w \in Workers, DeleteRow(w)
      PROVE  ToursTypeOK'
  <2>1. DOMAIN tours' \subseteq TourIds /\ \A t \in DOMAIN tours' : tours'[t] \in TourRow
    BY <1>9, DeleteFacts, WithoutTable
  <2>2. QED
    BY <1>1, <1>9, <2>1, DeleteFacts, StepTyped
<1>10. QED
  BY <1>2, <1>3, <1>4, <1>5, <1>6, <1>7, <1>8, <1>9 DEF ToursNext, Request, Statement

\* No table holds anything at first and every handler is idle.
LEMMA InitTyped == ToursInit => ToursTypeOK
BY MaxToursNat DEF ToursInit, ToursTypeOK, Idle, IdleReq, Trace

\* In every behaviour the table, the handlers' locals and the history keep their types
\* (handlers.go:84-153, 221-382, 529-591).
THEOREM ToursTyped == ToursSpec => []ToursTypeOK
BY InitTyped, NextTyped, PTL DEF ToursSpec

-----------------------------------------------------------------------------
(* Ids are fresh, copies agree on the owner, and a deleted tour leaves only copies that *)
(* are out of date *)

IdsInv ==
  /\ DOMAIN tours \cup trace.gone \cup trace.free \subseteq 1..ids
  /\ \A v \in Workers : Busy(v) => req[v].t \in 1..ids

\* Nobody else knows a tour that is being created.
FreshInv ==
  \A v \in Workers : Creating(v) =>
    /\ req[v].t \notin DOMAIN tours \cup trace.gone \cup trace.free
    /\ \A u \in Workers \ {v} : Busy(u) => req[u].t # req[v].t

OwnersAgree ==
  \A v \in Workers : HoldsCopy(v) =>
    /\ Exists(req[v].t) => tours[req[v].t].owner = req[v].row.owner
    /\ \A u \in Workers :
         HoldsCopy(u) /\ req[u].t = req[v].t => req[u].row.owner = req[v].row.owner

HelpedInv ==
  \A v \in Workers : req[v].pc = "unfeature" /\ req[v].row.owner # req[v].user
                       => req[v].row.owner \in trace.helped

GoneInv ==
  \A t \in trace.gone \ trace.clobbered :
    /\ ~Exists(t)
    /\ \A v \in Workers : HoldsCopy(v) /\ req[v].t = t => req[v].stale

ToursInv ==
  ToursTypeOK /\ IdsInv /\ FreshInv /\ OwnersAgree /\ HelpedInv /\ GoneInv

\* What another worker's step leaves of where this one is.
LEMMA SamePlace ==
  ASSUME NEW v \in Workers, Same(v)
  PROVE  /\ Creating(v)' <=> Creating(v)
         /\ HoldsCopy(v)' <=> HoldsCopy(v)
         /\ Busy(v)' <=> Busy(v)
BY DEF Same, Creating, HoldsCopy, Busy

\* A step that writes nothing and leaves the worker with the tour it had, or with none.
LEMMA KeepInv ==
  ASSUME ToursInv, NEW w \in Workers, Others(w), UNCHANGED <<tours, ids, trace>>,
         ToursTypeOK',
         \/ req'[w].pc \in {"idle", "delete"}
         \/ /\ Creating(w) /\ Creating(w)'
            /\ req'[w].t = req[w].t
  PROVE  ToursInv'
<1>1. \A v \in Workers \ {w} : /\ Creating(v)' <=> Creating(v)
                               /\ HoldsCopy(v)' <=> HoldsCopy(v)
                               /\ Busy(v)' <=> Busy(v)
  BY SamePlace DEF Others
<1>2. \A v \in Workers \ {w} : Same(v)
  BY DEF Others
<1>3. /\ ~HoldsCopy(w)' /\ req'[w].pc # "unfeature"
      /\ Creating(w)' \/ Busy(w)' => Creating(w) /\ Busy(w) /\ req'[w].t = req[w].t
  BY DEF HoldsCopy, Busy, Creating
<1>4. IdsInv'
  BY <1>1, <1>2, <1>3 DEF ToursInv, IdsInv, Same
<1>5. FreshInv'
  BY <1>1, <1>2, <1>3 DEF ToursInv, FreshInv, Same, Busy
<1>6. OwnersAgree'
  BY <1>1, <1>2, <1>3 DEF ToursInv, OwnersAgree, Same, Busy, Exists
<1>7. HelpedInv'
  BY <1>1, <1>2, <1>3 DEF ToursInv, HelpedInv, Same, Busy, HoldsCopy
<1>8. GoneInv'
  BY <1>1, <1>2, <1>3 DEF ToursInv, GoneInv, Same, Busy, Exists
<1>9. QED
  BY <1>4, <1>5, <1>6, <1>7, <1>8 DEF ToursInv

\* Taking the next id gives a tour nobody knows.
LEMMA CreateInv ==
  ASSUME ToursInv, NEW w \in Workers, NEW u \in Users, CreateTour(w, u), ToursTypeOK'
  PROVE  ToursInv'
<1>1. /\ Others(w) /\ UNCHANGED <<tours, trace>> /\ ids' = ids + 1 /\ ids' \in TourIds
      /\ req'[w].pc = "count" /\ req'[w].t = ids + 1
  BY CreateFacts DEF ToursInv
<1>2. \A v \in Workers \ {w} : /\ Same(v)
                               /\ Creating(v)' <=> Creating(v)
                               /\ HoldsCopy(v)' <=> HoldsCopy(v)
                               /\ Busy(v)' <=> Busy(v)
  BY <1>1, SamePlace DEF Others
<1>3. /\ ~HoldsCopy(w)' /\ req'[w].pc # "unfeature" /\ Creating(w)' /\ Busy(w)'
  BY <1>1 DEF HoldsCopy, Busy, Creating
<1>4. ids \in Nat
  BY MaxToursNat DEF ToursInv, ToursTypeOK
<1>5. /\ DOMAIN tours \cup trace.gone \cup trace.free \subseteq 1..ids
      /\ \A v \in Workers : Busy(v) => req[v].t \in 1..ids
  BY DEF ToursInv, IdsInv
<1>6. 1..ids \subseteq 1..(ids + 1) /\ ids + 1 \notin 1..ids /\ ids + 1 \in 1..(ids + 1)
  BY <1>4
<1>7. IdsInv'
  <2>1. DOMAIN tours' \cup trace'.gone \cup trace'.free \subseteq 1..ids'
    BY <1>1, <1>5, <1>6
  <2>2. \A v \in Workers : Busy(v)' => req'[v].t \in 1..ids'
    BY <1>1, <1>2, <1>5, <1>6 DEF Same
  <2>3. QED
    BY <2>1, <2>2 DEF IdsInv
<1>8. FreshInv'
  <2>1. ASSUME NEW v \in Workers, Creating(v)'
        PROVE  /\ req'[v].t \notin DOMAIN tours' \cup trace'.gone \cup trace'.free
               /\ \A x \in Workers \ {v} : Busy(x)' => req'[x].t # req'[v].t
    <3>1. CASE v = w
      <4>1. req'[v].t \notin DOMAIN tours' \cup trace'.gone \cup trace'.free
        BY <1>1, <1>5, <1>6, <3>1
      <4>2. ASSUME NEW x \in Workers \ {v}, Busy(x)' PROVE req'[x].t # req'[v].t
        BY <1>1, <1>2, <1>5, <1>6, <3>1, <4>2 DEF Same
      <4>3. QED
        BY <4>1, <4>2
    <3>2. CASE v # w
      <4>1. Creating(v) /\ Busy(v) /\ req'[v].t = req[v].t /\ req[v].t \in 1..ids
        BY <1>2, <1>5, <2>1, <3>2 DEF Same, Busy
      <4>2. req'[v].t \notin DOMAIN tours' \cup trace'.gone \cup trace'.free
        BY <1>1, <4>1 DEF ToursInv, FreshInv
      <4>3. ASSUME NEW x \in Workers \ {v}, Busy(x)' PROVE req'[x].t # req'[v].t
        BY <1>1, <1>2, <1>6, <4>1, <4>3 DEF Same, ToursInv, FreshInv
      <4>4. QED
        BY <4>2, <4>3
    <3>3. QED
      BY <3>1, <3>2
  <2>2. QED
    BY <2>1 DEF FreshInv
<1>9. OwnersAgree'
  BY <1>1, <1>2, <1>3 DEF ToursInv, OwnersAgree, Same, Busy, Exists
<1>10. HelpedInv'
  BY <1>1, <1>2, <1>3 DEF ToursInv, HelpedInv, Same, Busy, HoldsCopy
<1>11. GoneInv'
  BY <1>1, <1>2, <1>3 DEF ToursInv, GoneInv, Same, Busy, Exists
<1>12. QED
  BY <1>7, <1>8, <1>9, <1>10, <1>11 DEF ToursInv

\* A copy is read from a row there is, and has its owner.
LEMMA CopyInv ==
  ASSUME ToursInv, NEW w \in Workers, NEW u \in Users, NEW ref,
         EditTour(w, u, ref) \/ FeatureTour(w, u, ref), ToursTypeOK'
  PROVE  ToursInv'
<1>1. /\ Others(w) /\ UNCHANGED <<tours, ids>>
      /\ trace'.free = trace.free /\ trace'.clobbered = trace.clobbered
      /\ trace'.gone = trace.gone /\ trace.helped \subseteq trace'.helped
      /\ req'[w].pc \in {"unfeature", "save"}
      /\ req'[w].t \in DOMAIN tours
      /\ req'[w].row.owner = tours[req'[w].t].owner
      /\ req'[w].pc = "unfeature" /\ req'[w].row.owner # req'[w].user
              => req'[w].row.owner \in trace'.helped
  BY CopyFacts DEF ToursInv
<1>2. \A v \in Workers \ {w} : /\ Same(v)
                               /\ Creating(v)' <=> Creating(v)
                               /\ HoldsCopy(v)' <=> HoldsCopy(v)
                               /\ Busy(v)' <=> Busy(v)
  BY <1>1, SamePlace DEF Others
<1>3. ~Creating(w)' /\ HoldsCopy(w)' /\ Busy(w)'
  BY <1>1 DEF HoldsCopy, Busy, Creating
<1>4. IdsInv'
  BY <1>1, <1>2 DEF ToursInv, IdsInv, Same
<1>5. FreshInv'
  BY <1>1, <1>2, <1>3 DEF ToursInv, FreshInv, Same, Busy
<1>6. OwnersAgree'
  <2>1. ASSUME NEW v \in Workers, HoldsCopy(v)'
        PROVE  /\ Exists(req[v].t)' => tours'[req'[v].t].owner = req'[v].row.owner
               /\ \A x \in Workers : HoldsCopy(x)' /\ req'[x].t = req'[v].t
                                       => req'[x].row.owner = req'[v].row.owner
    <3>1. Exists(req[v].t)' => tours'[req'[v].t].owner = req'[v].row.owner
      BY <1>1, <1>2, <2>1 DEF Exists, Same, Busy, ToursInv, OwnersAgree
    <3>2. ASSUME NEW x \in Workers, HoldsCopy(x)', req'[x].t = req'[v].t
          PROVE  req'[x].row.owner = req'[v].row.owner
      BY <1>1, <1>2, <2>1, <3>2 DEF Exists, Same, Busy, ToursInv, OwnersAgree
    <3>3. QED
      BY <3>1, <3>2
  <2>2. QED
    BY <2>1 DEF OwnersAgree
<1>7. HelpedInv'
  BY <1>1, <1>2 DEF ToursInv, HelpedInv, Same, Busy, HoldsCopy
<1>8. GoneInv'
  BY <1>1, <1>2 DEF ToursInv, GoneInv, Same, Busy, Exists
<1>9. QED
  BY <1>4, <1>5, <1>6, <1>7, <1>8 DEF ToursInv

\* An inserted tour was known to nobody else, and nobody has a copy of it yet.
LEMMA InsertInv ==
  ASSUME ToursInv, NEW w \in Workers, InsertTour(w), ToursTypeOK'
  PROVE  ToursInv'
<1> DEFINE t == req[w].t
<1>1. /\ Others(w) /\ UNCHANGED ids
      /\ tours' = Put(tours, t, req[w].row)
      /\ trace'.free \subseteq trace.free \cup {t}
      /\ trace'.clobbered = trace.clobbered
      /\ trace'.gone = trace.gone /\ trace'.helped = trace.helped
      /\ Busy(w) /\ Creating(w) /\ req'[w].pc = "idle"
  BY InsertFacts DEF ToursInv
<1>2. \A v \in Workers \ {w} : /\ Same(v)
                               /\ Creating(v)' <=> Creating(v)
                               /\ HoldsCopy(v)' <=> HoldsCopy(v)
                               /\ Busy(v)' <=> Busy(v)
  BY <1>1, SamePlace DEF Others
<1>3. ~Creating(w)' /\ ~HoldsCopy(w)' /\ ~Busy(w)'
  BY <1>1 DEF HoldsCopy, Busy, Creating
<1>4. t \in TourIds /\ req[w].row \in TourRow
  BY <1>1, WhichReq DEF ToursInv
<1>5. DOMAIN tours' = DOMAIN tours \cup {t}
      /\ \A s \in DOMAIN tours \ {t} : tours'[s] = tours[s]
  BY <1>1, <1>4, PutTable DEF ToursInv
<1>6. /\ t \in 1..ids /\ t \notin trace.gone
      /\ \A v \in Workers \ {w} : Busy(v) => req[v].t # t
  BY <1>1 DEF ToursInv, IdsInv, FreshInv
<1> HIDE DEF t
<1>7. IdsInv'
  BY <1>1, <1>2, <1>3, <1>5, <1>6 DEF ToursInv, IdsInv, Same
<1>8. FreshInv'
  BY <1>1, <1>2, <1>3, <1>5, <1>6 DEF ToursInv, FreshInv, Same, Busy
<1>9. OwnersAgree'
  <2> SUFFICES ASSUME NEW v \in Workers, HoldsCopy(v)'
               PROVE  /\ Exists(req[v].t)' => tours'[req'[v].t].owner = req'[v].row.owner
                      /\ \A u \in Workers :
                           HoldsCopy(u)' /\ req'[u].t = req'[v].t
                             => req'[u].row.owner = req'[v].row.owner
    BY DEF OwnersAgree
  <2>1. \A u \in Workers : HoldsCopy(u)' =>
          /\ u # w /\ HoldsCopy(u)
          /\ req'[u].t = req[u].t /\ req'[u].row.owner = req[u].row.owner
    BY <1>2, <1>3 DEF Same, Busy
  <2>2. /\ Exists(req[v].t) => tours[req[v].t].owner = req[v].row.owner
        /\ \A u \in Workers : HoldsCopy(u) /\ req[u].t = req[v].t
                                => req[u].row.owner = req[v].row.owner
    BY <2>1 DEF ToursInv, OwnersAgree
  <2>3. Exists(req[v].t)' => tours'[req'[v].t].owner = req'[v].row.owner
    BY <1>5, <1>6, <2>1, <2>2 DEF Exists, HoldsCopy, Busy
  <2>4. QED
    BY <2>1, <2>2, <2>3
<1>10. HelpedInv'
  BY <1>1, <1>2 DEF ToursInv, HelpedInv, Same, Busy, HoldsCopy
<1>11. GoneInv'
  BY <1>1, <1>2, <1>3, <1>5, <1>6 DEF ToursInv, GoneInv, Same, Busy, Exists
<1>12. QED
  BY <1>7, <1>8, <1>9, <1>10, <1>11 DEF ToursInv

\* A saved tour was known to be one, keeps its owner, and if it was deleted its copy was
\* out of date.
LEMMA SaveInv ==
  ASSUME ToursInv, NEW w \in Workers, SaveTour(w), ToursTypeOK'
  PROVE  ToursInv'
<1> DEFINE t == req[w].t
<1>1. /\ Others(w) /\ UNCHANGED ids
      /\ tours' = Put(tours, t, req[w].row)
      /\ trace'.free = trace.free
      /\ trace.clobbered \subseteq trace'.clobbered
      /\ req[w].stale => t \in trace'.clobbered
      /\ trace'.gone = trace.gone /\ trace'.helped = trace.helped
      /\ Busy(w) /\ HoldsCopy(w) /\ req'[w].pc = "idle"
  BY SaveFacts DEF ToursInv
<1>2. \A v \in Workers \ {w} : /\ Same(v)
                               /\ Creating(v)' <=> Creating(v)
                               /\ HoldsCopy(v)' <=> HoldsCopy(v)
                               /\ Busy(v)' <=> Busy(v)
  BY <1>1, SamePlace DEF Others
<1>3. ~Creating(w)' /\ ~HoldsCopy(w)' /\ ~Busy(w)' /\ ~Creating(w)
  BY <1>1 DEF HoldsCopy, Busy, Creating
<1>4. t \in TourIds /\ req[w].row \in TourRow
  BY <1>1, WhichReq DEF ToursInv
<1>5. /\ DOMAIN tours' = DOMAIN tours \cup {t}
      /\ \A s \in DOMAIN tours \ {t} : tours'[s] = tours[s]
      /\ tours'[t].owner = req[w].row.owner
  BY <1>1, <1>4, PutTable DEF ToursInv
<1>6. /\ t \in 1..ids
      /\ t \in trace.gone \ trace.clobbered => req[w].stale
      /\ \A v \in Workers \ {w} : Creating(v) => req[v].t # t
      /\ \A v \in Workers : HoldsCopy(v) /\ req[v].t = t => req[v].row.owner = req[w].row.owner
  BY <1>1, <1>3 DEF ToursInv, IdsInv, FreshInv, OwnersAgree, GoneInv
<1> HIDE DEF t
<1>7. IdsInv'
  BY <1>1, <1>2, <1>3, <1>5, <1>6 DEF ToursInv, IdsInv, Same
<1>8. FreshInv'
  BY <1>1, <1>2, <1>3, <1>5, <1>6 DEF ToursInv, FreshInv, Same, Busy
<1>9. OwnersAgree'
  <2> SUFFICES ASSUME NEW v \in Workers, HoldsCopy(v)'
               PROVE  /\ Exists(req[v].t)' => tours'[req'[v].t].owner = req'[v].row.owner
                      /\ \A u \in Workers :
                           HoldsCopy(u)' /\ req'[u].t = req'[v].t
                             => req'[u].row.owner = req'[v].row.owner
    BY DEF OwnersAgree
  <2>1. \A u \in Workers : HoldsCopy(u)' =>
          /\ u # w /\ HoldsCopy(u)
          /\ req'[u].t = req[u].t /\ req'[u].row.owner = req[u].row.owner
    BY <1>2, <1>3 DEF Same, Busy
  <2>2. /\ Exists(req[v].t) => tours[req[v].t].owner = req[v].row.owner
        /\ \A u \in Workers : HoldsCopy(u) /\ req[u].t = req[v].t
                                => req[u].row.owner = req[v].row.owner
    BY <2>1 DEF ToursInv, OwnersAgree
  <2>3. Exists(req[v].t)' => tours'[req'[v].t].owner = req'[v].row.owner
    BY <1>5, <1>6, <2>1, <2>2 DEF Exists
  <2>4. QED
    BY <2>1, <2>2, <2>3
<1>10. HelpedInv'
  BY <1>1, <1>2 DEF ToursInv, HelpedInv, Same, Busy, HoldsCopy
<1>11. GoneInv'
  BY <1>1, <1>2, <1>3, <1>5, <1>6 DEF ToursInv, GoneInv, Same, Busy, Exists
<1>12. QED
  BY <1>7, <1>8, <1>9, <1>10, <1>11 DEF ToursInv

\* Unfeaturing changes no owner and no copy.
LEMMA UnfeatureInv ==
  ASSUME ToursInv, NEW w \in Workers, UnfeatureAll(w), ToursTypeOK'
  PROVE  ToursInv'
<1>1. /\ Others(w) /\ UNCHANGED <<ids, trace>>
      /\ tours' = Unfeatured(req[w].user)
      /\ Busy(w) /\ HoldsCopy(w)
      /\ req'[w].pc = "save" /\ req'[w].t = req[w].t /\ req'[w].row = req[w].row
      /\ req'[w].stale = req[w].stale
  BY UnfeatureFacts DEF ToursInv
<1>2. \A v \in Workers \ {w} : /\ Same(v)
                               /\ Creating(v)' <=> Creating(v)
                               /\ HoldsCopy(v)' <=> HoldsCopy(v)
                               /\ Busy(v)' <=> Busy(v)
  BY <1>1, SamePlace DEF Others
<1>3. ~Creating(w)' /\ HoldsCopy(w)' /\ Busy(w)' /\ ~Creating(w)
  BY <1>1 DEF HoldsCopy, Busy, Creating
<1>4. DOMAIN tours' = DOMAIN tours /\ \A s \in DOMAIN tours : tours'[s].owner = tours[s].owner
  BY <1>1, UnfeaturedTable DEF ToursInv
<1>5. \A v \in Workers : /\ Creating(v)' <=> Creating(v)
                         /\ HoldsCopy(v)' <=> HoldsCopy(v)
                         /\ Busy(v)' <=> Busy(v)
                         /\ Busy(v) => req'[v].t = req[v].t /\ req'[v].row = req[v].row
                         /\ HoldsCopy(v) => (req[v].stale => req'[v].stale)
  BY <1>1, <1>2, <1>3 DEF Same
<1>6. IdsInv'
  BY <1>1, <1>4, <1>5 DEF ToursInv, IdsInv
<1>7. FreshInv'
  BY <1>1, <1>4, <1>5 DEF ToursInv, FreshInv, Busy
<1>8. OwnersAgree'
  BY <1>1, <1>4, <1>5 DEF ToursInv, OwnersAgree, Busy, Exists
<1>9. HelpedInv'
  BY <1>1, <1>2 DEF ToursInv, HelpedInv, Same, Busy, HoldsCopy
<1>10. GoneInv'
  BY <1>1, <1>4, <1>5 DEF ToursInv, GoneInv, Busy, Exists
<1>11. QED
  BY <1>6, <1>7, <1>8, <1>9, <1>10 DEF ToursInv

\* A deleted tour is not there, and every copy of it is out of date.
LEMMA DeleteInv ==
  ASSUME ToursInv, NEW w \in Workers, DeleteRow(w), ToursTypeOK'
  PROVE  ToursInv'
<1> DEFINE t == req[w].ref
<1>1. /\ Others(w) /\ UNCHANGED ids
      /\ tours' = Without(tours, t)
      /\ trace'.free = trace.free /\ trace'.clobbered = trace.clobbered
      /\ trace'.gone = trace.gone \cup (IF Exists(t) THEN {t} ELSE {})
      /\ trace'.helped = trace.helped
      /\ req'[w].pc = "idle"
      /\ \A v \in Workers \ {w} :
           HoldsCopy(v) /\ Exists(req[v].t) /\ req[v].t = t => req'[v].stale
  BY DeleteFacts DEF ToursInv
<1>2. \A v \in Workers \ {w} : /\ Same(v)
                               /\ Creating(v)' <=> Creating(v)
                               /\ HoldsCopy(v)' <=> HoldsCopy(v)
                               /\ Busy(v)' <=> Busy(v)
  BY <1>1, SamePlace DEF Others
<1>3. ~Creating(w)' /\ ~HoldsCopy(w)' /\ ~Busy(w)'
  BY <1>1 DEF HoldsCopy, Busy, Creating
<1> HIDE DEF t
<1>4. DOMAIN tours' = DOMAIN tours \ {t} /\ \A s \in DOMAIN tours' : tours'[s] = tours[s]
  BY <1>1, WithoutTable DEF ToursInv
<1>5. Exists(t) <=> t \in DOMAIN tours
  BY DEF Exists
<1>6. IdsInv'
  <2>1. DOMAIN tours' \cup trace'.gone \cup trace'.free
          \subseteq DOMAIN tours \cup trace.gone \cup trace.free
    BY <1>1, <1>4, <1>5
  <2>2. QED
    BY <1>1, <1>2, <1>3, <2>1 DEF ToursInv, IdsInv, Same
<1>7. FreshInv'
  <2>1. DOMAIN tours' \cup trace'.gone \cup trace'.free
          \subseteq DOMAIN tours \cup trace.gone \cup trace.free
    BY <1>1, <1>4, <1>5
  <2>2. QED
    BY <1>1, <1>2, <1>3, <2>1 DEF ToursInv, FreshInv, Same, Busy
<1>8. OwnersAgree'
  BY <1>1, <1>2, <1>3, <1>4 DEF ToursInv, OwnersAgree, Same, Busy, Exists
<1>9. HelpedInv'
  BY <1>1, <1>2 DEF ToursInv, HelpedInv, Same, Busy, HoldsCopy
<1>10. GoneInv'
  BY <1>1, <1>2, <1>3, <1>4, <1>5 DEF ToursInv, GoneInv, Same, Busy, Exists
<1>11. QED
  BY <1>6, <1>7, <1>8, <1>9, <1>10 DEF ToursInv

\* Every step keeps the invariant.
LEMMA NextInv == ASSUME ToursInv, [ToursNext]_tourVars PROVE ToursInv'
<1>1. ToursTypeOK'
  BY NextTyped DEF ToursInv
<1>2. CASE UNCHANGED tourVars
  BY <1>2 DEF ToursInv, ToursTypeOK, IdsInv, FreshInv, OwnersAgree, HelpedInv, GoneInv,
              Creating, HoldsCopy, Busy, Exists, tourVars
<1>3. ASSUME NEW w \in Workers, Request(w) PROVE ToursInv'
  <2>1. ASSUME NEW u \in Users, NEW ref \in TourIds \cup Slugs,
               DeleteTour(w, u, ref) \/ Refuse(w, u, ref)
        PROVE  ToursInv'
    BY <1>1, <2>1, QuietFacts, KeepInv DEF ToursInv
  <2>2. QED
    BY <1>1, <1>3, <2>1, CreateInv, CopyInv DEF Request
<1>4. ASSUME NEW w \in Workers, CountTours(w) PROVE ToursInv'
  <2>1. Creating(w) /\ Creating(w)'
    BY <1>4, CountFacts DEF ToursInv, Creating
  <2>2. QED
    BY <1>1, <1>4, <2>1, CountFacts, KeepInv DEF ToursInv
<1>5. ASSUME NEW w \in Workers, Statement(w) PROVE ToursInv'
  BY <1>1, <1>4, <1>5, InsertInv, UnfeatureInv, SaveInv, DeleteInv DEF Statement
<1>6. ASSUME NEW w \in Workers, Abandon(w) PROVE ToursInv'
  BY <1>1, <1>6, QuietFacts, KeepInv DEF ToursInv
<1>7. QED
  BY <1>2, <1>3, <1>5, <1>6 DEF ToursNext

\* At first no tour is known to anybody.
LEMMA InitInv == ToursInit => ToursInv
<1> SUFFICES ASSUME ToursInit PROVE ToursInv
  OBVIOUS
<1>1. ToursTypeOK
  BY InitTyped
<1>2. DOMAIN tours = {} /\ trace.gone = {} /\ trace.free = {}
  BY DEF ToursInit
<1>3. \A v \in Workers : ~Creating(v) /\ ~HoldsCopy(v) /\ ~Busy(v) /\ req[v].pc # "unfeature"
  BY DEF ToursInit, Idle, Creating, HoldsCopy, Busy
<1>4. QED
  BY <1>1, <1>2, <1>3 DEF ToursInv, IdsInv, FreshInv, OwnersAgree, HelpedInv, GoneInv

\* The invariant holds throughout.
LEMMA ToursInvAlways == ToursSpec => []ToursInv
BY InitInv, NextInv, PTL DEF ToursSpec

\* A deleted tour is there again only if a copy read before was saved after: its id is
\* never handed out again, and while no such copy was saved every copy is known to be out
\* of date (repo.go:183, 186-223).
THEOREM OnlyStaleSavesRevive == ToursSpec => []RevivedOnlyByStaleSave
<1>1. ToursInv => RevivedOnlyByStaleSave
  BY DEF ToursInv, GoneInv, RevivedOnlyByStaleSave
<1>2. QED
  BY <1>1, ToursInvAlways, PTL

-----------------------------------------------------------------------------
(* Counting by worker *)

\* Tours that workers name one each are no more than the workers.
LEMMA OnePerWorker ==
  ASSUME NEW S, NEW r, \A t \in S : \E w \in Workers : r[w].t = t
  PROVE  IsFiniteSet(S) /\ Cardinality(S) <= Cardinality(Workers)
<1> DEFINE f == [t \in S |-> CHOOSE w \in Workers : r[w].t = t]
<1>1. \A t \in S : f[t] \in Workers /\ r[f[t]].t = t
  OBVIOUS
<1>2. f \in [S -> Workers]
  BY <1>1
<1> HIDE DEF f
<1>3. f \in Injection(S, Workers)
  BY <1>1, <1>2 DEF Injection, IsInjective
<1>4. QED
  BY <1>3, ToursWorkersFinite, FS_Injection

\* Any set of tours is finite.
LEMMA ToursFinite ==
  ASSUME NEW S \in SUBSET TourIds
  PROVE  IsFiniteSet(S) /\ Cardinality(S) \in Nat
<1>1. IsFiniteSet(TourIds)
  BY MaxToursNat, FS_Interval DEF TourIds
<1>2. QED
  BY <1>1, FS_Subset, FS_CardinalityType

\* A bound that holds of a set holds of what is left of it.
LEMMA LessIsBounded ==
  ASSUME NEW S \in SUBSET TourIds, NEW T \in SUBSET S, Cardinality(S) <= Cardinality(Workers)
  PROVE  Cardinality(T) <= Cardinality(Workers)
<1>1. /\ IsFiniteSet(S) /\ Cardinality(S) \in Nat /\ Cardinality(T) \in Nat
      /\ Cardinality(Workers) \in Nat
  BY ToursFinite, ToursWorkersFinite, FS_CardinalityType
<1>2. Cardinality(T) <= Cardinality(S)
  BY <1>1, FS_Subset
<1>3. QED
  BY <1>1, <1>2

-----------------------------------------------------------------------------
(* Free tours *)

\* Tours about to be inserted that need not be paid.
FreePending(u) ==
  {t \in TourIds : \E w \in Workers :
     Creating(w) /\ req[w].t = t /\ req[w].row.owner = u /\ req[w].row.paid}

FreeStored(u) == (OwnedBy(u) \cap trace.free) \ trace.revived

FreeOf(u) == FreeStored(u) \cup FreePending(u)

FreeInv == \A u \in Users : Cardinality(FreeOf(u)) <= Cardinality(Workers)

\* No step adds to the free tours of a user, there or to come, unless the user has none.
LEMMA FreeShrinks ==
  ASSUME ToursInv, [ToursNext]_tourVars, NEW u \in Users
  PROVE  FreeOf(u)' \subseteq FreeOf(u) \/ OwnedBy(u)' = {}
<1>1. CASE UNCHANGED tourVars
  BY <1>1 DEF tourVars, FreeOf, FreeStored, FreePending, OwnedBy, Creating
<1>2. ASSUME NEW w \in Workers, Others(w)
      PROVE  \A v \in Workers \ {w} : /\ Creating(v)' <=> Creating(v)
                                      /\ Creating(v) => /\ req'[v].t = req[v].t
                                                        /\ req'[v].row = req[v].row
  BY <1>2, SamePlace DEF Others, Same, Busy
<1>3. ASSUME NEW w \in Workers, Others(w),
             \/ ~Creating(w)'
             \/ req'[w].row.owner # u
             \/ ~req'[w].row.paid
             \/ /\ Creating(w) /\ req'[w].t = req[w].t
                /\ req'[w].row.owner = req[w].row.owner /\ req'[w].row.paid = req[w].row.paid
      PROVE  FreePending(u)' \subseteq FreePending(u)
  BY <1>2, <1>3 DEF FreePending
<1>4. ASSUME UNCHANGED tours, trace'.free = trace.free, trace'.revived = trace.revived
      PROVE  FreeStored(u)' = FreeStored(u) /\ OwnedBy(u)' = OwnedBy(u)
  BY <1>4 DEF FreeStored, OwnedBy
<1>5. ASSUME NEW w \in Workers, NEW x \in Users, CreateTour(w, x)
      PROVE  FreeOf(u)' \subseteq FreeOf(u) \/ OwnedBy(u)' = {}
  BY <1>3, <1>4, <1>5, CreateFacts DEF ToursInv, FreeOf
<1>6. ASSUME NEW w \in Workers, NEW x \in Users, NEW ref,
             EditTour(w, x, ref) \/ FeatureTour(w, x, ref)
      PROVE  FreeOf(u)' \subseteq FreeOf(u)
  <2>1. ~Creating(w)'
    BY <1>6, CopyFacts DEF ToursInv, Creating
  <2>2. QED
    BY <1>3, <1>4, <1>6, <2>1, CopyFacts DEF ToursInv, FreeOf
<1>7. ASSUME NEW w \in Workers, CountTours(w) PROVE FreeOf(u)' \subseteq FreeOf(u)
  <2>1. Creating(w)
    BY <1>7, CountFacts DEF ToursInv, Creating
  <2>2. QED
    BY <1>3, <1>4, <1>7, <2>1, CountFacts DEF ToursInv, FreeOf
<1>8. ASSUME NEW w \in Workers,
             \/ \E x \in Users, ref \in TourIds \cup Slugs :
                  DeleteTour(w, x, ref) \/ Refuse(w, x, ref)
             \/ Abandon(w)
      PROVE  FreeOf(u)' \subseteq FreeOf(u)
  <2>1. ~Creating(w)'
    BY <1>8, QuietFacts DEF ToursInv, Creating
  <2>2. QED
    BY <1>3, <1>4, <1>8, <2>1, QuietFacts DEF ToursInv, FreeOf
<1>9. ASSUME NEW w \in Workers, InsertTour(w) PROVE FreeOf(u)' \subseteq FreeOf(u)
  <2> DEFINE t == req[w].t
  <2>1. /\ Others(w) /\ Creating(w) /\ ~Creating(w)' /\ t \in TourIds /\ req[w].row \in TourRow
        /\ trace'.free = trace.free \cup (IF req[w].row.paid THEN {t} ELSE {})
        /\ trace'.revived = trace.revived
        /\ t \notin trace.free
    BY <1>9, InsertFacts, WhichReq DEF ToursInv, FreshInv, Creating
  <2>2. /\ DOMAIN tours' = DOMAIN tours \cup {t} /\ tours'[t] = req[w].row
        /\ \A s \in DOMAIN tours \ {t} : tours'[s] = tours[s]
    <3>1. ToursTypeOK /\ tours' = Put(tours, t, req[w].row)
      BY <1>9, InsertFacts DEF ToursInv
    <3> HIDE DEF t
    <3>2. QED
      BY <2>1, <3>1, PutTable
  <2>3. FreePending(u)' \subseteq FreePending(u)
    BY <1>3, <2>1
  <2> HIDE DEF t
  <2>4. ASSUME NEW s \in FreeStored(u)' PROVE s \in FreeOf(u)
    <3>1. /\ s \in DOMAIN tours' /\ tours'[s].owner = u /\ s \in trace'.free
          /\ s \notin trace.revived
      BY <2>1 DEF FreeStored, OwnedBy
    <3>2. CASE s = t
      BY <2>1, <2>2, <3>1, <3>2 DEF FreeOf, FreePending, t
    <3>3. CASE s # t
      BY <2>1, <2>2, <3>1, <3>3 DEF FreeOf, FreeStored, OwnedBy
    <3>4. QED
      BY <3>2, <3>3
  <2>5. QED
    BY <2>3, <2>4 DEF FreeOf
<1>10. ASSUME NEW w \in Workers, SaveTour(w) PROVE FreeOf(u)' \subseteq FreeOf(u)
  <2> DEFINE t == req[w].t
  <2>1. /\ Others(w) /\ HoldsCopy(w) /\ ~Creating(w)' /\ t \in TourIds /\ req[w].row \in TourRow
        /\ trace'.free = trace.free
        /\ trace'.revived = trace.revived \cup (IF Exists(t) THEN {} ELSE {t})
        /\ Exists(t) => tours[t].owner = req[w].row.owner
    BY <1>10, SaveFacts, WhichReq DEF ToursInv, OwnersAgree, Creating
  <2>2. /\ DOMAIN tours' = DOMAIN tours \cup {t} /\ tours'[t] = req[w].row
        /\ \A s \in DOMAIN tours \ {t} : tours'[s] = tours[s]
    <3>1. ToursTypeOK /\ tours' = Put(tours, t, req[w].row)
      BY <1>10, SaveFacts DEF ToursInv
    <3> HIDE DEF t
    <3>2. QED
      BY <2>1, <3>1, PutTable
  <2>3. FreePending(u)' \subseteq FreePending(u)
    BY <1>3, <2>1
  <2> HIDE DEF t
  <2>4. FreeStored(u)' \subseteq FreeStored(u)
    BY <2>1, <2>2 DEF FreeStored, OwnedBy, Exists
  <2>5. QED
    BY <2>3, <2>4 DEF FreeOf
<1>11. ASSUME NEW w \in Workers, UnfeatureAll(w) PROVE FreeOf(u)' \subseteq FreeOf(u)
  <2>1. /\ Others(w) /\ ~Creating(w)' /\ UNCHANGED trace
        /\ DOMAIN tours' = DOMAIN tours
        /\ \A s \in DOMAIN tours : tours'[s].owner = tours[s].owner
    BY <1>11, UnfeatureFacts, UnfeaturedTable DEF ToursInv, Creating
  <2>2. FreeStored(u)' \subseteq FreeStored(u)
    BY <2>1 DEF FreeStored, OwnedBy
  <2>3. QED
    BY <1>3, <2>1, <2>2 DEF FreeOf
<1>12. ASSUME NEW w \in Workers, DeleteRow(w) PROVE FreeOf(u)' \subseteq FreeOf(u)
  <2>1. /\ Others(w) /\ ~Creating(w)' /\ trace'.free = trace.free
        /\ trace'.revived = trace.revived
        /\ DOMAIN tours' \subseteq DOMAIN tours
        /\ \A s \in DOMAIN tours' : tours'[s] = tours[s]
    BY <1>12, DeleteFacts, WithoutTable DEF ToursInv, Creating
  <2>2. FreeStored(u)' \subseteq FreeStored(u)
    BY <2>1 DEF FreeStored, OwnedBy
  <2>3. QED
    BY <1>3, <2>1, <2>2 DEF FreeOf
<1>13. QED
  BY <1>1, <1>5, <1>6, <1>7, <1>8, <1>9, <1>10, <1>11, <1>12
     DEF ToursNext, Request, Statement

\* So there are never more of them than workers.
LEMMA NextFree == ASSUME ToursInv, FreeInv, [ToursNext]_tourVars PROVE FreeInv'
<1>1. ToursTypeOK
  BY DEF ToursInv
<1>2. ASSUME NEW u \in Users PROVE Cardinality(FreeOf(u)') <= Cardinality(Workers)
  <2>1. CASE FreeOf(u)' \subseteq FreeOf(u)
    <3>1. FreeOf(u) \subseteq TourIds
      BY <1>1 DEF FreeOf, FreeStored, FreePending, OwnedBy, ToursTypeOK
    <3>2. QED
      BY <2>1, <3>1, LessIsBounded DEF FreeInv
  <2>2. CASE OwnedBy(u)' = {}
    <3>1. FreeOf(u)' = FreePending(u)'
      BY <2>2 DEF FreeOf, FreeStored
    <3>2. \A t \in FreeOf(u)' : \E w \in Workers : req'[w].t = t
      BY <3>1 DEF FreePending
    <3>3. QED
      BY <3>2, OnePerWorker
  <2>3. QED
    BY <2>1, <2>2, FreeShrinks
<1>3. QED
  BY <1>2 DEF FreeInv

\* The free tours a user has are at most as many as the workers, leaving out those a save
\* brought back: a creation is free only while its user has no tour, and what other
\* workers are then about to insert is one each (handlers.go:122-145).
THEOREM FreeToursStayBounded == ToursSpec => []FreeToursBounded
<1>1. ToursInit => FreeInv
  <2> SUFFICES ASSUME ToursInit PROVE FreeInv
    OBVIOUS
  <2>1. ASSUME NEW u \in Users PROVE Cardinality(FreeOf(u)) <= Cardinality(Workers)
    <3>1. FreeOf(u) = {}
      BY DEF ToursInit, FreeOf, FreeStored, FreePending, OwnedBy, Creating, Idle
    <3>2. QED
      BY <3>1, OnePerWorker
  <2>2. QED
    BY <2>1 DEF FreeInv
<1>2. ToursInv /\ FreeInv => FreeToursBounded
  <2> SUFFICES ASSUME ToursInv, FreeInv, NEW u \in Users
               PROVE  Cardinality(FreeStored(u)) <= Cardinality(Workers)
    BY DEF FreeToursBounded, FreeStored
  <2>1. FreeOf(u) \subseteq TourIds /\ FreeStored(u) \subseteq FreeOf(u)
    BY DEF FreeOf, FreeStored, FreePending, OwnedBy, ToursInv, ToursTypeOK
  <2>2. QED
    BY <2>1, LessIsBounded DEF FreeInv
<1>3. ToursInv /\ FreeInv /\ [ToursNext]_tourVars => FreeInv'
  BY NextFree
<1>4. QED
  BY <1>1, <1>2, <1>3, ToursInvAlways, PTL DEF ToursSpec

-----------------------------------------------------------------------------
(* Featured tours *)

\* Tours whose next statement writes a featured row of the user.
FeaturedPending(u) ==
  {t \in TourIds : \E w \in Workers :
     req[w].pc \in {"insert", "save"} /\ req[w].t = t
       /\ req[w].row.owner = u /\ req[w].row.featured}

FeaturedOf(u) == Featured(u) \cup FeaturedPending(u)

FeaturedInv ==
  \A u \in Users \ trace.helped : Cardinality(FeaturedOf(u)) <= Cardinality(Workers)

\* Unless an admin has helped the user, no step adds to the featured tours of a user, there
\* or to come, but one that leaves only those to come.
LEMMA FeaturedShrinks ==
  ASSUME ToursInv, [ToursNext]_tourVars, NEW u \in Users \ trace'.helped
  PROVE  FeaturedOf(u)' \subseteq FeaturedOf(u) \/ Featured(u)' = {}
<1> DEFINE At(r) == r.pc \in {"insert", "save"}
<1>1. CASE UNCHANGED tourVars
  BY <1>1 DEF tourVars, FeaturedOf, Featured, FeaturedPending, OwnedBy
<1>2. ASSUME NEW w \in Workers, Others(w)
      PROVE  \A v \in Workers \ {w} : /\ req'[v].pc = req[v].pc
                                      /\ At(req[v]) => /\ req'[v].t = req[v].t
                                                       /\ req'[v].row = req[v].row
  BY <1>2 DEF Others, Same, Busy, Creating, HoldsCopy
<1>3. ASSUME NEW w \in Workers, Others(w),
             \/ ~At(req'[w])
             \/ req'[w].row.owner # u
             \/ ~req'[w].row.featured
      PROVE  FeaturedPending(u)' \subseteq FeaturedPending(u)
  BY <1>2, <1>3 DEF FeaturedPending
<1>4. ASSUME UNCHANGED tours
      PROVE  Featured(u)' = Featured(u) /\ OwnedBy(u)' = OwnedBy(u)
  BY <1>4 DEF Featured, OwnedBy
<1>5. ASSUME NEW w \in Workers, NEW x \in Users, CreateTour(w, x)
      PROVE  FeaturedOf(u)' \subseteq FeaturedOf(u)
  BY <1>3, <1>4, <1>5, CreateFacts DEF ToursInv, FeaturedOf
<1>6. ASSUME NEW w \in Workers, NEW x \in Users, NEW ref,
             EditTour(w, x, ref) \/ FeatureTour(w, x, ref)
      PROVE  FeaturedOf(u)' \subseteq FeaturedOf(u)
  <2>1. /\ Others(w) /\ UNCHANGED tours
        /\ req'[w].t \in DOMAIN tours
        /\ req'[w].row.owner = tours[req'[w].t].owner
        /\ req'[w].pc \in {"unfeature", "save"}
        /\ req'[w].pc = "save" /\ req'[w].row.featured => tours[req'[w].t].featured
    BY <1>6, CopyFacts DEF ToursInv
  <2>2. ASSUME NEW t \in FeaturedPending(u)' PROVE t \in FeaturedOf(u)
    <3>1. PICK v \in Workers : /\ At(req'[v]) /\ req'[v].t = t
                               /\ req'[v].row.owner = u /\ req'[v].row.featured
      BY DEF FeaturedPending
    <3>2. t \in TourIds
      BY DEF FeaturedPending
    <3>3. CASE v = w
      BY <2>1, <3>1, <3>3 DEF FeaturedOf, Featured, OwnedBy
    <3>4. CASE v # w
      BY <1>2, <2>1, <3>1, <3>2, <3>4 DEF FeaturedOf, FeaturedPending
    <3>5. QED
      BY <3>3, <3>4
  <2>3. QED
    BY <1>4, <2>1, <2>2 DEF FeaturedOf
<1>7. ASSUME NEW w \in Workers, CountTours(w)
      PROVE  FeaturedOf(u)' \subseteq FeaturedOf(u) \/ Featured(u)' = {}
  <2>1. /\ Others(w) /\ UNCHANGED tours
        /\ req'[w].row.featured => OwnedBy(req'[w].row.owner) = {}
    BY <1>7, CountFacts DEF ToursInv
  <2>2. OwnedBy(u) = {} => Featured(u)' = {}
    BY <1>4, <2>1 DEF Featured
  <2>3. QED
    BY <1>3, <1>4, <2>1, <2>2 DEF FeaturedOf
<1>8. ASSUME NEW w \in Workers,
             \/ \E x \in Users, ref \in TourIds \cup Slugs :
                  DeleteTour(w, x, ref) \/ Refuse(w, x, ref)
             \/ Abandon(w)
      PROVE  FeaturedOf(u)' \subseteq FeaturedOf(u)
  BY <1>3, <1>4, <1>8, QuietFacts DEF ToursInv, FeaturedOf
<1>9. ASSUME NEW w \in Workers, InsertTour(w) \/ SaveTour(w)
      PROVE  FeaturedOf(u)' \subseteq FeaturedOf(u)
  <2> DEFINE t == req[w].t
  <2>1. /\ Others(w) /\ At(req[w]) /\ Busy(w) /\ req'[w].pc = "idle"
        /\ tours' = Put(tours, t, req[w].row)
    BY <1>9, InsertFacts, SaveFacts DEF ToursInv
  <2>2. t \in TourIds /\ req[w].row \in TourRow
    BY <2>1, WhichReq DEF ToursInv
  <2>3. /\ DOMAIN tours' = DOMAIN tours \cup {t} /\ tours'[t] = req[w].row
        /\ \A s \in DOMAIN tours \ {t} : tours'[s] = tours[s]
    BY <2>1, <2>2, PutTable DEF ToursInv
  <2>4. FeaturedPending(u)' \subseteq FeaturedPending(u)
    BY <1>3, <2>1
  <2>5. req[w].row.owner = u /\ req[w].row.featured => t \in FeaturedPending(u)
    BY <2>1, <2>2 DEF FeaturedPending
  <2> HIDE DEF t
  <2>6. Featured(u)' \subseteq FeaturedOf(u)
    BY <2>3, <2>5 DEF FeaturedOf, Featured, OwnedBy
  <2>7. QED
    BY <2>4, <2>6 DEF FeaturedOf
<1>10. ASSUME NEW w \in Workers, UnfeatureAll(w)
       PROVE  FeaturedOf(u)' \subseteq FeaturedOf(u) \/ Featured(u)' = {}
  <2>1. /\ Others(w) /\ UNCHANGED trace /\ req[w].pc = "unfeature" /\ req'[w].row = req[w].row
        /\ DOMAIN tours' = DOMAIN tours
        /\ \A s \in DOMAIN tours : /\ tours'[s].owner = tours[s].owner
                                   /\ tours'[s].featured =>
                                        tours[s].featured /\ tours[s].owner # req[w].user
    BY <1>10, UnfeatureFacts, UnfeaturedTable DEF ToursInv
  <2>2. CASE req[w].user = u
    <3>1. Featured(u)' = {}
      BY <2>1, <2>2 DEF Featured, OwnedBy
    <3>2. QED
      BY <3>1
  <2>3. CASE req[w].user # u
    <3>1. req'[w].row.owner # u
      BY <2>1, <2>3 DEF ToursInv, HelpedInv
    <3>2. Featured(u)' \subseteq Featured(u)
      BY <2>1 DEF Featured, OwnedBy
    <3>3. QED
      BY <1>3, <2>1, <3>1, <3>2 DEF FeaturedOf
  <2>4. QED
    BY <2>2, <2>3
<1>11. ASSUME NEW w \in Workers, DeleteRow(w) PROVE FeaturedOf(u)' \subseteq FeaturedOf(u)
  <2>1. /\ Others(w) /\ req'[w].pc = "idle"
        /\ DOMAIN tours' \subseteq DOMAIN tours
        /\ \A s \in DOMAIN tours' : tours'[s] = tours[s]
    BY <1>11, DeleteFacts, WithoutTable DEF ToursInv
  <2>2. Featured(u)' \subseteq Featured(u)
    BY <2>1 DEF Featured, OwnedBy
  <2>3. QED
    BY <1>3, <2>1, <2>2 DEF FeaturedOf
<1>12. QED
  BY <1>1, <1>5, <1>6, <1>7, <1>8, <1>9, <1>10, <1>11
     DEF ToursNext, Request, Statement

\* A user who was helped stays so.
LEMMA HelpedGrows ==
  ASSUME ToursInv, [ToursNext]_tourVars
  PROVE  trace.helped \subseteq trace'.helped
BY CreateFacts, CountFacts, CopyFacts, QuietFacts, InsertFacts, SaveFacts, UnfeatureFacts,
   DeleteFacts
   DEF ToursInv, ToursNext, Request, Statement, tourVars

\* So there are never more featured tours than workers.
LEMMA NextFeatured == ASSUME ToursInv, FeaturedInv, [ToursNext]_tourVars PROVE FeaturedInv'
<1>1. ASSUME NEW u \in Users \ trace'.helped
      PROVE  Cardinality(FeaturedOf(u)') <= Cardinality(Workers)
  <2>1. u \in Users \ trace.helped
    BY HelpedGrows
  <2>2. CASE FeaturedOf(u)' \subseteq FeaturedOf(u)
    <3>1. FeaturedOf(u) \subseteq TourIds
      BY DEF FeaturedOf, Featured, FeaturedPending, OwnedBy, ToursInv, ToursTypeOK
    <3>2. QED
      BY <2>1, <2>2, <3>1, LessIsBounded DEF FeaturedInv
  <2>3. CASE Featured(u)' = {}
    <3>1. FeaturedOf(u)' = FeaturedPending(u)'
      BY <2>3 DEF FeaturedOf
    <3>2. \A t \in FeaturedOf(u)' : \E w \in Workers : req'[w].t = t
      BY <3>1 DEF FeaturedPending
    <3>3. QED
      BY <3>2, OnePerWorker
  <2>4. QED
    BY <2>2, <2>3, FeaturedShrinks
<1>2. QED
  BY <1>1 DEF FeaturedInv

\* A user whom no admin has helped has at most as many featured tours as there are workers:
\* featuring unfeatures the owner's others first, and then only requests under way write
\* featured rows, one each (handlers.go:570-582, service.go:103-106).
THEOREM FeaturedStayBounded == ToursSpec => []FeaturedBounded
<1>1. ToursInit => FeaturedInv
  <2> SUFFICES ASSUME ToursInit PROVE FeaturedInv
    OBVIOUS
  <2>1. ASSUME NEW u \in Users PROVE Cardinality(FeaturedOf(u)) <= Cardinality(Workers)
    <3>1. FeaturedOf(u) = {}
      BY DEF ToursInit, FeaturedOf, Featured, FeaturedPending, OwnedBy, Idle
    <3>2. QED
      BY <3>1, OnePerWorker
  <2>2. QED
    BY <2>1 DEF FeaturedInv
<1>2. ToursInv /\ FeaturedInv => FeaturedBounded
  <2> SUFFICES ASSUME ToursInv, FeaturedInv, NEW u \in Users \ trace.helped
               PROVE  Cardinality(Featured(u)) <= Cardinality(Workers)
    BY DEF FeaturedBounded
  <2>1. FeaturedOf(u) \subseteq TourIds /\ Featured(u) \subseteq FeaturedOf(u)
    BY DEF FeaturedOf, Featured, FeaturedPending, OwnedBy, ToursInv, ToursTypeOK
  <2>2. QED
    BY <2>1, LessIsBounded DEF FeaturedInv
<1>3. ToursInv /\ FeaturedInv /\ [ToursNext]_tourVars => FeaturedInv'
  BY NextFeatured
<1>4. QED
  BY <1>1, <1>2, <1>3, ToursInvAlways, PTL DEF ToursSpec
=============================================================================
