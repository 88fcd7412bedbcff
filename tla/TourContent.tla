---------------------------- MODULE TourContent ----------------------------
(***************************************************************************)
(* What hangs on a tour: scenes, the hotspots and overlays of scenes, and  *)
(* play tours with their stops (play_tour_scenes).  The handlers are those *)
(* of internal/tours/handlers.go and scene_handlers.go, with the service   *)
(* and repository calls they make.                                         *)
(*                                                                         *)
(* Most handlers read and then write in a statement of its own.  Three     *)
(* deletions and the update of a play tour are transactions: their         *)
(* statements lock rows one after the other, and nothing is seen of them   *)
(* before they commit.  The database holds hotspots and overlays to an     *)
(* existing scene and stops to an existing play tour (the associations of  *)
(* models/tour.go); nothing holds a scene to its tour, nor a target.       *)
(*                                                                         *)
(* Requests for what the user may not manage change nothing and are left   *)
(* out.  Tours are there from the start; module Tours has their life.      *)
(***************************************************************************)
EXTENDS Integers, Sequences, FiniteSets, SequencesExt

CONSTANTS
  Workers,                            \* the goroutines serving requests
  Tours, Scenes, Hotspots, Overlays,  \* the ids of each table,
  Plays, Stops,                       \* which bound what is ever created
  BySlug,                             \* the tours that clients also name by slug
  None                                \* no tour, no target: the empty string

ASSUME ContentWorkersFinite == IsFiniteSet(Workers) /\ Workers # {}
ASSUME BySlugAreTours == BySlug \subseteq Tours
ASSUME TablesFinite == IsFiniteSet(Scenes \cup Hotspots \cup Overlays \cup Plays \cup Stops)
ASSUME TablesDisjoint ==
  LET slugs == {<<t>> : t \in BySlug}
      tables == <<Tours, Scenes, Hotspots, Overlays, Plays, Stops, {None}, slugs>>
  IN \A i, j \in DOMAIN tables : i # j => tables[i] \cap tables[j] = {}

VARIABLES
  rows,   \* every table: a function from the ids of the rows there are
  op,     \* op[w]: where worker w is in its request
  used    \* history: the ids handed out, those of play tours and stops with the number of
          \* the request they came with

contentVars == <<rows, op, used>>

Marks == Hotspots \cup Overlays
Items == Scenes \cup Marks \cup Plays \cup Stops

\* A tour's slug is the tuple of the tour; no id is a tuple.
Refs == Tours \cup {<<t>> : t \in BySlug}

\* of: the tour of a scene or a play tour, as the request gave it, the scene of a mark, the
\* play tour of a stop.  to: the target of a hotspot, the scene of a stop.
Row == [of : Refs \cup Scenes \cup Plays \cup {None}, to : Scenes \cup {None}]

Idle == [pc |-> "idle"]

InTxn(w) == op[w].pc \in {"scan", "lock"}

-----------------------------------------------------------------------------
(* The tables *)

Exists(r) == r \in DOMAIN rows

\* FindByID: the tour of this id or slug, if there is one.
Named(ref) == {t \in Tours : Exists(t) /\ ref \in {t, <<t>>}}

Of(parents, table) == {r \in table : Exists(r) /\ rows[r].of \in parents}

AimedAt(s, table) == {r \in table : Exists(r) /\ rows[r].to = s}

\* Rows with a foreign key that says where they belong.
Bound == Marks \cup Stops

\* The row a transaction updates and keeps.
Kept(o) == IF o.do = "replace" THEN {o.of} ELSE {}

Gone(o) == o.held \ Kept(o)

HeldByOther(w, r) == \E v \in Workers \ {w} : InTxn(v) /\ r \in op[v].held

GoneByOther(w, r) == \E v \in Workers \ {w} : InTxn(v) /\ r \in Gone(op[v])

\* new, written over the tables; ids, the rows other requests see change under them.
Store(w, new, ids, next) ==
  /\ rows' = new
  /\ op' = [v \in Workers |-> IF v = w THEN next
                              ELSE IF InTxn(v) THEN [op[v] EXCEPT !.late = @ \cup ids]
                              ELSE op[v]]

Over(put, table) ==
  [r \in DOMAIN table \cup DOMAIN put |-> IF r \in DOMAIN put THEN put[r] ELSE table[r]]

Except(table, ids) == [r \in DOMAIN table \ ids |-> table[r]]

One(r, of, to) == [i \in {r} |-> [of |-> of, to |-> to]]

Goto(w, o) == op' = [op EXCEPT ![w] = o]

Use(ids) ==
  used' = Over([r \in ids |-> IF r \in Plays \cup Stops
                             THEN Cardinality(DOMAIN used \cap (Plays \cup Stops)) + 1 ELSE 0],
               used)

Fresh(table) == table \ DOMAIN used

-----------------------------------------------------------------------------
(* Requests that write in single statements *)

\* Begin a request that goes on with these writes, one statement each.
Begin(w, puts) ==
  /\ op[w].pc = "idle"
  /\ Goto(w, [pc |-> "write", puts |-> puts])
  /\ UNCHANGED rows

\* GetTour of a tour column, as every handler does before it writes.
TourFound == \E t \in Tours : Exists(t)

Belongs(s) == Exists(s) /\ Named(rows[s].of) # {}

\* The tour column is what the URL held, an id or a slug.
CreateScene(w, ref) ==
  /\ Named(ref) # {}
  /\ \E s \in Fresh(Scenes) : Begin(w, <<One(s, ref, None)>>) /\ Use({s})

\* The body is saved whole, and it may name another tour or none.
UpdateScene(w, s) ==
  /\ Belongs(s)
  /\ \E of \in {rows[s].of, None} \cup {t \in Tours : Exists(t)} :
       Begin(w, <<One(s, of, None)>>)
  /\ UNCHANGED used

\* The copy that was read is saved.
UpdateSceneImages(w, s) ==
  /\ Belongs(s)
  /\ Begin(w, <<One(s, rows[s].of, None)>>)
  /\ UNCHANGED used

\* The scene is looked up and must belong to the tour named; a target is taken as it comes.
InsertMark(w, s, m, to) == Belongs(s) /\ Begin(w, <<One(m, s, to)>>) /\ Use({m})

Targets == {s \in Scenes : Exists(s)} \cup {None}

CreateHotspot(w, s) ==
  \E h \in Fresh(Hotspots), to \in Targets : InsertMark(w, s, h, to)

CreateOverlay(w, s) == \E o \in Fresh(Overlays) : InsertMark(w, s, o, None)

\* The body is saved under the id of the URL, without looking whether there is such a row.
SaveMark(w, s, m, to) ==
  /\ m \notin Fresh(Marks) /\ Exists(s)
  /\ Begin(w, <<One(m, s, to)>>)
  /\ UNCHANGED used

UpdateHotspot(w, h) ==
  TourFound /\ \E s \in Scenes, to \in Targets : SaveMark(w, s, h, to)

\* The scene of the URL belongs to the tour; the scene saved is that of the body.
UpdateHotspotByTourAndScene(w, s, h) == Belongs(s) /\ UpdateHotspot(w, h)

UpdateOverlay(w, o) == TourFound /\ \E s \in Scenes : SaveMark(w, s, o, None)

\* DELETE of one row, once no transaction holds it.
DeleteMark(w, m) ==
  /\ op[w].pc = "idle"
  /\ Exists(m) /\ ~HeldByOther(w, m)
  /\ rows' = Except(rows, {m})
  /\ UNCHANGED <<op, used>>

DeleteHotspot(w, h) == TourFound /\ DeleteMark(w, h)

DeleteHotspotByTourAndScene(w, s, h) == Belongs(s) /\ h \in Of({s}, Hotspots) /\ DeleteMark(w, h)

DeleteOverlay(w, o) == TourFound /\ DeleteMark(w, o)

\* The stops a request names: new rows, whose scenes nobody looks up.
NewStops(p) ==
  UNION {{[q \in ids |-> [of |-> p, to |-> to[q]]] : to \in [ids -> {s \in Scenes : Exists(s)}]} :
           ids \in SUBSET Fresh(Stops)}

\* INSERT of the play tour and then of its stops, in no transaction.
CreatePlayTour(w, ref) ==
  \E p \in Fresh(Plays) : \E stops \in NewStops(p) :
    /\ Begin(w, <<One(p, ref, None), stops>>)
    /\ Use({p} \cup DOMAIN stops)

\* Mutant of ParentsStand: the models do not say which rows belong to which.
ParentsStand_NoConstraint(put) == TRUE

\* Every row put has its parent, committed and not about to go.
ParentsStand(put) == \A r \in DOMAIN put \cap Bound : Exists(put[r].of)

\* INSERT or Save of the next rows.  It waits for whoever deletes one of them or its parent;
\* a foreign key that fails ends the request.
WriteRows(w) ==
  /\ op[w].pc = "write"
  /\ LET put  == Head(op[w].puts)
         rest == Tail(op[w].puts)
         next == IF rest = <<>> THEN Idle ELSE [pc |-> "write", puts |-> rest]
     IN /\ \A r \in DOMAIN put : ~HeldByOther(w, r)
        /\ \A r \in DOMAIN put \cap Bound : ~GoneByOther(w, put[r].of)
        /\ IF ParentsStand(put) THEN Store(w, Over(put, rows), DOMAIN put, next)
           ELSE Goto(w, Idle) /\ UNCHANGED rows
  /\ UNCHANGED used

-----------------------------------------------------------------------------
(* Transactions *)

Transaction(w, do, of, put) ==
  /\ op[w].pc = "idle"
  /\ Goto(w, [pc |-> "scan", do |-> do, of |-> of, put |-> put, step |-> 1, queue |-> <<>>,
              held |-> {}, late |-> {}])
  /\ UNCHANGED rows

NoRows == [r \in {} |-> r]

DeleteTour(w, ref) ==
  /\ Named(ref) # {}
  /\ Transaction(w, "tour", ref, NoRows)
  /\ UNCHANGED used

DeleteScene(w, s) ==
  /\ Belongs(s)
  /\ Transaction(w, "scene", s, NoRows)
  /\ UNCHANGED used

DeletePlayTour(w, p) ==
  /\ Transaction(w, "play", p, NoRows)
  /\ UNCHANGED used

\* Save of the play tour, then its stops are deleted and those of the body inserted.
UpdatePlayTour(w, p, ref) ==
  /\ p \notin Fresh(Plays)
  /\ \E stops \in NewStops(p) :
       /\ Transaction(w, "replace", p, Over(stops, One(p, ref, None)))
       /\ Use(DOMAIN stops)

\* Mutant of Statements: the rest is left to a cascade that the tables do not have.
Statements_Cascade(o) == <<{r \in {o.of} : Exists(r)}>>

\* The statements of a transaction, in order, as the rows each is about at present.
Statements(o) ==
  LET self   == {r \in {o.of} : Exists(r)}
      scenes == Of({o.of}, Scenes)
  IN CASE o.do = "tour"    -> <<Of(scenes, Hotspots), Of(scenes, Overlays), scenes, self>>
       [] o.do = "scene"   -> <<Of({o.of}, Hotspots), AimedAt(o.of, Hotspots),
                                Of({o.of}, Overlays), AimedAt(o.of, Stops), self>>
       [] o.do = "play"    -> <<Of({o.of}, Stops), self>>
       [] o.do = "replace" -> <<self, Of({o.of}, Stops)>>

\* A statement begins: the rows it is about, in an order of the database's choice.
Scan(w) ==
  /\ op[w].pc = "scan"
  /\ \E queue \in SetToSeqs(Statements(op[w])[op[w].step] \ op[w].held) :
       Goto(w, [op[w] EXCEPT !.pc = "lock", !.queue = queue])
  /\ UNCHANGED <<rows, used>>

\* It takes the next row once no other transaction holds it, if it is still about it.
LockRow(w) ==
  /\ op[w].pc = "lock" /\ op[w].queue # <<>>
  /\ LET r == Head(op[w].queue) IN
       /\ ~HeldByOther(w, r)
       /\ Goto(w, [op[w] EXCEPT !.queue = Tail(@),
                                !.held = IF r \in Statements(op[w])[op[w].step]
                                         THEN @ \cup {r} ELSE @])
  /\ UNCHANGED <<rows, used>>

\* Rows that refer to a row deleted by o and are not deleted by o themselves.
Dangling(o) == Of(Gone(o), Bound) \ Gone(o)

\* Stops cannot be inserted for a play tour that was not there to be updated.
MissingParent(o) ==
  o.do = "replace" /\ o.step = 1 /\ o.of \notin o.held /\ DOMAIN o.put \cap Stops # {}

StatementDone(w) == op[w].pc = "lock" /\ op[w].queue = <<>> /\ Dangling(op[w]) = {}

\* Mutant of LastStep: one statement too many.
LastStep_OffByOne(o) == o.step > Len(Statements(o))

LastStep(o) == o.step = Len(Statements(o))

\* Mutant of NextStatement: the play tour is saved outside the transaction.
NextStatement_SavedOutside(w) ==
  /\ StatementDone(w) /\ ~LastStep(op[w]) /\ ~MissingParent(op[w])
  /\ Goto(w, [op[w] EXCEPT !.pc = "scan", !.step = @ + 1, !.held = @ \ Kept(op[w])])
  /\ UNCHANGED <<rows, used>>

NextStatement(w) ==
  /\ StatementDone(w) /\ ~LastStep(op[w]) /\ ~MissingParent(op[w])
  /\ Goto(w, [op[w] EXCEPT !.pc = "scan", !.step = @ + 1])
  /\ UNCHANGED <<rows, used>>

Commit(w) ==
  /\ StatementDone(w) /\ LastStep(op[w])
  /\ Store(w, Over(op[w].put, Except(rows, Gone(op[w]))), DOMAIN op[w].put, Idle)
  /\ UNCHANGED used

Rollback(w) == Goto(w, Idle) /\ UNCHANGED <<rows, used>>

\* Mutant of ConstraintFails: the handler returns the error and forgets the transaction.
ConstraintFails_NoRollback(w) ==
  /\ op[w].pc = "lock" /\ op[w].queue = <<>>
  /\ MissingParent(op[w]) \/ \E r \in Dangling(op[w]) : ~HeldByOther(w, r)
  /\ UNCHANGED contentVars

\* A foreign key is violated: the transaction is rolled back.
ConstraintFails(w) ==
  /\ op[w].pc = "lock" /\ op[w].queue = <<>>
  /\ MissingParent(op[w]) \/ \E r \in Dangling(op[w]) : ~HeldByOther(w, r)
  /\ Rollback(w)

\* The rows w needs next, held by others.
WaitsFor(w) ==
  LET wanted == IF op[w].pc # "lock" THEN {}
                ELSE IF op[w].queue # <<>> THEN {Head(op[w].queue)}
                ELSE Dangling(op[w])
  IN {v \in Workers \ {w} : InTxn(v) /\ wanted \cap op[v].held # {}}

\* The database ends one of the transactions that wait for each other.
DeadlockDetected(w) ==
  /\ \E ring \in SUBSET Workers :
       /\ w \in ring
       /\ \A v \in ring : WaitsFor(v) \cap ring # {} /\ \E u \in ring : v \in WaitsFor(u)
  /\ Rollback(w)

-----------------------------------------------------------------------------
\* A statement fails, the connection is lost, or the process dies.
Abandon(w) == op[w].pc # "idle" /\ Rollback(w)

ContentInit ==
  /\ rows = [t \in Tours |-> [of |-> None, to |-> None]]
  /\ op = [w \in Workers |-> Idle]
  /\ used = [r \in {} |-> 0]

Transactions(w) ==
  \/ \E ref \in Refs : DeleteTour(w, ref)
  \/ \E s \in Scenes : DeleteScene(w, s)
  \/ \E p \in Plays : DeletePlayTour(w, p) \/ \E ref \in Refs : UpdatePlayTour(w, p, ref)

\* Lists, UpdateSceneView, whose columns are not kept here, and all that is refused.
ChangeNothing(w) == op[w].pc = "idle" /\ UNCHANGED contentVars

OverlayRequest(w) ==
  \/ \E s \in Scenes : CreateOverlay(w, s)
  \/ \E o \in Overlays : UpdateOverlay(w, o) \/ DeleteOverlay(w, o)

Request(w) ==
  \/ Transactions(w)
  \/ ChangeNothing(w)
  \/ \E ref \in Refs : CreateScene(w, ref) \/ CreatePlayTour(w, ref)
  \/ \E s \in Scenes : UpdateScene(w, s) \/ UpdateSceneImages(w, s) \/ CreateHotspot(w, s)
  \/ \E h \in Hotspots : UpdateHotspot(w, h) \/ DeleteHotspot(w, h)
  \/ \E s \in Scenes, h \in Hotspots :
       UpdateHotspotByTourAndScene(w, s, h) \/ DeleteHotspotByTourAndScene(w, s, h)
  \/ OverlayRequest(w)

Statement(w) == WriteRows(w) \/ Scan(w) \/ LockRow(w) \/ NextStatement(w) \/ Commit(w)

Ends(w) == ConstraintFails(w) \/ DeadlockDetected(w)

ContentNext == \E w \in Workers : Request(w) \/ Statement(w) \/ Ends(w) \/ Abandon(w)

ContentSpec == ContentInit /\ [][ContentNext]_contentVars

\* A goroutine that can run is scheduled, a row lock that keeps becoming free is granted, and
\* the database looks for deadlocks and ends what violates a foreign key.
ContentFairness == \A w \in Workers : SF_contentVars(Statement(w) \/ Ends(w))

-----------------------------------------------------------------------------
(* Properties *)

\* The tables hold well-formed rows and every worker the locals of its place.
ContentTypeOK ==
  /\ DOMAIN rows \subseteq Tours \cup Items
  /\ \A r \in DOMAIN rows : rows[r] \in Row
  /\ \A w \in Workers :
       \/ op[w] = Idle
       \/ op[w].pc = "write" /\ op[w].puts # <<>>
       \/ /\ InTxn(w) /\ op[w].do \in {"tour", "scene", "play", "replace"}
          /\ op[w].step \in 1..Len(Statements(op[w]))
          /\ op[w].held \cup ToSet(op[w].queue) \cup op[w].late \subseteq Tours \cup Items
  /\ DOMAIN used \subseteq Items

\* Hotspots and overlays have a scene and stops a play tour at every moment, however requests
\* and deletions overlap (models/tour.go: the associations AutoMigrate makes foreign keys).
BoundRowsHaveParents == \A r \in Bound : Exists(r) => Exists(rows[r].of)

\* What the deletion of o.of must not leave behind.
Leftover(o) ==
  CASE o.do = "tour"  -> Of({o.of}, Scenes)
    [] o.do = "scene" -> AimedAt(o.of, Hotspots) \cup AimedAt(o.of, Stops)
    [] OTHER -> {}

\* A deletion that commits leaves no scene of the tour, no hotspot and no stop that leads to
\* the scene, except what other requests wrote while it ran (repo.go:186-223, 390-433).
DeletionComplete ==
  [][\A w \in Workers : \A o \in {op[w]} :
       InTxn(w) /\ ~InTxn(w)' /\ Exists(o.of) /\ ~Exists(o.of)'
         => Leftover(o)' \subseteq o.late]_contentVars

\* The stops of a play tour are those of one update, or of one update and of its creation,
\* whose stops are inserted in a statement of their own: two updates never mix
\* (repo.go:573-602).
StopsOfOneUpdate ==
  \A p \in Plays : \A q1, q2 \in Of({p}, Stops) :
    used[q1] = used[q2] \/ used[p] \in {used[q1], used[q2]}

\* Transactions that wait for each other's rows, or fail, all come to an end.
EveryTransactionEnds == \A w \in Workers : InTxn(w) ~> ~InTxn(w)

\* repo.go:210, "Then, delete all scenes belonging to this tour": no scene names a tour that
\* is not there.
ScenesHaveTours ==
  \A s \in Scenes : Exists(s) /\ rows[s].of # None => Named(rows[s].of) # {}
=============================================================================
