------------------------- MODULE TourContentProofs -------------------------
(***************************************************************************)
(* What overlapping requests and deletions can do to the rows that hang on *)
(* tours, for any number of workers and any finite tables.                 *)
(***************************************************************************)
EXTENDS TourContent, SequenceTheorems, FiniteSetTheorems, TLAPS

Things == Tours \cup Items

-----------------------------------------------------------------------------
(* The tables have no id in common *)

\* Two different tables of the list have no id in common.
LEMMA Disjoint ==
  /\ Stops \cap Plays = {} /\ Stops \cap Marks = {} /\ Stops \cap Scenes = {}
  /\ Plays \cap Marks = {} /\ Plays \cap Scenes = {} /\ Marks \cap Scenes = {}
  /\ Marks \cap Tours = {} /\ Stops \cap Tours = {}
  /\ Marks \cap Plays = {} /\ None \notin Items /\ None \notin Tours
  /\ Scenes \cap Tours = {} /\ Plays \cap Tours = {}
<1> DEFINE slugs == {<<t>> : t \in BySlug}
           tables == <<Tours, Scenes, Hotspots, Overlays, Plays, Stops, {None}, slugs>>
<1>1. \A i, j \in 1..8 : i # j => tables[i] \cap tables[j] = {}
  BY TablesDisjoint
<1>2. /\ tables[1] = Tours /\ tables[2] = Scenes /\ tables[3] = Hotspots
      /\ tables[4] = Overlays /\ tables[5] = Plays /\ tables[6] = Stops
      /\ tables[7] = {None}
  OBVIOUS
<1> HIDE DEF tables, slugs
<1>3. /\ tables[1] \cap tables[2] = {} /\ tables[1] \cap tables[3] = {}
      /\ tables[1] \cap tables[4] = {} /\ tables[1] \cap tables[5] = {}
      /\ tables[1] \cap tables[6] = {} /\ tables[1] \cap tables[7] = {}
      /\ tables[2] \cap tables[3] = {} /\ tables[2] \cap tables[4] = {}
      /\ tables[2] \cap tables[5] = {} /\ tables[2] \cap tables[6] = {}
      /\ tables[2] \cap tables[7] = {} /\ tables[3] \cap tables[5] = {}
      /\ tables[3] \cap tables[6] = {} /\ tables[3] \cap tables[7] = {}
      /\ tables[4] \cap tables[5] = {} /\ tables[4] \cap tables[6] = {}
      /\ tables[4] \cap tables[7] = {} /\ tables[5] \cap tables[6] = {}
      /\ tables[5] \cap tables[7] = {} /\ tables[6] \cap tables[7] = {}
  BY <1>1
<1>4. QED
  BY <1>2, <1>3 DEF Marks, Items

\* The slugs of tours are no ids.
LEMMA SlugsAreNoIds == {<<t>> : t \in BySlug} \cap Things = {} /\ Refs \cap Items = {}
<1> DEFINE slugs == {<<t>> : t \in BySlug}
           tables == <<Tours, Scenes, Hotspots, Overlays, Plays, Stops, {None}, slugs>>
<1>1. \A i, j \in 1..8 : i # j => tables[i] \cap tables[j] = {}
  BY TablesDisjoint
<1>2. /\ tables[1] = Tours /\ tables[2] = Scenes /\ tables[3] = Hotspots
      /\ tables[4] = Overlays /\ tables[5] = Plays /\ tables[6] = Stops
      /\ tables[8] = slugs
  OBVIOUS
<1> HIDE DEF tables
<1>3. /\ tables[8] \cap tables[1] = {} /\ tables[8] \cap tables[2] = {}
      /\ tables[8] \cap tables[3] = {} /\ tables[8] \cap tables[4] = {}
      /\ tables[8] \cap tables[5] = {} /\ tables[8] \cap tables[6] = {}
      /\ tables[1] \cap tables[2] = {} /\ tables[1] \cap tables[3] = {}
      /\ tables[1] \cap tables[4] = {} /\ tables[1] \cap tables[5] = {}
      /\ tables[1] \cap tables[6] = {}
  BY <1>1
<1>4. QED
  BY <1>2, <1>3 DEF Things, Items, Marks, Refs

-----------------------------------------------------------------------------
(* The invariant.  What it says of locals is said for any table t and any history u, so *)
(* that it can be said of the tables a step leaves. *)

\* Rows that a request is to write.
Puts == UNION {[ids -> Row] : ids \in SUBSET Items}

WriteOp == [pc : {"write"}, puts : Seq(Puts)]

TxnOp == [pc : {"scan", "lock"}, do : {"tour", "scene", "play", "replace"},
          of : Refs \cup Scenes \cup Plays, put : Puts, step : 1..5, queue : Seq(Things),
          held : SUBSET Things, late : SUBSET Things]

\* How many statements a transaction has.
StepsOf(do) == IF do = "tour" THEN 4 ELSE IF do = "scene" THEN 5 ELSE 2

\* A row says where it belongs if it must.
BelongsOK(r, row) ==
  /\ r \in Marks => row.of \in Scenes
  /\ r \in Stops => row.of \in Plays

PutOK(put, u) ==
  /\ put \in Puts
  /\ \A r \in DOMAIN put : /\ BelongsOK(r, put[r])
                           /\ r \in Stops => r \in DOMAIN u /\ put[r].of \in DOMAIN u

\* Stops inserted outside a transaction came with the request that created their play tour.
WriteOK(o, u) ==
  /\ o \in WriteOp /\ o.puts # <<>>
  /\ \A i \in 1..Len(o.puts) :
       /\ PutOK(o.puts[i], u)
       /\ \A q \in DOMAIN o.puts[i] \cap Stops : u[q] = u[o.puts[i][q].of]

NewStopsOf(o) == DOMAIN o.put \cap Stops

\* A transaction puts rows only to replace the stops of a play tour: that play tour, and
\* stops of it that came with this request.
ReplaceOK(o, u) ==
  /\ o.of \in Plays /\ o.of \in DOMAIN o.put /\ DOMAIN o.put \subseteq {o.of} \cup Stops
  /\ \A q \in NewStopsOf(o) : o.put[q].of = o.of
  /\ \A q1, q2 \in NewStopsOf(o) : u[q1] = u[q2]
  /\ o.step = 2 /\ NewStopsOf(o) # {} => o.of \in o.held

TxnOK(o, u) ==
  /\ o \in TxnOp /\ o.step <= StepsOf(o.do)
  /\ PutOK(o.put, u)
  /\ o.do # "replace" => DOMAIN o.put = {}
  /\ o.do = "replace" => ReplaceOK(o, u)

RowsOK ==
  /\ DOMAIN rows \subseteq Things
  /\ \A r \in DOMAIN rows : /\ rows[r] \in Row /\ BelongsOK(r, rows[r])
                            /\ r \in Stops => r \in DOMAIN used /\ rows[r].of \in DOMAIN used
  /\ DOMAIN used \subseteq Items

OpsOK ==
  /\ DOMAIN op = Workers /\ op = [w \in Workers |-> op[w]]
  /\ \A w \in Workers : op[w] = Idle \/ WriteOK(op[w], used) \/ TxnOK(op[w], used)

\* No two transactions hold the same row.
HeldApart ==
  \A v, w \in Workers : InTxn(v) /\ InTxn(w) /\ v # w => op[v].held \cap op[w].held = {}

\* Statement k of o is about row r because of what the row says, whatever else there is.
About(o, k, r, row) ==
  \/ o.do = "tour" /\ k = 3 /\ r \in Scenes /\ row.of = o.of
  \/ o.do = "scene" /\ k = 2 /\ r \in Hotspots /\ row.to = o.of
  \/ o.do = "scene" /\ k = 4 /\ r \in Stops /\ row.to = o.of
  \/ o.do = "replace" /\ k = 2 /\ r \in Stops /\ row.of = o.of

Swept(o, k, t) == {r \in DOMAIN t : About(o, k, r, t[r])}

\* Once a statement of o was begun, every row it is about is held, still in the queue, or
\* was written after.
SweptOK(o, t) ==
  \A k \in 1..5 :
    /\ k < o.step => Swept(o, k, t) \subseteq o.held \cup o.late
    /\ k = o.step /\ o.pc = "lock" =>
         Swept(o, k, t) \subseteq o.held \cup o.late \cup ToSet(o.queue)

\* The stops that the new ones replace: those not held came when the play tour was created.
ReplacesAll(o, t, u) ==
  o.do = "replace" /\ o.step = 2 /\ o.pc = "lock" /\ NewStopsOf(o) # {} =>
    \A q \in Swept(o, 2, t) : q \in o.held \cup ToSet(o.queue) \/ u[q] = u[o.of]

ContentInv ==
  /\ RowsOK /\ OpsOK /\ BoundRowsHaveParents /\ HeldApart /\ StopsOfOneUpdate
  /\ \A w \in Workers : InTxn(w) => SweptOK(op[w], rows) /\ ReplacesAll(op[w], rows, used)

\* The history only grows.
UsedGrows ==
  /\ DOMAIN used \subseteq DOMAIN used' /\ DOMAIN used' \subseteq Items
  /\ \A r \in DOMAIN used : used'[r] = used[r]

\* The locals of a worker in a transaction.
LEMMA TxnLocals ==
  ASSUME OpsOK, NEW w \in Workers
  PROVE  /\ InTxn(w) <=> TxnOK(op[w], used)
         /\ op[w].pc = "write" <=> WriteOK(op[w], used)
         /\ op[w].pc = "idle" <=> op[w] = Idle
<1>1. op[w] = Idle => op[w].pc = "idle"
  BY DEF Idle
<1>2. WriteOK(op[w], used) => op[w].pc = "write"
  BY DEF WriteOK, WriteOp
<1>3. TxnOK(op[w], used) => op[w].pc \in {"scan", "lock"}
  BY DEF TxnOK, TxnOp
<1>4. op[w] = Idle \/ WriteOK(op[w], used) \/ TxnOK(op[w], used)
  BY DEF OpsOK
<1>5. QED
  BY <1>1, <1>2, <1>3, <1>4 DEF InTxn

\* Locals are as good after the history has grown.
LEMMA LocalsGrow ==
  ASSUME UsedGrows, NEW o
  PROVE  /\ WriteOK(o, used) => WriteOK(o, used')
         /\ TxnOK(o, used) => TxnOK(o, used')
<1>1. ASSUME NEW put, PutOK(put, used) PROVE PutOK(put, used')
  BY <1>1 DEF UsedGrows, PutOK
<1>2. ASSUME WriteOK(o, used) PROVE WriteOK(o, used')
  <2>1. ASSUME NEW i \in 1..Len(o.puts)
        PROVE  /\ PutOK(o.puts[i], used')
               /\ \A q \in DOMAIN o.puts[i] \cap Stops : used'[q] = used'[o.puts[i][q].of]
    <3>1. PutOK(o.puts[i], used)
      BY <1>2 DEF WriteOK
    <3>2. \A q \in DOMAIN o.puts[i] \cap Stops :
            q \in DOMAIN used /\ o.puts[i][q].of \in DOMAIN used
              /\ used[q] = used[o.puts[i][q].of]
      BY <1>2, <3>1 DEF WriteOK, PutOK
    <3>3. QED
      BY <1>1, <3>1, <3>2 DEF UsedGrows
  <2>2. QED
    BY <1>2, <2>1 DEF WriteOK
<1>3. ASSUME TxnOK(o, used) PROVE TxnOK(o, used')
  <2>1. PutOK(o.put, used) /\ PutOK(o.put, used')
    BY <1>1, <1>3 DEF TxnOK
  <2>2. NewStopsOf(o) \subseteq DOMAIN used
    BY <2>1 DEF PutOK, NewStopsOf
  <2>3. o.do = "replace" => ReplaceOK(o, used')
    BY <1>3, <2>2 DEF TxnOK, ReplaceOK, UsedGrows
  <2>4. QED
    BY <1>3, <2>1, <2>3 DEF TxnOK
<1>4. QED
  BY <1>2, <1>3

\* Tables that did not change are as good too, and so is what transactions hold of them.
LEMMA RowsGrow ==
  ASSUME ContentInv, UNCHANGED rows, UsedGrows
  PROVE  /\ RowsOK' /\ BoundRowsHaveParents' /\ StopsOfOneUpdate'
         /\ \A o : TxnOK(o, used) /\ ReplacesAll(o, rows, used) => ReplacesAll(o, rows, used')
<1>1. RowsOK'
  BY DEF ContentInv, RowsOK, UsedGrows
<1>2. BoundRowsHaveParents'
  BY DEF ContentInv, BoundRowsHaveParents, Exists
<1>3. ASSUME NEW p \in Plays, NEW q \in Of({p}, Stops)
      PROVE  q \in DOMAIN used /\ p \in DOMAIN used
  BY DEF ContentInv, RowsOK, Of, Exists
<1>4. StopsOfOneUpdate'
  BY <1>3 DEF ContentInv, StopsOfOneUpdate, UsedGrows, Of, Exists
<1>5. ASSUME NEW o, TxnOK(o, used), ReplacesAll(o, rows, used)
      PROVE  ReplacesAll(o, rows, used')
  <2> SUFFICES ASSUME o.do = "replace", o.step = 2, o.pc = "lock", NewStopsOf(o) # {},
                      NEW q \in Swept(o, 2, rows)
               PROVE  q \in o.held \cup ToSet(o.queue) \/ used'[q] = used'[o.of]
    BY DEF ReplacesAll
  <2>1. q \in Stops /\ q \in DOMAIN rows /\ q \in DOMAIN used
    BY DEF Swept, About, ContentInv, RowsOK
  <2>2. o.of \in DOMAIN used
    BY <1>5 DEF TxnOK, PutOK, ReplaceOK, NewStopsOf
  <2>3. QED
    BY <1>5, <2>1, <2>2 DEF ReplacesAll, UsedGrows
<1>6. QED
  BY <1>1, <1>2, <1>4, <1>5

\* A step that moves one worker and no table keeps the invariant if the worker's new place
\* is a good one.
LEMMA MoveInv ==
  ASSUME ContentInv, NEW w \in Workers, NEW o, Goto(w, o), UNCHANGED rows, UsedGrows,
         \/ o = Idle
         \/ WriteOK(o, used')
         \/ /\ TxnOK(o, used') /\ SweptOK(o, rows) /\ ReplacesAll(o, rows, used')
            /\ \A v \in Workers \ {w} : InTxn(v) => op[v].held \cap o.held = {}
  PROVE  ContentInv'
<1>1. /\ DOMAIN op' = Workers /\ op' = [v \in Workers |-> op'[v]] /\ op'[w] = o
      /\ \A v \in Workers \ {w} : op'[v] = op[v]
  BY DEF Goto, ContentInv, OpsOK
<1>2. RowsOK' /\ BoundRowsHaveParents' /\ StopsOfOneUpdate'
  BY RowsGrow
<1>3. \A v \in Workers \ {w} : InTxn(v)' <=> InTxn(v)
  BY <1>1 DEF InTxn
<1>4. InTxn(w)' => /\ TxnOK(o, used') /\ SweptOK(o, rows) /\ ReplacesAll(o, rows, used')
                   /\ \A v \in Workers \ {w} : InTxn(v) => op[v].held \cap o.held = {}
  BY <1>1 DEF InTxn, Idle, WriteOK, WriteOp
<1>5. OpsOK'
  <2>1. \A v \in Workers : op'[v] = Idle \/ WriteOK(op'[v], used') \/ TxnOK(op'[v], used')
    BY <1>1, LocalsGrow DEF ContentInv, OpsOK
  <2>2. QED
    BY <1>1, <2>1 DEF OpsOK
<1>6. HeldApart'
  BY <1>1, <1>3, <1>4 DEF ContentInv, HeldApart
<1>7. ASSUME NEW v \in Workers, InTxn(v)'
      PROVE  SweptOK(op'[v], rows') /\ ReplacesAll(op'[v], rows', used')
  <2>1. CASE v = w
    BY <1>1, <1>4, <1>7, <2>1
  <2>2. CASE v # w
    <3>1. op'[v] = op[v] /\ InTxn(v)
      BY <1>1, <1>3, <1>7, <2>2
    <3>2. TxnOK(op[v], used) /\ SweptOK(op[v], rows) /\ ReplacesAll(op[v], rows, used)
      BY <3>1, TxnLocals DEF ContentInv
    <3>3. QED
      BY <3>1, <3>2, RowsGrow
  <2>3. QED
    BY <2>1, <2>2
<1>8. QED
  BY <1>2, <1>5, <1>6, <1>7 DEF ContentInv

-----------------------------------------------------------------------------
(* Statements and their queues *)

\* A queue made of a set has exactly its elements (SequencesExt: SetToSeqs).
LEMMA QueueOfSet ==
  ASSUME NEW S, S \subseteq Things, IsFiniteSet(S), NEW queue \in SetToSeqs(S)
  PROVE  queue \in Seq(Things) /\ ToSet(queue) = S
<1> DEFINE D == 1..Cardinality(S)
<1>1. Cardinality(S) \in Nat
  BY FS_CardinalityType
<1>2. queue \in [D -> S] /\ \A i, j \in D : i # j => queue[i] # queue[j]
  BY DEF SetToSeqs
<1>3. queue \in Injection(D, S)
  BY <1>2 DEF Injection, IsInjective
<1>4. IsFiniteSet(D) /\ Cardinality(D) = Cardinality(S)
  BY <1>1, FS_Interval
<1>5. queue \in Surjection(D, S)
  BY <1>3, <1>4, FS_Injection
<1>6. ToSet(queue) = S
  BY <1>2, <1>5 DEF ToSet, Surjection
<1>7. QED
  BY <1>1, <1>2, <1>6

\* What is left of a queue after its head.
LEMMA QueueTail ==
  ASSUME NEW queue \in Seq(Things), queue # <<>>
  PROVE  /\ Head(queue) \in Things /\ Tail(queue) \in Seq(Things)
         /\ ToSet(queue) = {Head(queue)} \cup ToSet(Tail(queue))
<1>1. Head(queue) \in Things /\ Tail(queue) \in Seq(Things)
  BY HeadTailProperties
<1>2. /\ Len(Tail(queue)) = Len(queue) - 1 /\ Head(queue) = queue[1]
      /\ \A i \in 1..Len(Tail(queue)) : Tail(queue)[i] = queue[i + 1]
  BY HeadTailProperties
<1>3. DOMAIN queue = 1..Len(queue) /\ DOMAIN Tail(queue) = 1..Len(Tail(queue))
      /\ Len(queue) \in Nat /\ Len(queue) > 0
  BY <1>1, EmptySeq, LenProperties
<1>4. ToSet(queue) \subseteq {Head(queue)} \cup ToSet(Tail(queue))
  <2> SUFFICES ASSUME NEW i \in 1..Len(queue), i # 1
               PROVE  queue[i] \in ToSet(Tail(queue))
    BY <1>2, <1>3 DEF ToSet
  <2>1. i - 1 \in 1..Len(Tail(queue)) /\ queue[i] = Tail(queue)[i - 1]
    BY <1>2, <1>3
  <2>2. QED
    BY <1>3, <2>1 DEF ToSet
<1>5. {Head(queue)} \cup ToSet(Tail(queue)) \subseteq ToSet(queue)
  <2>1. \A i \in 1..Len(Tail(queue)) : i + 1 \in 1..Len(queue) /\ Tail(queue)[i] = queue[i + 1]
    BY <1>2, <1>3
  <2>2. QED
    BY <1>2, <1>3, <2>1 DEF ToSet
<1>6. QED
  BY <1>1, <1>4, <1>5

\* The statements of a transaction: how many there are, that each is about rows that are
\* there, finitely many, and which rows are among them because of what they say.
LEMMA StatementsOf ==
  ASSUME RowsOK, NEW o, o.do \in {"tour", "scene", "play", "replace"}
  PROVE  /\ Len(Statements(o)) = StepsOf(o.do)
         /\ \A k \in 1..StepsOf(o.do) :
              /\ Statements(o)[k] \subseteq DOMAIN rows
              /\ IsFiniteSet(Statements(o)[k])
              /\ Swept(o, k, rows) \subseteq Statements(o)[k]
<1> DEFINE self == {r \in {o.of} : Exists(r)}
           scenes == Of({o.of}, Scenes)
<1>1. IsFiniteSet(self)
  <2>1. IsFiniteSet({o.of})
    BY FS_Singleton
  <2>2. QED
    BY <2>1, FS_Subset
<1>2. \A parents : /\ IsFiniteSet(Of(parents, Hotspots)) /\ IsFiniteSet(Of(parents, Overlays))
                   /\ IsFiniteSet(Of(parents, Scenes)) /\ IsFiniteSet(Of(parents, Stops))
  <2> TAKE parents
  <2>1. \A S : S \subseteq Scenes \cup Hotspots \cup Overlays \cup Plays \cup Stops
          => IsFiniteSet(S)
    BY TablesFinite, FS_Subset
  <2>2. QED
    BY <2>1 DEF Of
<1>3. \A s : IsFiniteSet(AimedAt(s, Hotspots)) /\ IsFiniteSet(AimedAt(s, Stops))
  <2> TAKE s
  <2>1. \A S : S \subseteq Scenes \cup Hotspots \cup Overlays \cup Plays \cup Stops
          => IsFiniteSet(S)
    BY TablesFinite, FS_Subset
  <2>2. QED
    BY <2>1 DEF AimedAt
<1>4. /\ \A parents, table : Of(parents, table) \subseteq DOMAIN rows
      /\ \A s, table : AimedAt(s, table) \subseteq DOMAIN rows
      /\ self \subseteq DOMAIN rows
  BY DEF Of, AimedAt, Exists
<1>5. CASE o.do = "tour"
  <2>1. Statements(o) = <<Of(scenes, Hotspots), Of(scenes, Overlays), scenes, self>>
    BY <1>5 DEF Statements
  <2>2. /\ Len(Statements(o)) = 4 /\ StepsOf(o.do) = 4
        /\ Statements(o)[1] = Of(scenes, Hotspots) /\ Statements(o)[2] = Of(scenes, Overlays)
        /\ Statements(o)[3] = scenes /\ Statements(o)[4] = self
    BY <1>5, <2>1 DEF StepsOf
  <2>3. Swept(o, 3, rows) \subseteq scenes /\ \A k \in {1, 2, 4} : Swept(o, k, rows) = {}
    BY <1>5 DEF Swept, About, Of, Exists
  <2> HIDE DEF self, scenes
  <2>4. 1..4 = {1, 2, 3, 4}
    OBVIOUS
  <2>5. IsFiniteSet(scenes)
    BY <1>2 DEF scenes
  <2>6. scenes \subseteq DOMAIN rows
    BY <1>4 DEF scenes
  <2>7. \A k \in {1, 2, 3, 4} : Statements(o)[k] \subseteq DOMAIN rows
    <3>1. /\ Statements(o)[1] \subseteq DOMAIN rows /\ Statements(o)[2] \subseteq DOMAIN rows
          /\ Statements(o)[3] \subseteq DOMAIN rows /\ Statements(o)[4] \subseteq DOMAIN rows
      BY <1>4, <2>2, <2>6
    <3>2. QED
      BY <3>1
  <2>8. \A k \in {1, 2, 3, 4} : IsFiniteSet(Statements(o)[k])
    <3>1. IsFiniteSet(Statements(o)[1]) /\ IsFiniteSet(Statements(o)[2])
      BY <1>2, <2>2
    <3>2. IsFiniteSet(Statements(o)[3]) /\ IsFiniteSet(Statements(o)[4])
      BY <1>1, <2>2, <2>5
    <3>3. QED
      BY <3>1, <3>2
  <2>9. \A k \in {1, 2, 3, 4} : Swept(o, k, rows) \subseteq Statements(o)[k]
    BY <2>2, <2>3
  <2>10. QED
    BY <2>2, <2>4, <2>7, <2>8, <2>9
<1>6. CASE o.do = "scene"
  <2>1. Statements(o) = <<Of({o.of}, Hotspots), AimedAt(o.of, Hotspots),
                          Of({o.of}, Overlays), AimedAt(o.of, Stops), self>>
    BY <1>6 DEF Statements
  <2>2. /\ Len(Statements(o)) = 5 /\ StepsOf(o.do) = 5
        /\ Statements(o)[1] = Of({o.of}, Hotspots) /\ Statements(o)[2] = AimedAt(o.of, Hotspots)
        /\ Statements(o)[3] = Of({o.of}, Overlays) /\ Statements(o)[4] = AimedAt(o.of, Stops)
        /\ Statements(o)[5] = self
    BY <1>6, <2>1 DEF StepsOf
  <2>3. /\ Swept(o, 2, rows) \subseteq AimedAt(o.of, Hotspots)
        /\ Swept(o, 4, rows) \subseteq AimedAt(o.of, Stops)
        /\ \A k \in {1, 3, 5} : Swept(o, k, rows) = {}
    BY <1>6 DEF Swept, About, AimedAt, Exists
  <2> HIDE DEF self, scenes
  <2>4. \A k \in 1..5 : k \in {1, 2, 3, 4, 5}
    OBVIOUS
  <2>5. QED
    BY <1>1, <1>2, <1>3, <1>4, <2>2, <2>3, <2>4
<1>7. CASE o.do = "play"
  <2>1. Statements(o) = <<Of({o.of}, Stops), self>>
    BY <1>7 DEF Statements
  <2>2. /\ Len(Statements(o)) = 2 /\ StepsOf(o.do) = 2
        /\ Statements(o)[1] = Of({o.of}, Stops) /\ Statements(o)[2] = self
    BY <1>7, <2>1 DEF StepsOf
  <2>3. \A k \in {1, 2} : Swept(o, k, rows) = {}
    BY <1>7 DEF Swept, About
  <2> HIDE DEF self, scenes
  <2>4. QED
    BY <1>1, <1>2, <1>4, <2>2, <2>3
<1>8. CASE o.do = "replace"
  <2>1. Statements(o) = <<self, Of({o.of}, Stops)>>
    BY <1>8 DEF Statements
  <2>2. /\ Len(Statements(o)) = 2 /\ StepsOf(o.do) = 2
        /\ Statements(o)[1] = self /\ Statements(o)[2] = Of({o.of}, Stops)
    BY <1>8, <2>1 DEF StepsOf
  <2>3. Swept(o, 1, rows) = {} /\ Swept(o, 2, rows) \subseteq Of({o.of}, Stops)
    BY <1>8 DEF Swept, About, Of, Exists
  <2> HIDE DEF self, scenes
  <2>4. QED
    BY <1>1, <1>2, <1>4, <2>2, <2>3
<1>9. QED
  BY <1>5, <1>6, <1>7, <1>8

-----------------------------------------------------------------------------
(* Requests *)

\* Ids that were never handed out extend the history, all with the same number.
LEMMA UseGrows ==
  ASSUME RowsOK, NEW ids, ids \subseteq Items, ids \cap DOMAIN used = {}, Use(ids)
  PROVE  /\ UsedGrows /\ DOMAIN used' = DOMAIN used \cup ids
         /\ \A q1, q2 \in ids \cap (Plays \cup Stops) : used'[q1] = used'[q2]
<1> DEFINE number == Cardinality(DOMAIN used \cap (Plays \cup Stops)) + 1
           add == [r \in ids |-> IF r \in Plays \cup Stops THEN number ELSE 0]
<1>1. used' = [r \in DOMAIN used \cup DOMAIN add |->
                 IF r \in DOMAIN add THEN add[r] ELSE used[r]]
  BY DEF Use, Over
<1>2. DOMAIN add = ids /\ \A q \in ids \cap (Plays \cup Stops) : add[q] = number
  OBVIOUS
<1> HIDE DEF add, number
<1>3. DOMAIN used' = DOMAIN used \cup ids
  BY <1>1, <1>2
<1>4. \A q \in ids : used'[q] = add[q]
  BY <1>1, <1>2
<1>5. \A q \in DOMAIN used : used'[q] = used[q]
  BY <1>1, <1>2
<1>6. UsedGrows
  BY <1>3, <1>5 DEF UsedGrows, RowsOK
<1>7. QED
  BY <1>2, <1>3, <1>4, <1>6

\* An unchanged history has grown by nothing.
LEMMA UnusedGrows == ContentInv /\ UNCHANGED used => UsedGrows
BY DEF ContentInv, RowsOK, UsedGrows

\* A request that goes on with single statements keeps the invariant if what it is to
\* write is in order.
LEMMA BeginInv ==
  ASSUME ContentInv, NEW w \in Workers, NEW puts \in Seq(Puts), puts # <<>>, UsedGrows,
         Begin(w, puts),
         \A i \in 1..Len(puts) :
           /\ PutOK(puts[i], used')
           /\ \A q \in DOMAIN puts[i] \cap Stops : used'[q] = used'[puts[i][q].of]
  PROVE  ContentInv'
<1> DEFINE o == [pc |-> "write", puts |-> puts]
<1>1. Goto(w, o) /\ UNCHANGED rows
  BY DEF Begin
<1>2. o \in WriteOp /\ o.puts = puts
  BY DEF WriteOp
<1> HIDE DEF o
<1>3. WriteOK(o, used')
  BY <1>2 DEF WriteOK
<1>4. QED
  BY <1>1, <1>3, MoveInv

\* One row, if it is in order and no stop.
LEMMA OnePut ==
  ASSUME NEW r \in Items, NEW of \in Refs \cup Scenes \cup Plays \cup {None},
         NEW to \in Scenes \cup {None}
  PROVE  /\ One(r, of, to) \in Puts /\ DOMAIN One(r, of, to) = {r}
         /\ One(r, of, to)[r].of = of
<1>1. One(r, of, to) \in [{r} -> Row]
  BY DEF One, Row
<1>2. {r} \in SUBSET Items
  OBVIOUS
<1>3. QED
  BY <1>1, <1>2 DEF One, Puts

\* A request that writes one row, no stop, keeps the invariant.
LEMMA BeginOne ==
  ASSUME ContentInv, NEW w \in Workers, NEW r \in Items \ Stops,
         NEW of \in Refs \cup Scenes \cup Plays \cup {None}, NEW to \in Scenes \cup {None},
         r \in Marks => of \in Scenes,
         Begin(w, <<One(r, of, to)>>), UsedGrows
  PROVE  ContentInv'
<1> DEFINE put == One(r, of, to)
<1>0. r \in Items /\ r \notin Stops
  OBVIOUS
<1>1. put \in Puts /\ DOMAIN put = {r} /\ put[r].of = of
  BY <1>0, OnePut
<1>2. PutOK(put, used') /\ DOMAIN put \cap Stops = {}
  BY <1>1 DEF PutOK, BelongsOK
<1>3. Begin(w, <<put>>)
  OBVIOUS
<1> HIDE DEF put
<1>4. <<put>> \in Seq(Puts) /\ <<put>> # <<>> /\ Len(<<put>>) = 1 /\ <<put>>[1] = put
  BY <1>1
<1>5. \A i \in 1..Len(<<put>>) : <<put>>[i] = put
  BY <1>4
<1>6. \A i \in 1..Len(<<put>>) :
        /\ PutOK(<<put>>[i], used')
        /\ \A q \in DOMAIN <<put>>[i] \cap Stops : used'[q] = used'[<<put>>[i][q].of]
  BY <1>2, <1>5
<1>7. QED
  BY <1>3, <1>4, <1>6, BeginInv

\* The handlers that create and save scenes.
LEMMA SceneRequests ==
  ASSUME ContentInv, NEW w \in Workers,
         \/ \E ref \in Refs : CreateScene(w, ref)
         \/ \E s \in Scenes : UpdateScene(w, s) \/ UpdateSceneImages(w, s)
  PROVE  ContentInv'
<1>1. Scenes \subseteq Items \ Stops /\ Scenes \cap Marks = {}
  BY Disjoint DEF Items
<1>3. ASSUME NEW ref \in Refs, CreateScene(w, ref) PROVE ContentInv'
  <2>1. PICK s \in Fresh(Scenes) : Begin(w, <<One(s, ref, None)>>) /\ Use({s})
    BY <1>3 DEF CreateScene
  <2>2. s \in Scenes /\ {s} \cap DOMAIN used = {} /\ RowsOK
    BY DEF Fresh, ContentInv
  <2>3. UsedGrows
    BY <1>1, <2>1, <2>2, UseGrows
  <2>4. QED
    BY <1>1, <2>1, <2>2, <2>3, BeginOne
<1>4. ASSUME NEW s \in Scenes, Belongs(s)
      PROVE  {rows[s].of, None} \cup Tours \subseteq Refs \cup Scenes \cup Plays \cup {None}
  <2>1. rows[s] \in Row
    BY <1>4 DEF Belongs, Exists, ContentInv, RowsOK
  <2>2. QED
    BY <2>1 DEF Row, Refs
<1>5. ASSUME NEW s \in Scenes, UpdateScene(w, s) PROVE ContentInv'
  <2>1. UsedGrows /\ Belongs(s)
    BY <1>5, UnusedGrows DEF UpdateScene
  <2>2. PICK of \in {rows[s].of, None} \cup Tours : Begin(w, <<One(s, of, None)>>)
    BY <1>5 DEF UpdateScene
  <2>3. QED
    BY <1>1, <1>4, <2>1, <2>2, BeginOne
<1>6. ASSUME NEW s \in Scenes, UpdateSceneImages(w, s) PROVE ContentInv'
  <2>1. UsedGrows /\ Belongs(s) /\ Begin(w, <<One(s, rows[s].of, None)>>)
    BY <1>6, UnusedGrows DEF UpdateSceneImages
  <2>2. QED
    BY <1>1, <1>4, <2>1, BeginOne
<1>7. QED
  BY <1>3, <1>5, <1>6

\* The handlers that create and save hotspots and overlays.
LEMMA MarkRequests ==
  ASSUME ContentInv, NEW w \in Workers,
         \/ \E s \in Scenes : CreateHotspot(w, s) \/ CreateOverlay(w, s)
         \/ \E h \in Hotspots : UpdateHotspot(w, h)
         \/ \E s \in Scenes, h \in Hotspots : UpdateHotspotByTourAndScene(w, s, h)
         \/ \E o \in Overlays : UpdateOverlay(w, o)
  PROVE  ContentInv'
<1>1. Marks \subseteq Items \ Stops
  BY Disjoint DEF Items
<1>3. ASSUME NEW s \in Scenes, NEW m \in Fresh(Marks), NEW to \in Scenes \cup {None},
             InsertMark(w, s, m, to)
      PROVE  ContentInv'
  <2>1. Begin(w, <<One(m, s, to)>>) /\ Use({m})
    BY <1>3 DEF InsertMark
  <2>2. m \in Marks /\ {m} \cap DOMAIN used = {} /\ RowsOK
    BY DEF Fresh, ContentInv
  <2>3. UsedGrows
    BY <1>1, <2>1, <2>2, UseGrows
  <2>4. QED
    BY <1>1, <2>1, <2>2, <2>3, BeginOne
<1>4. ASSUME NEW s \in Scenes, NEW m \in Marks, NEW to \in Scenes \cup {None},
             SaveMark(w, s, m, to)
      PROVE  ContentInv'
  <2>1. Begin(w, <<One(m, s, to)>>) /\ UsedGrows
    BY <1>4, UnusedGrows DEF SaveMark
  <2>2. QED
    BY <1>1, <2>1, BeginOne
<1>5. Targets \subseteq Scenes \cup {None} /\ Hotspots \subseteq Marks /\ Overlays \subseteq Marks
  BY DEF Targets, Marks
<1>6. ASSUME NEW s \in Scenes, CreateHotspot(w, s) \/ CreateOverlay(w, s) PROVE ContentInv'
  <2>1. Fresh(Hotspots) \subseteq Fresh(Marks) /\ Fresh(Overlays) \subseteq Fresh(Marks)
    BY <1>5 DEF Fresh
  <2>2. \E m \in Fresh(Marks), to \in Scenes \cup {None} : InsertMark(w, s, m, to)
    BY <1>5, <1>6, <2>1 DEF CreateHotspot, CreateOverlay
  <2>3. QED
    BY <1>3, <2>2
<1>7. ASSUME NEW h \in Hotspots, UpdateHotspot(w, h) PROVE ContentInv'
  BY <1>4, <1>5, <1>7 DEF UpdateHotspot
<1>8. ASSUME NEW o \in Overlays, UpdateOverlay(w, o) PROVE ContentInv'
  BY <1>4, <1>5, <1>8 DEF UpdateOverlay
<1>9. QED
  BY <1>6, <1>7, <1>8 DEF UpdateHotspotByTourAndScene

\* The stops of a request are new rows of the play tour.
LEMMA NewStopsFacts ==
  ASSUME NEW p \in Plays, NEW stops \in NewStops(p)
  PROVE  /\ DOMAIN stops \subseteq Stops /\ DOMAIN stops \cap DOMAIN used = {}
         /\ stops \in [DOMAIN stops -> Row] /\ stops \in Puts
         /\ \A q \in DOMAIN stops : stops[q].of = p
<1> DEFINE Scenery == {s \in Scenes : Exists(s)}
<1>1. PICK ids \in SUBSET Fresh(Stops) :
        \E to \in [ids -> Scenery] : stops = [q \in ids |-> [of |-> p, to |-> to[q]]]
  BY DEF NewStops
<1>2. PICK to \in [ids -> Scenery] : stops = [q \in ids |-> [of |-> p, to |-> to[q]]]
  BY <1>1
<1>3. DOMAIN stops = ids /\ \A q \in ids : stops[q] = [of |-> p, to |-> to[q]] /\ to[q] \in Scenes
  BY <1>2
<1>4. \A q \in ids : stops[q] \in Row /\ stops[q].of = p
  BY <1>3 DEF Row
<1>5. stops \in [DOMAIN stops -> Row]
  BY <1>2, <1>3, <1>4
<1>6. DOMAIN stops \subseteq Stops /\ DOMAIN stops \cap DOMAIN used = {}
  BY <1>3 DEF Fresh
<1>7. DOMAIN stops \in SUBSET Items
  BY <1>6 DEF Items
<1>8. QED
  BY <1>3, <1>4, <1>5, <1>6, <1>7 DEF Puts

\* A play tour is created with its stops, all of one request.
LEMMA CreatePlayTourInv ==
  ASSUME ContentInv, NEW w \in Workers, NEW ref \in Refs, CreatePlayTour(w, ref)
  PROVE  ContentInv'
<1>1. PICK p \in Fresh(Plays) : \E stops \in NewStops(p) :
        Begin(w, <<One(p, ref, None), stops>>) /\ Use({p} \cup DOMAIN stops)
  BY DEF CreatePlayTour
<1>2. PICK stops \in NewStops(p) :
        Begin(w, <<One(p, ref, None), stops>>) /\ Use({p} \cup DOMAIN stops)
  BY <1>1
<1>3. p \in Plays /\ p \notin DOMAIN used /\ p \in Items /\ p \notin Stops /\ p \notin Marks
  BY Disjoint DEF Fresh, Items
<1>4. /\ DOMAIN stops \subseteq Stops /\ DOMAIN stops \cap DOMAIN used = {}
      /\ stops \in [DOMAIN stops -> Row] /\ stops \in Puts
      /\ \A q \in DOMAIN stops : stops[q].of = p
  BY <1>3, NewStopsFacts
<1> DEFINE ids == {p} \cup DOMAIN stops
           put == One(p, ref, None)
           puts == <<put, stops>>
<1>5. ids \subseteq Items /\ ids \cap DOMAIN used = {} /\ RowsOK
  BY <1>3, <1>4 DEF Items, ContentInv
<1>6. /\ UsedGrows /\ ids \subseteq DOMAIN used'
      /\ \A q1, q2 \in ids \cap (Plays \cup Stops) : used'[q1] = used'[q2]
  <2>1. Use(ids)
    BY <1>2
  <2> HIDE DEF ids
  <2>2. QED
    BY <1>5, <2>1, UseGrows
<1>7. put \in Puts /\ DOMAIN put = {p}
  BY <1>3, OnePut
<1>8. PutOK(put, used')
  BY <1>3, <1>7 DEF PutOK, BelongsOK
<1>9. PutOK(stops, used')
  <2>1. Stops \cap Marks = {}
    BY Disjoint
  <2>2. QED
    BY <1>3, <1>4, <1>6, <2>1 DEF PutOK, BelongsOK
<1>10. \A q \in DOMAIN stops : used'[q] = used'[stops[q].of]
  BY <1>3, <1>4, <1>6
<1>11. DOMAIN put \cap Stops = {}
  BY <1>3, <1>7
<1>12. Begin(w, puts)
  BY <1>2
<1> HIDE DEF put, ids
<1>13. puts \in Seq(Puts) /\ puts # <<>> /\ Len(puts) = 2 /\ puts[1] = put /\ puts[2] = stops
  BY <1>4, <1>7
<1> HIDE DEF puts
<1>14. \A i \in 1..Len(puts) : puts[i] = put \/ puts[i] = stops
  <2>1. \A i \in 1..2 : i = 1 \/ i = 2
    OBVIOUS
  <2>2. QED
    BY <1>13, <2>1
<1>15. \A i \in 1..Len(puts) :
         /\ PutOK(puts[i], used')
         /\ \A q \in DOMAIN puts[i] \cap Stops : used'[q] = used'[puts[i][q].of]
  BY <1>8, <1>9, <1>10, <1>11, <1>14
<1>16. QED
  BY <1>6, <1>12, <1>13, <1>15, BeginInv

\* A transaction begins with nothing locked and nothing read.
LEMMA TransactionInv ==
  ASSUME ContentInv, NEW w \in Workers, NEW do \in {"tour", "scene", "play", "replace"},
         NEW of \in Refs \cup Scenes \cup Plays, NEW put, UsedGrows,
         Transaction(w, do, of, put), PutOK(put, used'),
         do # "replace" => DOMAIN put = {},
         do = "replace" =>
           /\ of \in Plays /\ of \in DOMAIN put /\ DOMAIN put \subseteq {of} \cup Stops
           /\ \A q \in DOMAIN put \cap Stops : put[q].of = of
           /\ \A q1, q2 \in DOMAIN put \cap Stops : used'[q1] = used'[q2]
  PROVE  ContentInv'
<1> DEFINE o == [pc |-> "scan", do |-> do, of |-> of, put |-> put, step |-> 1,
                 queue |-> <<>>, held |-> {}, late |-> {}]
<1>1. Goto(w, o) /\ UNCHANGED rows
  BY DEF Transaction
<1>2. /\ o \in TxnOp /\ o.do = do /\ o.of = of /\ o.put = put /\ o.step = 1
      /\ o.pc = "scan" /\ o.held = {}
  BY DEF TxnOp, PutOK
<1> HIDE DEF o
<1>3. o.step <= StepsOf(o.do)
  BY <1>2 DEF StepsOf
<1>4. do = "replace" => ReplaceOK(o, used')
  BY <1>2 DEF ReplaceOK, NewStopsOf
<1>5. TxnOK(o, used')
  BY <1>2, <1>3, <1>4 DEF TxnOK
<1>6. SweptOK(o, rows) /\ ReplacesAll(o, rows, used')
  BY <1>2 DEF SweptOK, ReplacesAll
<1>7. QED
  BY <1>1, <1>2, <1>5, <1>6, MoveInv

\* The handlers that delete tours, scenes and play tours.
LEMMA DeletionRequests ==
  ASSUME ContentInv, NEW w \in Workers,
         \/ \E ref \in Refs : DeleteTour(w, ref)
         \/ \E s \in Scenes : DeleteScene(w, s)
         \/ \E p \in Plays : DeletePlayTour(w, p)
  PROVE  ContentInv'
<1>1. DOMAIN NoRows = {} /\ NoRows \in [{} -> Row]
  BY DEF NoRows
<1>2. {} \in SUBSET Items
  OBVIOUS
<1>3. NoRows \in Puts
  BY <1>1, <1>2 DEF Puts
<1>4. PutOK(NoRows, used')
  BY <1>1, <1>3 DEF PutOK
<1>5. UNCHANGED used
  BY DEF DeleteTour, DeleteScene, DeletePlayTour
<1>6. \E do \in {"tour", "scene", "play"}, of \in Refs \cup Scenes \cup Plays :
        Transaction(w, do, of, NoRows)
  BY DEF DeleteTour, DeleteScene, DeletePlayTour
<1>7. QED
  BY <1>1, <1>4, <1>5, <1>6, UnusedGrows, TransactionInv

\* A play tour is saved with new stops.
LEMMA UpdatePlayTourInv ==
  ASSUME ContentInv, NEW w \in Workers, NEW p \in Plays, NEW ref \in Refs,
         UpdatePlayTour(w, p, ref)
  PROVE  ContentInv'
<1>1. PICK stops \in NewStops(p) :
        /\ Transaction(w, "replace", p, Over(stops, One(p, ref, None)))
        /\ Use(DOMAIN stops)
  BY DEF UpdatePlayTour
<1> DEFINE one == One(p, ref, None)
           put == Over(stops, one)
<1>2. p \in DOMAIN used /\ p \in Items /\ p \notin Stops /\ p \notin Marks /\ RowsOK
  BY Disjoint DEF UpdatePlayTour, Fresh, Items, ContentInv
<1>3. /\ DOMAIN stops \subseteq Stops /\ DOMAIN stops \cap DOMAIN used = {}
      /\ stops \in [DOMAIN stops -> Row]
      /\ \A q \in DOMAIN stops : stops[q].of = p
  BY NewStopsFacts
<1>4. /\ UsedGrows /\ DOMAIN stops \subseteq DOMAIN used'
      /\ \A q1, q2 \in DOMAIN stops \cap (Plays \cup Stops) : used'[q1] = used'[q2]
  <2> DEFINE ids == DOMAIN stops
  <2>1. ids \subseteq Items /\ ids \cap DOMAIN used = {} /\ Use(ids)
    BY <1>1, <1>3 DEF Items
  <2> HIDE DEF ids
  <2>2. /\ UsedGrows /\ DOMAIN used' = DOMAIN used \cup ids
        /\ \A q1, q2 \in ids \cap (Plays \cup Stops) : used'[q1] = used'[q2]
    BY <1>2, <2>1, UseGrows
  <2>3. QED
    BY <2>2 DEF ids
<1>5. one \in Puts /\ DOMAIN one = {p} /\ one[p] \in Row
  <2>1. one \in Puts /\ DOMAIN one = {p}
    BY <1>2, OnePut
  <2>2. one[p] \in Row
    BY <2>1 DEF Puts
  <2>3. QED
    BY <2>1, <2>2
<1> HIDE DEF one
<1>6. /\ DOMAIN put = DOMAIN stops \cup {p} /\ put[p] = one[p]
      /\ \A q \in DOMAIN stops : put[q] = stops[q]
      /\ put \in [DOMAIN put -> Row]
  BY <1>2, <1>3, <1>5 DEF Over
<1>7. Transaction(w, "replace", p, put)
  BY <1>1 DEF one
<1> HIDE DEF put
<1>8. put \in Puts
  <2>1. DOMAIN put \in SUBSET Items
    BY <1>2, <1>3, <1>6 DEF Items
  <2>2. QED
    BY <1>6, <2>1 DEF Puts
<1>9. DOMAIN put \cap Stops = DOMAIN stops
  BY <1>2, <1>3, <1>6
<1>10. PutOK(put, used')
  <2>1. Stops \cap Marks = {}
    BY Disjoint
  <2>2. \A q \in DOMAIN stops : put[q].of = p /\ q \in DOMAIN used'
    BY <1>3, <1>4, <1>6
  <2>3. p \in DOMAIN used'
    BY <1>2, <1>4 DEF UsedGrows
  <2>4. QED
    BY <1>2, <1>3, <1>6, <1>8, <2>1, <2>2, <2>3 DEF PutOK, BelongsOK
<1>11. /\ p \in DOMAIN put /\ DOMAIN put \subseteq {p} \cup Stops
       /\ \A q \in DOMAIN put \cap Stops : put[q].of = p
       /\ \A q1, q2 \in DOMAIN put \cap Stops : used'[q1] = used'[q2]
  BY <1>3, <1>4, <1>6, <1>9
<1>12. QED
  BY <1>4, <1>7, <1>10, <1>11, TransactionInv

-----------------------------------------------------------------------------
(* Steps inside a transaction *)

\* A step that locks rows or goes on to the next statement, and changes no table.
LEMMA TxnStepInv ==
  ASSUME ContentInv, NEW w \in Workers, InTxn(w), NEW o, o \in TxnOp, Goto(w, o),
         UNCHANGED <<rows, used>>,
         o.do = op[w].do, o.of = op[w].of, o.put = op[w].put, op[w].held \subseteq o.held,
         o.step <= StepsOf(o.do),
         o.do = "replace" /\ o.step = 2 /\ NewStopsOf(o) # {} => o.of \in o.held,
         SweptOK(o, rows), ReplacesAll(o, rows, used),
         \A v \in Workers \ {w} : InTxn(v) => op[v].held \cap o.held = {}
  PROVE  ContentInv'
<1>1. UsedGrows /\ used' = used
  BY UnusedGrows
<1>2. TxnOK(op[w], used)
  BY TxnLocals DEF ContentInv
<1>3. o.do = "replace" => ReplaceOK(o, used)
  BY <1>2 DEF TxnOK, ReplaceOK, NewStopsOf
<1>4. TxnOK(o, used)
  BY <1>2, <1>3 DEF TxnOK
<1>5. UNCHANGED rows
  OBVIOUS
<1>6. QED
  BY <1>1, <1>4, <1>5, MoveInv

\* What a transaction is about depends only on what it is to delete.
LEMMA SweptSame ==
  ASSUME NEW o1, NEW o2, o1.do = o2.do, o1.of = o2.of, NEW k, NEW t
  PROVE  Swept(o1, k, t) = Swept(o2, k, t)
BY DEF Swept, About

\* A statement begins with every row it is about in its queue or held.
LEMMA ScanInv ==
  ASSUME ContentInv, NEW w \in Workers, Scan(w)
  PROVE  ContentInv'
<1> DEFINE o == op[w]
           k == o.step
<1>1. PICK queue \in SetToSeqs(Statements(o)[k] \ o.held) :
        Goto(w, [o EXCEPT !.pc = "lock", !.queue = queue])
  BY DEF Scan
<1> DEFINE o2 == [o EXCEPT !.pc = "lock", !.queue = queue]
<1>2. InTxn(w) /\ UNCHANGED <<rows, used>> /\ Goto(w, o2)
  BY <1>1 DEF Scan, InTxn
<1>3. TxnOK(o, used) /\ SweptOK(o, rows) /\ RowsOK
  BY <1>2, TxnLocals DEF ContentInv
<1>4. o \in TxnOp /\ k \in 1..StepsOf(o.do) /\ o.do \in {"tour", "scene", "play", "replace"}
  BY <1>3 DEF TxnOK, TxnOp, StepsOf
<1>5. /\ Statements(o)[k] \subseteq Things /\ IsFiniteSet(Statements(o)[k])
      /\ Swept(o, k, rows) \subseteq Statements(o)[k]
  BY <1>3, <1>4, StatementsOf DEF RowsOK
<1>6. queue \in Seq(Things) /\ ToSet(queue) = Statements(o)[k] \ o.held
  <2>1. IsFiniteSet(Statements(o)[k] \ o.held)
    BY <1>5, FS_Difference
  <2>2. QED
    BY <1>1, <1>5, <2>1, QueueOfSet
<1>7. /\ o2 \in TxnOp /\ o2.do = o.do /\ o2.of = o.of /\ o2.put = o.put /\ o2.held = o.held
      /\ o2.step = k /\ o2.late = o.late /\ o2.queue = queue /\ o2.pc = "lock"
  BY <1>4, <1>6 DEF TxnOp
<1> HIDE DEF o2
<1>8. Swept(o2, k, rows) \subseteq o.held \cup ToSet(queue)
  BY <1>5, <1>6, <1>7, SweptSame
<1>9. SweptOK(o2, rows)
  <2>1. \A j \in 1..5 : j < k => Swept(o2, j, rows) \subseteq o.held \cup o.late
    BY <1>3, <1>7, SweptSame DEF SweptOK
  <2>2. QED
    BY <1>7, <1>8, <2>1 DEF SweptOK
<1>10. ReplacesAll(o2, rows, used)
  BY <1>7, <1>8 DEF ReplacesAll
<1>11. o2.do = "replace" /\ o2.step = 2 /\ NewStopsOf(o2) # {} => o2.of \in o2.held
  BY <1>3, <1>7 DEF TxnOK, ReplaceOK, NewStopsOf
<1>12. \A v \in Workers \ {w} : InTxn(v) => op[v].held \cap o2.held = {}
  BY <1>2, <1>7 DEF ContentInv, HeldApart
<1>13. o2.step <= StepsOf(o2.do)
  BY <1>3, <1>7 DEF TxnOK
<1>14. QED
  BY <1>2, <1>7, <1>9, <1>10, <1>11, <1>12, <1>13, TxnStepInv

\* A row leaves the queue: it is held from now on if the statement is still about it.
LEMMA LockRowInv ==
  ASSUME ContentInv, NEW w \in Workers, LockRow(w)
  PROVE  ContentInv'
<1> DEFINE o == op[w]
           k == o.step
           r == Head(o.queue)
           more == IF r \in Statements(o)[k] THEN o.held \cup {r} ELSE o.held
           o2 == [o EXCEPT !.queue = Tail(o.queue), !.held = more]
<1>1. /\ InTxn(w) /\ UNCHANGED <<rows, used>> /\ o.pc = "lock" /\ o.queue # <<>>
      /\ ~HeldByOther(w, r)
  BY DEF LockRow, InTxn
<1>2. Goto(w, o2)
  BY DEF LockRow
<1>3. TxnOK(o, used) /\ SweptOK(o, rows) /\ ReplacesAll(o, rows, used) /\ RowsOK
  BY <1>1, TxnLocals DEF ContentInv
<1>4. o \in TxnOp /\ k \in 1..StepsOf(o.do) /\ o.do \in {"tour", "scene", "play", "replace"}
  BY <1>3 DEF TxnOK, TxnOp, StepsOf
<1>5. Swept(o, k, rows) \subseteq Statements(o)[k]
  BY <1>3, <1>4, StatementsOf
<1>6. r \in Things /\ Tail(o.queue) \in Seq(Things) /\ ToSet(o.queue) = {r} \cup ToSet(Tail(o.queue))
  BY <1>1, <1>4, QueueTail DEF TxnOp
<1>7. more \in SUBSET Things /\ o.held \subseteq more /\ more \subseteq o.held \cup {r}
  BY <1>4, <1>6 DEF TxnOp
<1>8. Swept(o, k, rows) \cap {r} \subseteq more
  BY <1>5
<1> HIDE DEF more
<1>9. /\ o2 \in TxnOp /\ o2.do = o.do /\ o2.of = o.of /\ o2.put = o.put /\ o2.held = more
      /\ o2.step = k /\ o2.late = o.late /\ o2.queue = Tail(o.queue) /\ o2.pc = "lock"
  BY <1>1, <1>4, <1>6, <1>7 DEF TxnOp
<1> HIDE DEF o2
<1>10. SweptOK(o2, rows)
  <2>1. \A j \in 1..5 : j < k => Swept(o2, j, rows) \subseteq more \cup o.late
    BY <1>3, <1>7, <1>9, SweptSame DEF SweptOK
  <2>2. \A j \in 1..5 : j = k => Swept(o2, j, rows) \subseteq more \cup o.late \cup ToSet(Tail(o.queue))
    <3> SUFFICES ASSUME k \in 1..5
                 PROVE  Swept(o2, k, rows) \subseteq more \cup o.late \cup ToSet(Tail(o.queue))
      OBVIOUS
    <3>1. Swept(o, k, rows) \subseteq o.held \cup o.late \cup ToSet(o.queue)
      BY <1>1, <1>3 DEF SweptOK
    <3>2. Swept(o2, k, rows) = Swept(o, k, rows)
      BY <1>9, SweptSame
    <3>3. QED
      BY <1>6, <1>7, <1>8, <3>1, <3>2
  <2>3. QED
    BY <1>9, <2>1, <2>2 DEF SweptOK
<1>11. ReplacesAll(o2, rows, used)
  <2> SUFFICES ASSUME o2.do = "replace", k = 2, NewStopsOf(o2) # {},
                      NEW q \in Swept(o2, 2, rows), q \notin more \cup ToSet(Tail(o.queue))
               PROVE  used[q] = used[o2.of]
    BY <1>9 DEF ReplacesAll
  <2>1. q \in Swept(o, 2, rows) /\ NewStopsOf(o) # {}
    BY <1>9, SweptSame DEF NewStopsOf
  <2>2. q \notin o.held \cup ToSet(o.queue)
    BY <1>6, <1>7, <1>8, <2>1
  <2>3. QED
    BY <1>1, <1>3, <1>9, <2>1, <2>2 DEF ReplacesAll
<1>12. o2.do = "replace" /\ o2.step = 2 /\ NewStopsOf(o2) # {} => o2.of \in o2.held
  BY <1>3, <1>7, <1>9 DEF TxnOK, ReplaceOK, NewStopsOf
<1>13. ASSUME NEW v \in Workers \ {w}, InTxn(v) PROVE op[v].held \cap o2.held = {}
  <2>1. op[v].held \cap o.held = {}
    BY <1>1, <1>13 DEF ContentInv, HeldApart
  <2>2. r \notin op[v].held
    BY <1>1, <1>13 DEF HeldByOther
  <2>3. QED
    BY <1>7, <1>9, <2>1, <2>2
<1>14. o2.step <= StepsOf(o2.do)
  BY <1>3, <1>9 DEF TxnOK
<1>15. o.held \subseteq o2.held
  BY <1>7, <1>9
<1>16. QED
  BY <1>1, <1>2, <1>9, <1>10, <1>11, <1>12, <1>13, <1>14, <1>15, TxnStepInv

\* The next statement begins once the queue of the last one is empty.
LEMMA NextStatementInv ==
  ASSUME ContentInv, NEW w \in Workers, NextStatement(w)
  PROVE  ContentInv'
<1> DEFINE o == op[w]
           k == o.step
           o2 == [o EXCEPT !.pc = "scan", !.step = k + 1]
<1>1. /\ InTxn(w) /\ UNCHANGED <<rows, used>> /\ o.pc = "lock" /\ o.queue = <<>>
      /\ ~LastStep(o) /\ ~MissingParent(o)
  BY DEF NextStatement, StatementDone, InTxn
<1>2. Goto(w, o2)
  BY DEF NextStatement
<1>3. TxnOK(o, used) /\ SweptOK(o, rows) /\ RowsOK
  BY <1>1, TxnLocals DEF ContentInv
<1>4. /\ o \in TxnOp /\ k \in 1..5 /\ k <= StepsOf(o.do)
      /\ o.do \in {"tour", "scene", "play", "replace"} /\ StepsOf(o.do) \in {2, 4, 5}
  BY <1>3 DEF TxnOK, TxnOp, StepsOf
<1>5. k # StepsOf(o.do)
  BY <1>1, <1>3, <1>4, StatementsOf DEF LastStep
<1>6. k + 1 \in 1..5 /\ k + 1 <= StepsOf(o.do)
  BY <1>4, <1>5
<1>7. /\ o2 \in TxnOp /\ o2.do = o.do /\ o2.of = o.of /\ o2.put = o.put /\ o2.held = o.held
      /\ o2.step = k + 1 /\ o2.late = o.late /\ o2.pc = "scan"
  BY <1>4, <1>6 DEF TxnOp
<1> HIDE DEF o2
<1>8. SweptOK(o2, rows)
  <2> SUFFICES ASSUME NEW j \in 1..5, j < k + 1
               PROVE  Swept(o2, j, rows) \subseteq o.held \cup o.late
    BY <1>7 DEF SweptOK
  <2>1. Swept(o2, j, rows) = Swept(o, j, rows)
    BY <1>7, SweptSame
  <2>2. CASE j < k
    BY <1>3, <2>1, <2>2 DEF SweptOK
  <2>3. CASE j = k
    <3>1. ToSet(o.queue) = {}
      BY <1>1 DEF ToSet
    <3>2. QED
      BY <1>1, <1>3, <2>1, <2>3, <3>1 DEF SweptOK
  <2>4. QED
    BY <1>4, <2>2, <2>3
<1>9. ReplacesAll(o2, rows, used)
  BY <1>7 DEF ReplacesAll
<1>10. o2.do = "replace" /\ o2.step = 2 /\ NewStopsOf(o2) # {} => o2.of \in o2.held
  BY <1>1, <1>4, <1>7 DEF MissingParent, NewStopsOf
<1>11. \A v \in Workers \ {w} : InTxn(v) => op[v].held \cap o2.held = {}
  BY <1>1, <1>7 DEF ContentInv, HeldApart
<1>12. QED
  BY <1>1, <1>2, <1>6, <1>7, <1>8, <1>9, <1>10, <1>11, TxnStepInv

\* A rollback leaves the tables and the history as they are.
LEMMA RollbackInv ==
  ASSUME ContentInv, NEW w \in Workers, Rollback(w)
  PROVE  ContentInv'
<1>1. Goto(w, Idle) /\ UNCHANGED rows /\ UsedGrows
  BY UnusedGrows DEF Rollback
<1>2. QED
  BY <1>1, MoveInv

-----------------------------------------------------------------------------
(* Steps that change the tables *)

\* The rows that changed are late for every other transaction, and the stops among them do
\* not upset another replacement of stops.
LEMMA StoreInv ==
  ASSUME ContentInv, NEW w \in Workers, NEW new, NEW ids \in SUBSET Things, NEW next,
         Store(w, new, ids, next), UNCHANGED used, next = Idle \/ WriteOK(next, used),
         RowsOK', BoundRowsHaveParents', StopsOfOneUpdate',
         \A r \in DOMAIN new \ ids : r \in DOMAIN rows /\ new[r] = rows[r],
         \A v \in Workers \ {w} : \A q \in DOMAIN new \cap ids \cap Stops :
           InTxn(v) /\ op[v].do = "replace" /\ op[v].step = 2 /\ NewStopsOf(op[v]) # {}
             /\ new[q].of = op[v].of => used[q] = used[op[v].of]
  PROVE  ContentInv'
<1>1. /\ rows' = new /\ op' = [v \in Workers |-> op'[v]] /\ DOMAIN op' = Workers
      /\ op'[w] = next
      /\ \A v \in Workers \ {w} : InTxn(v) => op'[v] = [op[v] EXCEPT !.late = @ \cup ids]
      /\ \A v \in Workers \ {w} : ~InTxn(v) => op'[v] = op[v]
  BY DEF Store
<1>2. ASSUME NEW v \in Workers \ {w}, InTxn(v)
      PROVE  /\ TxnOK(op[v], used) /\ TxnOK(op'[v], used)
             /\ op'[v].do = op[v].do /\ op'[v].of = op[v].of /\ op'[v].put = op[v].put
             /\ op'[v].step = op[v].step /\ op'[v].pc = op[v].pc /\ op'[v].held = op[v].held
             /\ op'[v].queue = op[v].queue /\ op'[v].late = op[v].late \cup ids
  <2> DEFINE o == op[v]
             o2 == [o EXCEPT !.late = o.late \cup ids]
  <2>1. TxnOK(o, used)
    BY <1>2, TxnLocals DEF ContentInv
  <2>2. /\ o2 \in TxnOp /\ o2.do = o.do /\ o2.of = o.of /\ o2.put = o.put /\ o2.step = o.step
        /\ o2.pc = o.pc /\ o2.held = o.held /\ o2.queue = o.queue /\ o2.late = o.late \cup ids
    BY <2>1 DEF TxnOK, TxnOp
  <2>3. op'[v] = o2
    BY <1>1, <1>2
  <2> HIDE DEF o2
  <2>4. o.do = "replace" => ReplaceOK(o2, used)
    BY <2>1, <2>2 DEF TxnOK, ReplaceOK, NewStopsOf
  <2>5. TxnOK(o2, used)
    BY <2>1, <2>2, <2>4 DEF TxnOK
  <2>6. QED
    BY <2>1, <2>2, <2>3, <2>5
<1>3. ASSUME NEW v \in Workers, InTxn(v)' PROVE v # w /\ InTxn(v)
  <2>1. next.pc \in {"idle", "write"}
    BY DEF Idle, WriteOK, WriteOp
  <2>2. v # w
    BY <1>1, <1>3, <2>1 DEF InTxn
  <2>3. ~InTxn(v) => op'[v] = op[v]
    BY <1>1, <2>2
  <2>4. QED
    BY <1>3, <2>2, <2>3 DEF InTxn
<1>4. OpsOK'
  <2>1. ASSUME NEW v \in Workers
        PROVE  op'[v] = Idle \/ WriteOK(op'[v], used) \/ TxnOK(op'[v], used)
    <3>1. CASE v = w
      BY <1>1, <3>1
    <3>2. CASE v # w /\ InTxn(v)
      BY <1>2, <3>2
    <3>3. CASE v # w /\ ~InTxn(v)
      BY <1>1, <3>3 DEF ContentInv, OpsOK
    <3>4. QED
      BY <3>1, <3>2, <3>3
  <2>2. QED
    BY <1>1, <2>1 DEF OpsOK
<1>5. HeldApart'
  BY <1>2, <1>3 DEF ContentInv, HeldApart
<1>6. ASSUME NEW v \in Workers, InTxn(v)'
      PROVE  SweptOK(op'[v], rows') /\ ReplacesAll(op'[v], rows', used')
  <2> DEFINE o == op[v]
             o2 == op'[v]
  <2>1. v # w /\ InTxn(v)
    BY <1>3, <1>6
  <2>2. SweptOK(o, rows) /\ ReplacesAll(o, rows, used)
    BY <2>1 DEF ContentInv
  <2>3. /\ o2.do = o.do /\ o2.of = o.of /\ o2.put = o.put /\ o2.step = o.step /\ o2.pc = o.pc
        /\ o2.held = o.held /\ o2.queue = o.queue /\ o2.late = o.late \cup ids
    BY <1>2, <2>1
  <2> HIDE DEF o, o2
  <2>4. \A j : Swept(o2, j, new) \subseteq Swept(o, j, rows) \cup ids
    BY <2>3 DEF Swept, About
  <2>5. SweptOK(o2, new)
    <3>1. \A j \in 1..5 : j < o.step => Swept(o2, j, new) \subseteq o2.held \cup o2.late
      BY <2>2, <2>3, <2>4 DEF SweptOK
    <3>2. \A j \in 1..5 : j = o.step /\ o.pc = "lock" =>
            Swept(o2, j, new) \subseteq o2.held \cup o2.late \cup ToSet(o2.queue)
      BY <2>2, <2>3, <2>4 DEF SweptOK
    <3>3. QED
      BY <2>3, <3>1, <3>2 DEF SweptOK
  <2>6. ReplacesAll(o2, new, used)
    <3> SUFFICES ASSUME o2.do = "replace", o2.step = 2, o2.pc = "lock", NewStopsOf(o2) # {},
                        NEW q \in Swept(o2, 2, new), q \notin o2.held \cup ToSet(o2.queue)
                 PROVE  used[q] = used[o2.of]
      BY DEF ReplacesAll
    <3>1. NewStopsOf(o) # {}
      BY <2>3 DEF NewStopsOf
    <3>2. CASE q \in ids
      <4>1. q \in DOMAIN new /\ q \in Stops /\ new[q].of = o.of
        BY <2>3 DEF Swept, About
      <4>2. QED
        BY <2>1, <2>3, <3>1, <3>2, <4>1 DEF o
    <3>3. CASE q \notin ids
      <4>1. q \in Swept(o, 2, rows)
        BY <2>4, <3>3
      <4>2. QED
        BY <2>2, <2>3, <3>1, <4>1 DEF ReplacesAll
    <3>4. QED
      BY <3>2, <3>3
  <2>7. QED
    BY <1>1, <2>5, <2>6 DEF o2
<1>7. QED
  BY <1>4, <1>5, <1>6 DEF ContentInv

\* Rows written over a table.
LEMMA OverIs ==
  ASSUME NEW put, NEW table
  PROVE  /\ DOMAIN Over(put, table) = DOMAIN table \cup DOMAIN put
         /\ \A r \in DOMAIN put : Over(put, table)[r] = put[r]
         /\ \A r \in DOMAIN table \ DOMAIN put : Over(put, table)[r] = table[r]
BY DEF Over

\* Rows in order written over tables in order leave tables in order.
LEMMA PutRows ==
  ASSUME RowsOK, UNCHANGED used, NEW put, PutOK(put, used),
         DOMAIN rows' \subseteq DOMAIN rows \cup DOMAIN put,
         \A r \in DOMAIN put : rows'[r] = put[r],
         \A r \in DOMAIN rows' \ DOMAIN put : rows'[r] = rows[r]
  PROVE  RowsOK' /\ DOMAIN put \in SUBSET Things
<1>1. DOMAIN put \subseteq Items /\ \A r \in DOMAIN put : put[r] \in Row
  BY DEF PutOK, Puts
<1>2. DOMAIN put \in SUBSET Things
  BY <1>1 DEF Things
<1>3. DOMAIN rows' \subseteq Things /\ DOMAIN used' \subseteq Items
  BY <1>2 DEF RowsOK
<1>4. ASSUME NEW r \in DOMAIN rows'
      PROVE  /\ rows'[r] \in Row /\ BelongsOK(r, rows'[r])
             /\ r \in Stops => r \in DOMAIN used' /\ rows'[r].of \in DOMAIN used'
  <2>1. CASE r \in DOMAIN put
    BY <1>1, <2>1 DEF PutOK
  <2>2. CASE r \notin DOMAIN put
    BY <1>4, <2>2 DEF RowsOK
  <2>3. QED
    BY <2>1, <2>2
<1>5. QED
  BY <1>2, <1>3, <1>4 DEF RowsOK

\* Rows are written in a statement of their own only under parents that are there, and stops
\* only by the request that created their play tour.
LEMMA WriteRowsInv ==
  ASSUME ContentInv, NEW w \in Workers, WriteRows(w)
  PROVE  ContentInv'
<1> DEFINE o == op[w]
           put == Head(o.puts)
           rest == Tail(o.puts)
           next == IF rest = <<>> THEN Idle ELSE [pc |-> "write", puts |-> rest]
           new == Over(put, rows)
<1>1. /\ o.pc = "write" /\ UNCHANGED used
      /\ \/ ParentsStand(put) /\ Store(w, new, DOMAIN put, next)
         \/ Goto(w, Idle) /\ UNCHANGED rows
  BY DEF WriteRows
<1>2. WriteOK(o, used) /\ RowsOK
  BY <1>1, TxnLocals DEF ContentInv
<1>3. o.puts \in Seq(Puts) /\ o.puts # <<>>
  BY <1>2 DEF WriteOK, WriteOp
<1>4. /\ put = o.puts[1] /\ 1 \in 1..Len(o.puts) /\ rest \in Seq(Puts)
      /\ \A i \in 1..Len(rest) : rest[i] = o.puts[i + 1] /\ i + 1 \in 1..Len(o.puts)
  <2>1. /\ Len(rest) = Len(o.puts) - 1 /\ rest \in Seq(Puts) /\ Len(o.puts) \in Nat
        /\ \A i \in 1..Len(rest) : rest[i] = o.puts[i + 1]
    BY <1>3, HeadTailProperties, LenProperties
  <2>2. Len(o.puts) > 0 /\ put = o.puts[1]
    BY <1>3, EmptySeq
  <2>3. QED
    BY <2>1, <2>2
<1>5. PutOK(put, used) /\ \A q \in DOMAIN put \cap Stops : used[q] = used[put[q].of]
  BY <1>2, <1>4 DEF WriteOK
<1>6. next = Idle \/ WriteOK(next, used)
  <2> DEFINE more == [pc |-> "write", puts |-> rest]
  <2>1. more \in WriteOp /\ more.puts = rest
    BY <1>4 DEF WriteOp
  <2>2. \A i \in 1..Len(o.puts) :
          /\ PutOK(o.puts[i], used)
          /\ \A q \in DOMAIN o.puts[i] \cap Stops : used[q] = used[o.puts[i][q].of]
    BY <1>2 DEF WriteOK
  <2> HIDE DEF more, rest
  <2>3. \A i \in 1..Len(rest) :
          /\ PutOK(rest[i], used)
          /\ \A q \in DOMAIN rest[i] \cap Stops : used[q] = used[rest[i][q].of]
    BY <1>4, <2>2
  <2>4. rest # <<>> => WriteOK(more, used)
    BY <2>1, <2>3 DEF WriteOK
  <2>5. QED
    BY <2>4 DEF more
<1> HIDE DEF next, rest, put, new
<1>7. CASE Goto(w, Idle) /\ UNCHANGED rows
  BY <1>1, <1>7, UnusedGrows, MoveInv
<1>8. CASE ParentsStand(put) /\ Store(w, new, DOMAIN put, next)
  <2>1. /\ DOMAIN new = DOMAIN rows \cup DOMAIN put
        /\ \A r \in DOMAIN put : new[r] = put[r]
        /\ \A r \in DOMAIN rows \ DOMAIN put : new[r] = rows[r]
    <3>1. /\ DOMAIN Over(put, rows) = DOMAIN rows \cup DOMAIN put
          /\ \A r \in DOMAIN put : Over(put, rows)[r] = put[r]
          /\ \A r \in DOMAIN rows \ DOMAIN put : Over(put, rows)[r] = rows[r]
      BY DEF Over
    <3>2. new = Over(put, rows)
      BY DEF new
    <3>3. QED
      BY <3>1, <3>2
  <2>2. rows' = new
    BY <1>8 DEF Store
  <2>3. RowsOK' /\ DOMAIN put \in SUBSET Things
    BY <1>1, <1>2, <1>5, <2>1, <2>2, PutRows
  <2>4. BoundRowsHaveParents'
    <3> SUFFICES ASSUME NEW r \in Bound, r \in DOMAIN new
                 PROVE  new[r].of \in DOMAIN new
      BY <2>2 DEF BoundRowsHaveParents, Exists
    <3>1. CASE r \in DOMAIN put
      BY <1>8, <2>1, <3>1 DEF ParentsStand, Exists
    <3>2. CASE r \notin DOMAIN put
      BY <2>1, <3>2 DEF ContentInv, BoundRowsHaveParents, Exists
    <3>3. QED
      BY <3>1, <3>2
  <2>5. StopsOfOneUpdate'
    <3> SUFFICES ASSUME NEW p \in Plays, NEW q1 \in Stops, NEW q2 \in Stops,
                        q1 \in DOMAIN new, q2 \in DOMAIN new, new[q1].of = p, new[q2].of = p
                 PROVE  used[q1] = used[q2] \/ used[p] \in {used[q1], used[q2]}
      BY <1>1, <2>2 DEF StopsOfOneUpdate, Of, Exists
    <3>1. CASE q1 \in DOMAIN put \/ q2 \in DOMAIN put
      BY <1>5, <2>1, <3>1
    <3>2. CASE q1 \notin DOMAIN put /\ q2 \notin DOMAIN put
      <4>1. q1 \in Of({p}, Stops) /\ q2 \in Of({p}, Stops)
        BY <2>1, <3>2 DEF Of, Exists
      <4>2. QED
        BY <4>1 DEF ContentInv, StopsOfOneUpdate
    <3>3. QED
      BY <3>1, <3>2
  <2>6. \A q \in DOMAIN new \cap DOMAIN put \cap Stops : used[q] = used[new[q].of]
    BY <1>5, <2>1
  <2>7. \A r \in DOMAIN new \ DOMAIN put : r \in DOMAIN rows /\ new[r] = rows[r]
    BY <2>1
  <2>8. \A v \in Workers \ {w} : \A q \in DOMAIN new \cap DOMAIN put \cap Stops :
          InTxn(v) /\ op[v].do = "replace" /\ op[v].step = 2 /\ NewStopsOf(op[v]) # {}
            /\ new[q].of = op[v].of => used[q] = used[op[v].of]
    BY <2>6
  <2> DEFINE ids == DOMAIN put
  <2>9. /\ ids \in SUBSET Things /\ Store(w, new, ids, next)
        /\ \A r \in DOMAIN new \ ids : r \in DOMAIN rows /\ new[r] = rows[r]
        /\ \A v \in Workers \ {w} : \A q \in DOMAIN new \cap ids \cap Stops :
             InTxn(v) /\ op[v].do = "replace" /\ op[v].step = 2 /\ NewStopsOf(op[v]) # {}
               /\ new[q].of = op[v].of => used[q] = used[op[v].of]
    BY <1>8, <2>3, <2>7, <2>8
  <2> HIDE DEF ids
  <2>10. QED
    BY <1>1, <1>6, <2>3, <2>4, <2>5, <2>9, StoreInv
<1>9. QED
  BY <1>1, <1>7, <1>8

\* What a transaction about to commit leaves: its rows, and those it did not delete.
LEMMA CommitTables ==
  ASSUME ContentInv, NEW w \in Workers, Commit(w)
  PROVE  /\ TxnOK(op[w], used) /\ InTxn(w) /\ op[w].pc = "lock" /\ op[w].queue = <<>>
         /\ Dangling(op[w]) = {} /\ op[w].step = StepsOf(op[w].do) /\ UNCHANGED used
         /\ DOMAIN rows' = (DOMAIN rows \ Gone(op[w])) \cup DOMAIN op[w].put
         /\ \A r \in DOMAIN op[w].put : rows'[r] = op[w].put[r]
         /\ \A r \in DOMAIN rows' \ DOMAIN op[w].put : r \in DOMAIN rows /\ rows'[r] = rows[r]
<1> DEFINE o == op[w]
           left == Except(rows, Gone(o))
           put == o.put
<1>1. /\ InTxn(w) /\ o.pc = "lock" /\ o.queue = <<>> /\ Dangling(o) = {} /\ LastStep(o)
      /\ rows' = Over(put, left) /\ UNCHANGED used
  BY DEF Commit, StatementDone, Store, InTxn
<1>2. TxnOK(o, used) /\ RowsOK
  BY <1>1, TxnLocals DEF ContentInv
<1>3. o.do \in {"tour", "scene", "play", "replace"}
  BY <1>2 DEF TxnOK, TxnOp
<1>4. o.step = StepsOf(o.do)
  BY <1>1, <1>2, <1>3, StatementsOf DEF LastStep
<1>5. DOMAIN left = DOMAIN rows \ Gone(o) /\ \A r \in DOMAIN left : left[r] = rows[r]
  BY DEF Except
<1> HIDE DEF left, put
<1>6. /\ DOMAIN rows' = DOMAIN left \cup DOMAIN put
      /\ \A r \in DOMAIN put : rows'[r] = put[r]
      /\ \A r \in DOMAIN left \ DOMAIN put : rows'[r] = left[r]
  BY <1>1 DEF Over
<1>7. QED
  BY <1>1, <1>2, <1>4, <1>5, <1>6 DEF put

\* A commit deletes no parent and keeps its row, and the stops a replacement leaves are its
\* own or came with the play tour.
LEMMA CommitInv ==
  ASSUME ContentInv, NEW w \in Workers, Commit(w)
  PROVE  ContentInv'
<1> DEFINE o == op[w]
           put == o.put
           ids == DOMAIN put
<1>1. /\ TxnOK(o, used) /\ InTxn(w) /\ o.pc = "lock" /\ o.queue = <<>> /\ Dangling(o) = {}
      /\ o.step = StepsOf(o.do) /\ UNCHANGED used
      /\ DOMAIN rows' = (DOMAIN rows \ Gone(o)) \cup ids
      /\ \A r \in ids : rows'[r] = put[r]
      /\ \A r \in DOMAIN rows' \ ids : r \in DOMAIN rows /\ rows'[r] = rows[r]
  BY CommitTables
<1>2. PutOK(put, used) /\ RowsOK
  BY <1>1 DEF TxnOK, ContentInv
<1>3. RowsOK' /\ ids \in SUBSET Things
  BY <1>1, <1>2, PutRows
<1>4. o.do \in {"tour", "scene", "play", "replace"}
  BY <1>1 DEF TxnOK, TxnOp
<1>5. ids # {} =>
        /\ o.do = "replace" /\ o.step = 2 /\ o.of \in Plays /\ o.of \in ids
        /\ ids \subseteq {o.of} \cup Stops
        /\ \A q \in ids \cap Stops : put[q].of = o.of
        /\ \A q1, q2 \in ids \cap Stops : used[q1] = used[q2]
        /\ ids \cap Stops # {} => o.of \in o.held
  <2>1. o.do # "replace" => ids = {}
    BY <1>1 DEF TxnOK
  <2>2. o.do = "replace" => ReplaceOK(o, used) /\ o.step = 2
    BY <1>1 DEF TxnOK, StepsOf
  <2>3. QED
    BY <2>1, <2>2 DEF ReplaceOK, NewStopsOf
<1>6. BoundRowsHaveParents'
  <2> SUFFICES ASSUME NEW r \in Bound, r \in DOMAIN rows'
               PROVE  rows'[r].of \in DOMAIN rows'
    BY DEF BoundRowsHaveParents, Exists
  <2>1. CASE r \in ids
    <3>1. r \in Stops
      BY <1>5, <2>1, Disjoint DEF Bound
    <3>2. QED
      BY <1>1, <1>5, <2>1, <3>1
  <2>2. CASE r \notin ids
    <3>1. r \in DOMAIN rows /\ r \notin Gone(o) /\ rows'[r] = rows[r]
      BY <1>1, <2>2
    <3>2. rows[r].of \in DOMAIN rows
      BY <3>1 DEF ContentInv, BoundRowsHaveParents, Exists
    <3>3. rows[r].of \notin Gone(o)
      BY <1>1, <3>1 DEF Dangling, Of, Exists
    <3>4. QED
      BY <1>1, <3>1, <3>2, <3>3
  <2>3. QED
    BY <2>1, <2>2
<1>7. StopsOfOneUpdate'
  <2> SUFFICES ASSUME NEW p \in Plays, NEW q1 \in Stops, NEW q2 \in Stops,
                      q1 \in DOMAIN rows', q2 \in DOMAIN rows',
                      rows'[q1].of = p, rows'[q2].of = p
               PROVE  used[q1] = used[q2] \/ used[p] \in {used[q1], used[q2]}
    BY <1>1 DEF StopsOfOneUpdate, Of, Exists
  <2>1. CASE q1 \notin ids /\ q2 \notin ids
    <3>1. q1 \in Of({p}, Stops) /\ q2 \in Of({p}, Stops)
      BY <1>1, <2>1 DEF Of, Exists
    <3>2. QED
      BY <3>1 DEF ContentInv, StopsOfOneUpdate
  <2>2. ASSUME NEW q \in Stops, q \in DOMAIN rows', q \notin ids, rows'[q].of = o.of,
               ids \cap Stops # {}
        PROVE  used[q] = used[o.of]
    <3>1. q \in DOMAIN rows /\ q \notin Gone(o) /\ rows[q].of = o.of
      BY <1>1, <2>2
    <3>2. o.do = "replace" /\ o.step = 2 /\ NewStopsOf(o) # {} /\ o.of \in Plays
      BY <1>5, <2>2 DEF NewStopsOf
    <3>3. q \in Swept(o, 2, rows)
      BY <3>1, <3>2 DEF Swept, About
    <3>4. q \notin o.held \cup ToSet(o.queue)
      <4>1. q # o.of
        BY <3>2, Disjoint
      <4>2. QED
        BY <1>1, <3>1, <4>1 DEF Gone, Kept, ToSet
    <3>5. ReplacesAll(o, rows, used)
      BY <1>1 DEF ContentInv
    <3>6. QED
      BY <1>1, <3>2, <3>3, <3>4, <3>5 DEF ReplacesAll
  <2>3. CASE q1 \in ids \/ q2 \in ids
    <3>1. \A q \in ids \cap Stops : rows'[q].of = o.of
      BY <1>1, <1>5
    <3>2. p = o.of /\ ids \cap Stops # {}
      BY <2>3, <3>1
    <3>3. QED
      BY <1>5, <2>2, <2>3, <3>2
  <2>4. QED
    BY <2>1, <2>3
<1>8. ASSUME NEW v \in Workers \ {w}, NEW q \in DOMAIN rows' \cap ids \cap Stops,
             InTxn(v), op[v].do = "replace", op[v].step = 2, NewStopsOf(op[v]) # {},
             rows'[q].of = op[v].of
      PROVE  used[q] = used[op[v].of]
  <2>1. op[v].of = o.of /\ o.of \in o.held
    BY <1>1, <1>5, <1>8
  <2>2. TxnOK(op[v], used)
    BY <1>8, TxnLocals DEF ContentInv
  <2>3. op[v].of \in op[v].held
    BY <1>8, <2>2 DEF TxnOK, ReplaceOK
  <2>4. op[v].held \cap o.held = {}
    BY <1>1, <1>8 DEF ContentInv, HeldApart
  <2>5. QED
    BY <2>1, <2>3, <2>4
<1>9. Store(w, rows', ids, Idle)
  BY DEF Commit, Store
<1> DEFINE new == rows'
<1>10. /\ Store(w, new, ids, Idle)
       /\ \A r \in DOMAIN new \ ids : r \in DOMAIN rows /\ new[r] = rows[r]
       /\ \A v \in Workers \ {w} : \A q \in DOMAIN new \cap ids \cap Stops :
            InTxn(v) /\ op[v].do = "replace" /\ op[v].step = 2 /\ NewStopsOf(op[v]) # {}
              /\ new[q].of = op[v].of => used[q] = used[op[v].of]
  BY <1>1, <1>8, <1>9
<1> HIDE DEF o, ids, new
<1>11. QED
  BY <1>1, <1>3, <1>6, <1>7, <1>10, StoreInv

\* A hotspot or overlay that is deleted is nobody's parent.
LEMMA DeleteMarkInv ==
  ASSUME ContentInv, NEW w \in Workers, NEW m \in Marks, DeleteMark(w, m)
  PROVE  ContentInv'
<1>1. /\ DOMAIN rows' = DOMAIN rows \ {m} /\ \A r \in DOMAIN rows' : rows'[r] = rows[r]
      /\ UNCHANGED <<op, used>>
  BY DEF DeleteMark, Except
<1>2. RowsOK'
  BY <1>1 DEF ContentInv, RowsOK
<1>3. OpsOK' /\ HeldApart'
  BY <1>1 DEF ContentInv, OpsOK, HeldApart, InTxn
<1>4. BoundRowsHaveParents'
  <2> SUFFICES ASSUME NEW r \in Bound, r \in DOMAIN rows'
               PROVE  rows'[r].of \in DOMAIN rows'
    BY DEF BoundRowsHaveParents, Exists
  <2>1. rows[r].of \in DOMAIN rows
    BY <1>1 DEF ContentInv, BoundRowsHaveParents, Exists
  <2>2. rows[r].of \in Scenes \cup Plays
    BY <1>1 DEF ContentInv, RowsOK, BelongsOK, Bound
  <2>3. QED
    BY <1>1, <2>1, <2>2, Disjoint
<1>5. StopsOfOneUpdate'
  BY <1>1 DEF ContentInv, StopsOfOneUpdate, Of, Exists
<1>6. ASSUME NEW v \in Workers, InTxn(v)'
      PROVE  SweptOK(op'[v], rows') /\ ReplacesAll(op'[v], rows', used')
  <2> DEFINE o == op[v]
  <2>1. InTxn(v) /\ op'[v] = o
    BY <1>1, <1>6 DEF InTxn
  <2>2. \A j : Swept(o, j, rows') \subseteq Swept(o, j, rows)
    BY <1>1 DEF Swept
  <2>3. SweptOK(o, rows) /\ ReplacesAll(o, rows, used)
    BY <2>1 DEF ContentInv
  <2> HIDE DEF o
  <2>4. SweptOK(o, rows')
    BY <2>2, <2>3 DEF SweptOK
  <2>5. ReplacesAll(o, rows', used)
    BY <2>2, <2>3 DEF ReplacesAll
  <2>6. QED
    BY <1>1, <2>1, <2>4, <2>5
<1>7. QED
  BY <1>2, <1>3, <1>4, <1>5, <1>6 DEF ContentInv

-----------------------------------------------------------------------------
(* The invariant *)

\* At the start there are the tours and nobody does anything.
LEMMA InitInv == ContentInit => ContentInv
<1> SUFFICES ASSUME ContentInit PROVE ContentInv
  OBVIOUS
<1> DEFINE none == [of |-> None, to |-> None]
<1>1. DOMAIN rows = Tours /\ \A r \in Tours : rows[r] = none
  BY DEF ContentInit
<1>2. none \in Row
  BY DEF Row
<1> HIDE DEF none
<1>3. DOMAIN used = {} /\ op = [w \in Workers |-> Idle]
  BY DEF ContentInit
<1>4. \A r \in Tours : r \notin Marks /\ r \notin Stops
  BY Disjoint
<1>5. RowsOK
  BY <1>1, <1>2, <1>3, <1>4 DEF RowsOK, BelongsOK, Things
<1>6. BoundRowsHaveParents /\ StopsOfOneUpdate
  BY <1>1, <1>4 DEF BoundRowsHaveParents, StopsOfOneUpdate, Bound, Of, Exists
<1>7. OpsOK /\ \A w \in Workers : ~InTxn(w)
  BY <1>3 DEF OpsOK, InTxn, Idle
<1>8. QED
  BY <1>5, <1>6, <1>7 DEF ContentInv, HeldApart

\* The deletion of a hotspot or overlay is one statement.
LEMMA DeleteRequests ==
  ASSUME NEW w \in Workers,
         \/ \E h \in Hotspots : DeleteHotspot(w, h)
         \/ \E s \in Scenes, h \in Hotspots : DeleteHotspotByTourAndScene(w, s, h)
         \/ \E o \in Overlays : DeleteOverlay(w, o)
  PROVE  \E m \in Marks : DeleteMark(w, m)
BY DEF DeleteHotspot, DeleteHotspotByTourAndScene, DeleteOverlay, Marks

\* Every step of every request keeps the invariant.
LEMMA NextInv == ContentInv /\ [ContentNext]_contentVars => ContentInv'
<1>1. ASSUME ContentInv, UNCHANGED contentVars PROVE ContentInv'
  <2>1. rows' = rows /\ op' = op /\ used' = used
    BY <1>1 DEF contentVars
  <2>2. RowsOK' /\ OpsOK' /\ BoundRowsHaveParents' /\ StopsOfOneUpdate'
    BY <1>1, <2>1 DEF ContentInv, RowsOK, OpsOK, BoundRowsHaveParents, StopsOfOneUpdate,
                      Of, Exists
  <2>3. HeldApart' /\ \A w \in Workers : InTxn(w)' <=> InTxn(w)
    BY <1>1, <2>1 DEF ContentInv, HeldApart, InTxn
  <2>4. QED
    BY <1>1, <2>1, <2>2, <2>3 DEF ContentInv
<1>2. ASSUME ContentInv, NEW w \in Workers, Request(w) PROVE ContentInv'
  <2>1. CASE Transactions(w)
    BY <1>2, <2>1, DeletionRequests, UpdatePlayTourInv DEF Transactions
  <2>2. CASE ChangeNothing(w)
    BY <1>1, <1>2, <2>2 DEF ChangeNothing
  <2>3. CASE \E ref \in Refs : CreateScene(w, ref) \/ CreatePlayTour(w, ref)
    BY <1>2, <2>3, SceneRequests, CreatePlayTourInv
  <2>4. CASE \E s \in Scenes : UpdateScene(w, s) \/ UpdateSceneImages(w, s)
                                 \/ CreateHotspot(w, s)
    BY <1>2, <2>4, SceneRequests, MarkRequests
  <2>5. CASE \E h \in Hotspots : UpdateHotspot(w, h) \/ DeleteHotspot(w, h)
    BY <1>2, <2>5, MarkRequests, DeleteRequests, DeleteMarkInv
  <2>6. CASE \E s \in Scenes, h \in Hotspots :
               UpdateHotspotByTourAndScene(w, s, h) \/ DeleteHotspotByTourAndScene(w, s, h)
    BY <1>2, <2>6, MarkRequests, DeleteRequests, DeleteMarkInv
  <2>7. CASE OverlayRequest(w)
    BY <1>2, <2>7, MarkRequests, DeleteRequests, DeleteMarkInv DEF OverlayRequest
  <2>8. QED
    BY <1>2, <2>1, <2>2, <2>3, <2>4, <2>5, <2>6, <2>7 DEF Request
<1>3. ASSUME ContentInv, NEW w \in Workers, Statement(w) PROVE ContentInv'
  BY <1>3, WriteRowsInv, ScanInv, LockRowInv, NextStatementInv, CommitInv DEF Statement
<1>4. ASSUME ContentInv, NEW w \in Workers, Ends(w) \/ Abandon(w) PROVE ContentInv'
  BY <1>4, RollbackInv DEF Ends, ConstraintFails, DeadlockDetected, Abandon
<1>5. QED
  BY <1>1, <1>2, <1>3, <1>4 DEF ContentNext

\* In every behaviour the invariant holds.
LEMMA AlwaysInv == ContentSpec => []ContentInv
BY InitInv, NextInv, PTL DEF ContentSpec

-----------------------------------------------------------------------------
(* What it shows *)

\* In every behaviour the tables hold well-formed rows and every request is in a place of
\* its code (handlers.go and repo.go, the handlers of scenes, hotspots, overlays and play
\* tours).
THEOREM ContentTyped == ContentSpec => []ContentTypeOK
<1>1. ContentInv => ContentTypeOK
  <2> SUFFICES ASSUME ContentInv PROVE ContentTypeOK
    OBVIOUS
  <2>1. ASSUME NEW w \in Workers
        PROVE  \/ op[w] = Idle
               \/ op[w].pc = "write" /\ op[w].puts # <<>>
               \/ /\ InTxn(w) /\ op[w].do \in {"tour", "scene", "play", "replace"}
                  /\ op[w].step \in 1..Len(Statements(op[w]))
                  /\ op[w].held \cup ToSet(op[w].queue) \cup op[w].late \subseteq Tours \cup Items
    <3> DEFINE o == op[w]
    <3>1. CASE WriteOK(o, used)
      BY <3>1 DEF WriteOK, WriteOp
    <3>2. CASE TxnOK(o, used)
      <4>1. InTxn(w)
        BY <3>2, TxnLocals DEF ContentInv
      <4>2. /\ o \in TxnOp /\ o.do \in {"tour", "scene", "play", "replace"}
            /\ o.step \in 1..StepsOf(o.do) /\ StepsOf(o.do) \in Nat
        BY <3>2 DEF TxnOK, TxnOp, StepsOf
      <4>3. Len(Statements(o)) = StepsOf(o.do)
        BY <4>2, StatementsOf DEF ContentInv
      <4>4. o.queue \in Seq(Things) /\ o.held \subseteq Things /\ o.late \subseteq Things
        BY <4>2 DEF TxnOp
      <4>5. ToSet(o.queue) \subseteq Things
        BY <4>4 DEF ToSet
      <4>6. QED
        BY <4>1, <4>2, <4>3, <4>4, <4>5 DEF Things
    <3>3. QED
      BY <3>1, <3>2 DEF ContentInv, OpsOK
  <2>2. QED
    BY <2>1 DEF ContentTypeOK, ContentInv, RowsOK, Things
<1>2. QED
  BY <1>1, AlwaysInv, PTL

\* Hotspots and overlays have a scene and stops a play tour at every moment: a transaction
\* that deletes a parent sees every row under it that was committed before, and no row is
\* committed under a parent that a transaction is about to delete (models/tour.go, the
\* associations; repo.go:186-223, 390-433, 551-602).
THEOREM ParentsStay == ContentSpec => []BoundRowsHaveParents
<1>1. ContentInv => BoundRowsHaveParents
  BY DEF ContentInv
<1>2. QED
  BY <1>1, AlwaysInv, PTL

\* Two updates of a play tour never mix their stops: an update that has stops holds the row
\* of the play tour from its first statement to its commit (repo.go:573-602).
THEOREM UpdatesDoNotMix == ContentSpec => []StopsOfOneUpdate
<1>1. ContentInv => StopsOfOneUpdate
  BY DEF ContentInv
<1>2. QED
  BY <1>1, AlwaysInv, PTL

\* Only three kinds of step change the tables.
LEMMA WhatChangesRows ==
  ASSUME ContentNext, rows' # rows
  PROVE  \E w \in Workers :
           WriteRows(w) \/ Commit(w) \/ \E m \in Marks : DeleteMark(w, m)
<1>1. ASSUME NEW w \in Workers, Request(w) PROVE \E m \in Marks : DeleteMark(w, m)
  <2>1. ~Transactions(w)
    BY DEF Transactions, DeleteTour, DeleteScene, DeletePlayTour, UpdatePlayTour, Transaction
  <2>2. ~ChangeNothing(w)
    BY DEF ChangeNothing, contentVars
  <2>3. ~\E ref \in Refs : CreateScene(w, ref) \/ CreatePlayTour(w, ref)
    BY DEF CreateScene, CreatePlayTour, Begin
  <2>4. ~\E s \in Scenes : UpdateScene(w, s) \/ UpdateSceneImages(w, s) \/ CreateHotspot(w, s)
                             \/ CreateOverlay(w, s)
    BY DEF UpdateScene, UpdateSceneImages, CreateHotspot, CreateOverlay, InsertMark, Begin
  <2>5. /\ ~\E h \in Hotspots : UpdateHotspot(w, h)
        /\ ~\E o \in Overlays : UpdateOverlay(w, o)
    BY DEF UpdateHotspot, UpdateOverlay, SaveMark, Begin
  <2>6. QED
    BY <1>1, <2>1, <2>2, <2>3, <2>4, <2>5, DeleteRequests
       DEF Request, OverlayRequest, UpdateHotspotByTourAndScene
<1>2. ASSUME NEW w \in Workers, Statement(w) PROVE WriteRows(w) \/ Commit(w)
  BY <1>2 DEF Statement, Scan, LockRow, NextStatement
<1>3. ASSUME NEW w \in Workers PROVE ~(Ends(w) \/ Abandon(w))
  BY DEF Ends, Abandon, ConstraintFails, DeadlockDetected, Rollback
<1>4. QED
  BY <1>1, <1>2, <1>3 DEF ContentNext

\* A transaction that ends in a step that changes the tables is the one that commits.
LEMMA EndsByItsCommit ==
  ASSUME ContentNext, rows' # rows, NEW w \in Workers, InTxn(w), ~InTxn(w)', ContentInv
  PROVE  Commit(w)
<1>1. PICK v \in Workers : WriteRows(v) \/ Commit(v) \/ \E m \in Marks : DeleteMark(v, m)
  BY WhatChangesRows
<1>2. ~\E m \in Marks : DeleteMark(v, m)
  BY DEF DeleteMark, InTxn
<1>3. ASSUME v # w, NEW new, NEW ids, NEW next, Store(v, new, ids, next) PROVE FALSE
  <2>1. op'[w] = [op[w] EXCEPT !.late = @ \cup ids]
    BY <1>3 DEF Store
  <2>2. op[w] \in TxnOp
    BY TxnLocals DEF ContentInv, TxnOK
  <2>3. op'[w].pc = op[w].pc
    BY <2>1, <2>2 DEF TxnOp
  <2>4. QED
    BY <2>3 DEF InTxn
<1>4. CASE WriteRows(v)
  <2>1. v # w
    BY <1>4 DEF WriteRows, InTxn
  <2>2. \E new, ids, next : Store(v, new, ids, next)
    BY <1>4 DEF WriteRows
  <2>3. QED
    BY <1>3, <2>1, <2>2
<1>5. CASE Commit(v)
  <2>1. \E new, ids, next : Store(v, new, ids, next)
    BY <1>5 DEF Commit
  <2>2. QED
    BY <1>3, <1>5, <2>1
<1>6. QED
  BY <1>1, <1>2, <1>4, <1>5

\* A deletion that commits leaves no scene of the tour and nothing that leads to the scene,
\* except what was written while it ran: every row its statements are about it has locked,
\* and so deletes (repo.go:186-223, 390-433).
THEOREM DeletionsComplete == ContentSpec => DeletionComplete
<1> DEFINE Complete ==
      \A w \in Workers : \A o \in {op[w]} :
        InTxn(w) /\ ~InTxn(w)' /\ Exists(o.of) /\ ~Exists(o.of)' => Leftover(o)' \subseteq o.late
<1>1. ASSUME ContentInv, [ContentNext]_contentVars PROVE Complete
  <2> SUFFICES ASSUME NEW w \in Workers, NEW o, o = op[w], InTxn(w), ~InTxn(w)',
                      Exists(o.of), ~Exists(o.of)', NEW r \in Leftover(o)'
               PROVE  r \in o.late
    OBVIOUS
  <2>1. rows' # rows
    BY DEF Exists
  <2>2. Commit(w)
    BY <1>1, <2>1, EndsByItsCommit DEF contentVars
  <2>3. /\ TxnOK(o, used) /\ o.step = StepsOf(o.do)
        /\ DOMAIN rows' = (DOMAIN rows \ Gone(o)) \cup DOMAIN o.put
        /\ \A x \in DOMAIN rows' \ DOMAIN o.put : x \in DOMAIN rows /\ rows'[x] = rows[x]
    BY <1>1, <2>2, CommitTables
  <2>4. SweptOK(o, rows)
    BY <1>1 DEF ContentInv
  <2>5. ASSUME o.do \in {"tour", "scene"}, r \in DOMAIN rows'
        PROVE  r \in DOMAIN rows /\ rows'[r] = rows[r] /\ r \notin o.held
    <3>1. DOMAIN o.put = {}
      BY <2>3, <2>5 DEF TxnOK
    <3>2. Gone(o) = o.held
      BY <2>5 DEF Gone, Kept
    <3>3. QED
      BY <2>3, <2>5, <3>1, <3>2
  <2>6. CASE o.do = "tour"
    <3>1. r \in DOMAIN rows' /\ r \in Scenes /\ rows'[r].of = o.of
      BY <2>6 DEF Leftover, Of, Exists
    <3>2. r \in Swept(o, 3, rows) /\ r \notin o.held
      BY <2>5, <2>6, <3>1 DEF Swept, About
    <3>3. o.step = 4
      BY <2>3, <2>6 DEF StepsOf
    <3>4. QED
      BY <2>4, <3>2, <3>3 DEF SweptOK
  <2>7. CASE o.do = "scene"
    <3>1. r \in DOMAIN rows' /\ (r \in Hotspots \/ r \in Stops) /\ rows'[r].to = o.of
      BY <2>7 DEF Leftover, AimedAt, Exists
    <3>2. (r \in Swept(o, 2, rows) \/ r \in Swept(o, 4, rows)) /\ r \notin o.held
      BY <2>5, <2>7, <3>1 DEF Swept, About
    <3>3. o.step = 5
      BY <2>3, <2>7 DEF StepsOf
    <3>4. Swept(o, 2, rows) \subseteq o.held \cup o.late
      BY <2>4, <3>3 DEF SweptOK
    <3>5. Swept(o, 4, rows) \subseteq o.held \cup o.late
      BY <2>4, <3>3 DEF SweptOK
    <3>6. QED
      BY <3>2, <3>4, <3>5
  <2>8. CASE o.do \notin {"tour", "scene"}
    BY <2>8 DEF Leftover
  <2>9. QED
    BY <2>6, <2>7, <2>8
<1>2. QED
  BY <1>1, AlwaysInv, PTL DEF ContentSpec, DeletionComplete
=============================================================================
