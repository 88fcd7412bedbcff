--------------------------- MODULE CleanupProofs ---------------------------
(***************************************************************************)
(* What holds of the deletion of stored objects for every number of        *)
(* workers, goroutines, tours, scenes and objects: types, that what is     *)
(* there keeps its objects unless its deletion was asked for, that nothing *)
(* of what is gone stays, but for causes the program knows, and that each  *)
(* step of a goroutine brings it nearer to its end.                        *)
(***************************************************************************)
EXTENDS Cleanup, SequenceTheorems, FiniteSetTheorems, WellFoundedInduction, TLAPS

-----------------------------------------------------------------------------
(* The sequences of owners and the places of a listing *)

Elements(s) == {s[i] : i \in DOMAIN s}

\* Going on in a sequence of owners leaves only owners of it.
LEMMA TailElements ==
  ASSUME NEW s \in Seq(Owners), s # <<>>
  PROVE  /\ Tail(s) \in Seq(Owners) /\ Elements(Tail(s)) \subseteq Elements(s)
         /\ Head(s) \in Elements(s) /\ Head(s) \in Owners
  <1>1. Len(s) \in Nat \ {0} /\ DOMAIN s = 1..Len(s)
    BY EmptySeq, LenProperties
  <1>2. /\ Tail(s) \in Seq(Owners) /\ Len(Tail(s)) = Len(s) - 1 /\ Head(s) \in Owners
        /\ \A i \in 1..Len(Tail(s)) : Tail(s)[i] = s[i + 1]
    BY HeadTailProperties
  <1>3. DOMAIN Tail(s) = 1..(Len(s) - 1)
    BY <1>2, LenProperties
  <1>4. \A i \in DOMAIN Tail(s) : i + 1 \in DOMAIN s /\ Tail(s)[i] = s[i + 1]
    BY <1>1, <1>2, <1>3
  <1>5. Elements(Tail(s)) \subseteq Elements(s)
    BY <1>4 DEF Elements
  <1>6. Head(s) \in Elements(s)
    BY <1>1 DEF Elements
  <1>7. QED BY <1>2, <1>5, <1>6

\* A finite set as a sequence has the elements of the set.
LEMMA SetAsSequence ==
  ASSUME NEW S \in SUBSET Owners, IsFiniteSet(S)
  PROVE  SetToSeq(S) \in Seq(Owners) /\ Elements(SetToSeq(S)) = S
  <1>1. Cardinality(S) \in Nat /\ ExistsBijection(1..Cardinality(S), S)
    BY FS_CardinalityType
  <1>2. \E f \in [1..Cardinality(S) -> S] : IsInjective(f)
    BY <1>1 DEF ExistsBijection, Bijection, Injection
  <1>3. SetToSeq(S) \in [1..Cardinality(S) -> S] /\ IsInjective(SetToSeq(S))
    BY <1>2 DEF SetToSeq
  <1>4. SetToSeq(S) \in [1..Cardinality(S) -> Owners]
    BY <1>3
  <1>5. SetToSeq(S) \in Seq(Owners)
    BY <1>1, <1>4, SeqDef
  <1>6. SetToSeq(S) \in Surjection(1..Cardinality(S), S)
    <2>1. SetToSeq(S) \in Injection(1..Cardinality(S), S)
      BY <1>3 DEF Injection, IsInjective
    <2>2. Cardinality(1..Cardinality(S)) = Cardinality(S)
      BY <1>1, FS_Interval
    <2>3. QED BY <2>1, <2>2, FS_Injection
  <1>7. QED BY <1>3, <1>5, <1>6 DEF Elements, Surjection

\* A deletion of a tour goes to the tour and the scenes it listed.
LEMMA OwnersListed ==
  ASSUME NEW t \in Tours, NEW S \in SUBSET Scenes, IsFiniteSet(S)
  PROVE  OwnersOf(t, S) \in Seq(Owners) /\ Elements(OwnersOf(t, S)) = {t} \cup S
  <1>1. /\ SetToSeq(S) \in Seq(Owners) /\ Elements(SetToSeq(S)) = S
        /\ Len(SetToSeq(S)) \in Nat /\ DOMAIN SetToSeq(S) = 1..Len(SetToSeq(S))
    BY SetAsSequence, LenProperties DEF Owners
  <1>2. <<t>> \in Seq(Owners) /\ Len(<<t>>) = 1 /\ <<t>>[1] = t
    BY DEF Owners
  <1> DEFINE rest == SetToSeq(S)
             all == <<t>> \o rest
  <1>3. rest \in Seq(Owners) /\ Len(rest) \in Nat /\ DOMAIN rest = 1..Len(rest)
    BY <1>1
  <1> HIDE DEF rest
  <1>4. /\ all \in Seq(Owners) /\ Len(all) = 1 + Len(rest)
        /\ \A i \in 1..(1 + Len(rest)) : all[i] = IF i <= 1 THEN t ELSE rest[i - 1]
    BY <1>2, <1>3, ConcatProperties
  <1>5. DOMAIN all = 1..(1 + Len(rest))
    BY <1>4, LenProperties
  <1>6. \A i \in DOMAIN all : all[i] = t \/ (i - 1 \in DOMAIN rest /\ all[i] = rest[i - 1])
    BY <1>3, <1>4, <1>5
  <1>7. /\ 1 \in DOMAIN all /\ all[1] = t
        /\ \A i \in DOMAIN rest : i + 1 \in DOMAIN all /\ all[i + 1] = rest[i]
    BY <1>3, <1>4, <1>5
  <1>8. Elements(all) = {t} \cup Elements(rest)
    <2> HIDE DEF all
    <2>1. Elements(all) \subseteq {t} \cup Elements(rest)
      BY <1>6 DEF Elements
    <2>2. t \in Elements(all) /\ Elements(rest) \subseteq Elements(all)
      BY <1>7 DEF Elements
    <2>3. QED BY <2>1, <2>2
  <1>9. QED BY <1>1, <1>4, <1>8 DEF OwnersOf, rest

\* There are finitely many places, all positive.
LEMMA PlacesFinite == IsFiniteSet(Places) /\ Places \subseteq Nat \ {0}
  <1> DEFINE place == [object \in Stored |-> object[2]]
  <1>1. place \in Surjection(Stored, Places)
    BY DEF Surjection, Places
  <1>2. IsFiniteSet(Places)
    BY <1>1, StoredOfOwners, FS_Surjection
  <1>3. Places \subseteq Nat \ {0}
    BY StoredOfOwners DEF Places
  <1>4. QED BY <1>2, <1>3

\* The sets of places above one of them shrink strictly, so a page has a last place.
LEMMA LastOfPage ==
  ASSUME NEW page \in SUBSET Places, page # {}
  PROVE  Max(page) \in page
  <1>1. IsFiniteSet(page) /\ page \subseteq Nat
    BY PlacesFinite, FS_Subset
  <1> DEFINE Above(x) == {y \in page : y > x}
             aboves == {Above(x) : x \in page}
  <1>2. aboves \subseteq FiniteSubsetsOf(page)
    BY <1>1, FS_FiniteSubsetsOfFinite
  <1>3. IsWellFoundedOn(StrictSubsetOrdering(page), FiniteSubsetsOf(page))
    BY FS_StrictSubsetOrderingWellFounded
  <1>4. PICK A \in aboves : \A B \in aboves : <<B, A>> \notin StrictSubsetOrdering(page)
    <2>1. aboves # {}
      OBVIOUS
    <2> HIDE DEF aboves
    <2>2. QED BY <1>2, <1>3, <2>1, WFMin
  <1>5. PICK x \in page : A = Above(x)
    OBVIOUS
  <1>6. ASSUME NEW y \in page, y > x PROVE FALSE
    <2>0. ~ (y > y) /\ \A z \in page : z > y => z > x
      BY <1>1, <1>6
    <2>1. Above(y) \subseteq Above(x) /\ y \in Above(x) /\ y \notin Above(y)
      BY <1>6, <2>0
    <2>2. Above(y) # A /\ Above(y) \subseteq A /\ Above(y) \in aboves
      BY <1>5, <2>1
    <2>3. Above(y) \in SUBSET page /\ A \in SUBSET page
      BY <1>5
    <2> HIDE DEF Above, aboves
    <2>4. <<Above(y), A>> \in StrictSubsetOrdering(page)
      BY <2>2, <2>3 DEF StrictSubsetOrdering
    <2>5. QED BY <1>4, <2>2, <2>4
  <1>7. \A y \in page : x >= y
    BY <1>1, <1>6
  <1>8. QED BY <1>7 DEF Max

-----------------------------------------------------------------------------
(* Types, conjunct by conjunct *)

RowsTyped == standing \subseteq Tours /\ tourOf \in Scenery /\ IsFiniteSet(DOMAIN tourOf)

JobsTyped == jobs \in [JobIds -> Job] /\ \A j \in JobIds : jobs[j].todo = <<>> => jobs[j] = NoJob

Requests == {Idle} \cup CollectReq \cup DropReq

DelTyped == del \in [Deleters -> Requests]

TypeInv == RowsTyped /\ JobsTyped /\ DelTyped /\ bucket \subseteq Stored /\ fate \in Fate

\* The table of scenes stays one, and finite, whatever is deleted from it or saved to it.
LEMMA SceneryTables ==
  ASSUME NEW table \in Scenery, IsFiniteSet(DOMAIN table)
  PROVE  /\ DOMAIN table \subseteq Scenes
         /\ \A gone : Without(table, gone) \in Scenery /\ IsFiniteSet(DOMAIN Without(table, gone))
         /\ \A s \in Scenes, t \in Tours \cup {Elsewhere} :
              Saved(table, s, t) \in Scenery /\ IsFiniteSet(DOMAIN Saved(table, s, t))
  <1> PICK S \in SUBSET Scenes : table \in [S -> Tours \cup {Elsewhere}]
    BY DEF Scenery
  <1>1. DOMAIN table = S
    OBVIOUS
  <1>2. ASSUME NEW gone
        PROVE  Without(table, gone) \in Scenery /\ IsFiniteSet(DOMAIN Without(table, gone))
    <2>1. Without(table, gone) \in [S \ gone -> Tours \cup {Elsewhere}]
      BY DEF Without
    <2>2. S \ gone \in SUBSET S /\ S \ gone \in SUBSET Scenes
      OBVIOUS
    <2>3. IsFiniteSet(S \ gone)
      BY <1>1, <2>2, FS_Subset
    <2>4. QED BY <2>1, <2>2, <2>3 DEF Scenery
  <1>3. ASSUME NEW s \in Scenes, NEW t \in Tours \cup {Elsewhere}
        PROVE  Saved(table, s, t) \in Scenery /\ IsFiniteSet(DOMAIN Saved(table, s, t))
    <2>1. Saved(table, s, t) \in [S \cup {s} -> Tours \cup {Elsewhere}]
      BY DEF Saved
    <2>2. IsFiniteSet(S \cup {s})
      BY <1>1, FS_AddElement
    <2>3. QED BY <2>1, <2>2 DEF Scenery
  <1>4. QED BY <1>1, <1>2, <1>3

\* What a goroutine has when it starts, and after each of its steps.
LEMMA NewJobTyped ==
  ASSUME NEW owners \in Seq(Owners)
  PROVE  /\ [NoJob EXCEPT !.todo = owners] \in Job
         /\ [NoJob EXCEPT !.todo = owners].todo = owners
         /\ owners = <<>> => [NoJob EXCEPT !.todo = owners] = NoJob
  <1>1. NoJob \in Job /\ NoJob.todo = <<>>
    BY EmptySeq DEF NoJob, Job
  <1>2. \A job \in Job :
          /\ [job EXCEPT !.todo = owners] \in Job /\ [job EXCEPT !.todo = owners].todo = owners
          /\ [job EXCEPT !.todo = job.todo] = job
    BY DEF Job
  <1>3. QED BY <1>1, <1>2

\* Going on to the next prefix, or to the end.
LEMMA NextJobTyped ==
  ASSUME NEW job \in Job, job.todo # <<>>
  PROVE  /\ NextPrefix(job) \in Job
         /\ Elements(NextPrefix(job).todo) \subseteq Elements(job.todo)
         /\ NextPrefix(job).todo = <<>> => NextPrefix(job) = NoJob
         /\ Head(job.todo) \in Elements(job.todo) /\ Head(job.todo) \in Owners
  <1>1. job.todo \in Seq(Owners)
    BY DEF Job
  <1>2. QED BY <1>1, TailElements, NewJobTyped DEF NextPrefix

\* Having listed a page.
LEMMA PageJobTyped ==
  ASSUME NEW job \in Job, job.todo # <<>>, NEW page \in SUBSET Places, NEW more \in BOOLEAN
  PROVE  /\ [job EXCEPT !.page = page, !.more = more] \in Job
         /\ [job EXCEPT !.page = page, !.more = more].todo = job.todo
  BY DEF Job

\* Being past a page that was not the last one.
LEMMA PastPageTyped ==
  ASSUME NEW job \in Job, job.todo # <<>>, NEW after \in Places \cup {0}
  PROVE  /\ [job EXCEPT !.after = after, !.page = {}, !.more = FALSE] \in Job
         /\ [job EXCEPT !.after = after, !.page = {}, !.more = FALSE].todo = job.todo
  BY DEF Job

\* Once a page is deleted the job is as before with the next page, or the next prefix.
LEMMA AfterPageTyped ==
  ASSUME NEW job \in Job, job.todo # <<>>, job.page # {}
  PROVE  /\ AfterPage(job) \in Job
         /\ Elements(AfterPage(job).todo) \subseteq Elements(job.todo)
         /\ AfterPage(job).todo = <<>> => AfterPage(job) = NoJob
  <1>1. Max(job.page) \in Places \cup {0}
    BY LastOfPage DEF Job
  <1> DEFINE last == Max(job.page)
  <1>2. last \in Places \cup {0}
    BY <1>1
  <1>3. AfterPage(job) = IF job.more THEN [job EXCEPT !.after = last, !.page = {}, !.more = FALSE]
                         ELSE NextPrefix(job)
    BY DEF AfterPage
  <1> HIDE DEF last
  <1>4. CASE job.more
    <2> DEFINE next == [job EXCEPT !.after = last, !.page = {}, !.more = FALSE]
    <2>1. next \in Job /\ next.todo = job.todo
      BY <1>2, PastPageTyped
    <2>2. AfterPage(job) = next
      BY <1>3, <1>4
    <2> HIDE DEF next
    <2>3. QED BY <2>1, <2>2
  <1>5. CASE ~job.more
    BY <1>3, <1>5, NextJobTyped
  <1>6. QED BY <1>4, <1>5

\* Slot j is given a job; the others keep theirs.
LEMMA SlotTyped ==
  ASSUME JobsTyped, NEW j \in JobIds, NEW job \in Job, job.todo = <<>> => job = NoJob,
         jobs' = [jobs EXCEPT ![j] = job]
  PROVE  JobsTyped' /\ \A i \in JobIds : jobs'[i] = IF i = j THEN job ELSE jobs[i]
  BY DEF JobsTyped

\* A step of a goroutine takes no further prefix upon it.
LEMMA JobStepTyped ==
  ASSUME TypeInv, NEW j \in JobIds, JobStep(j)
  PROVE  /\ TypeInv'
         /\ UNCHANGED <<rowVars, del>>
         /\ fate'.back = fate.back
         /\ fate'.robbed \subseteq fate.robbed \cup {Now(j)}
         /\ Now(j) \in Elements(jobs[j].todo)
         /\ \A i \in JobIds : Elements(jobs'[i].todo) \subseteq Elements(jobs[i].todo)
  <1> DEFINE job == jobs[j]
  <1>1. job \in Job /\ job.todo # <<>> /\ jobs \in [JobIds -> Job] /\ JobsTyped
    <2>1. jobs[j].todo # <<>>
      <3>1. CASE DeletePage(j)
        BY <3>1 DEF DeletePage, TypeInv, JobsTyped, NoJob
      <3>2. CASE ListPage(j) \/ PrefixFails(j)
        BY <3>2 DEF ListPage, PrefixFails
      <3>3. QED BY <3>1, <3>2 DEF JobStep
    <2>2. QED BY <2>1 DEF TypeInv, JobsTyped
  <1>2. Now(j) \in Elements(job.todo) /\ Now(j) \in Owners
    BY <1>1, NextJobTyped DEF Now
  <1>3. PICK next \in Job :
          /\ jobs' = [jobs EXCEPT ![j] = next]
          /\ next.todo = <<>> => next = NoJob
          /\ Elements(next.todo) \subseteq Elements(job.todo)
    <2>1. CASE ListPage(j)
      <3> DEFINE rest == {n \in Places : <<Now(j), n>> \in bucket /\ n > jobs[j].after}
                 page == {n \in rest : Cardinality({m \in rest : m < n}) < PageSize}
      <3>1. jobs' = [jobs EXCEPT ![j] = IF rest = {} THEN NextPrefix(job)
                                        ELSE [job EXCEPT !.page = page, !.more = page # rest]]
        BY <2>1 DEF ListPage
      <3> DEFINE more == page # rest
                 paged == [job EXCEPT !.page = page, !.more = more]
      <3>2. page \in SUBSET Places /\ more \in BOOLEAN
        OBVIOUS
      <3> HIDE DEF page, rest, job
      <3>3. CASE rest = {}
        BY <1>1, <3>1, <3>3, NextJobTyped
      <3>4. CASE rest # {}
        <4>1. jobs' = [jobs EXCEPT ![j] = paged]
          BY <3>1, <3>4
        <4> HIDE DEF more
        <4>2. paged \in Job /\ paged.todo = job.todo
          BY <1>1, <3>2, PageJobTyped
        <4> HIDE DEF paged
        <4>3. QED BY <1>1, <4>1, <4>2
      <3>5. QED BY <3>3, <3>4
    <2>2. CASE DeletePage(j)
      <3>1. jobs' = [jobs EXCEPT ![j] = AfterPage(job)] /\ job.page # {}
        BY <2>2 DEF DeletePage
      <3>2. QED BY <1>1, <3>1, AfterPageTyped
    <2>3. CASE PrefixFails(j)
      <3>1. jobs' = [jobs EXCEPT ![j] = NextPrefix(job)]
        BY <2>3 DEF PrefixFails, AfterError
      <3>2. QED BY <1>1, <3>1, NextJobTyped
    <2>4. QED BY <2>1, <2>2, <2>3 DEF JobStep
  <1>4. JobsTyped' /\ \A i \in JobIds : jobs'[i] = IF i = j THEN next ELSE jobs[i]
    BY <1>1, <1>3, SlotTyped
  <1>5. \A i \in JobIds : Elements(jobs'[i].todo) \subseteq Elements(jobs[i].todo)
    BY <1>3, <1>4
  <1>6. UNCHANGED <<rowVars, del>>
    BY DEF JobStep, ListPage, DeletePage, PrefixFails
  <1>7. /\ fate' \in Fate /\ fate'.back = fate.back
        /\ fate'.robbed \subseteq fate.robbed \cup {Now(j)}
        /\ bucket' \subseteq bucket
    <2>1. fate \in Fate
      BY DEF TypeInv
    <2>2. CASE DeletePage(j)
      <3>1. PICK refused \in SUBSET jobs[j].page :
              /\ bucket' = bucket \ {<<Now(j), n>> : n \in jobs[j].page \ refused}
              /\ fate' = [fate EXCEPT
                   !.spared = IF refused = {} THEN @ ELSE @ \cup {Now(j)},
                   !.robbed = IF bucket' = bucket THEN @ ELSE @ \cup {Now(j)}]
        BY <2>2 DEF DeletePage
      <3>2. QED BY <1>2, <2>1, <3>1 DEF Fate
    <2>3. CASE PrefixFails(j)
      BY <1>2, <2>1, <2>3 DEF PrefixFails, Fate
    <2>4. CASE ListPage(j)
      BY <2>1, <2>4 DEF ListPage
    <2>5. QED BY <2>2, <2>3, <2>4 DEF JobStep
  <1>8. TypeInv'
    BY <1>4, <1>6, <1>7 DEF TypeInv, RowsTyped, DelTyped, rowVars
  <1>9. QED BY <1>2, <1>5, <1>6, <1>7, <1>8

-----------------------------------------------------------------------------
(* The invariant.  An owner that is there though objects of it were deleted *)
(* or are about to be is excused: its row is about to go, or it came back. *)

Hit(o) == o \in fate.robbed \/ \E j \in JobIds : Pending(j, o)

Excused(o) == BeingDropped(o) \/ o \in fate.back

Marked(o) == o \in Live /\ Hit(o) => Excused(o)

\* What a deletion under way took with it is the row it deletes, scenes that go with the row,
\* and scenes that were moved since.
DropOK(r, of, back) ==
  /\ r.pc = "drop tour" =>
       /\ r.o \in Tours /\ r.taken \subseteq {r.o} \cup Scenes
       /\ \A s \in r.taken \ {r.o} : s \in DOMAIN of /\ of[s] # r.o => s \in back
  /\ r.pc = "drop scene" => r.o \in Scenes /\ r.taken = {r.o}

DropsOK == \A w \in Deleters : DropOK(del[w], tourOf, fate.back)

CleanupInv == TypeInv /\ DropsOK /\ \A o \in Owners : Marked(o)

\* A handler that goes on in order, in tables that only lose scenes, leaves the drops in
\* order.
LEMMA MoveKeepsDrops ==
  ASSUME DropsOK, NEW w \in Deleters, NEW r, DropOK(r, tourOf', fate'.back),
         \A v \in Deleters : del'[v] = IF v = w THEN r ELSE del[v],
         fate.back \subseteq fate'.back, DOMAIN tourOf' \subseteq DOMAIN tourOf,
         \A s \in DOMAIN tourOf' : tourOf'[s] = tourOf[s]
  PROVE  DropsOK'
  <1>1. ASSUME NEW q, DropOK(q, tourOf, fate.back) PROVE DropOK(q, tourOf', fate'.back)
    BY <1>1 DEF DropOK
  <1>2. ASSUME NEW v \in Deleters PROVE DropOK(del'[v], tourOf', fate'.back)
    BY <1>1 DEF DropsOK
  <1>3. QED BY <1>2 DEF DropsOK

\* What a job has still to do is what its sequence holds.
LEMMA PendingElements ==
  ASSUME NEW j, NEW o
  PROVE  Pending(j, o) <=> o \in Elements(jobs[j].todo)
  BY DEF Pending, Elements

\* Recording an owner as spared or back changes nothing else of the history.
LEMMA FateGrows ==
  ASSUME NEW X \in SUBSET Owners, NEW Y \in SUBSET Owners, fate \in Fate
  PROVE  /\ [fate EXCEPT !.spared = @ \cup X] \in Fate
         /\ [fate EXCEPT !.spared = @ \cup X].back = fate.back
         /\ [fate EXCEPT !.spared = @ \cup X].robbed = fate.robbed
         /\ [fate EXCEPT !.back = @ \cup Y] \in Fate
         /\ [fate EXCEPT !.back = @ \cup Y].back = fate.back \cup Y
         /\ [fate EXCEPT !.back = @ \cup Y].robbed = fate.robbed
         /\ [fate EXCEPT !.spared = @ \cup X, !.back = @ \cup Y] \in Fate
         /\ [fate EXCEPT !.spared = @ \cup X, !.back = @ \cup Y].back = fate.back \cup Y
         /\ [fate EXCEPT !.spared = @ \cup X, !.back = @ \cup Y].robbed = fate.robbed
  BY DEF Fate

\* Handler w goes on as r.
LEMMA ProceedTyped ==
  ASSUME DelTyped, NEW w \in Deleters, NEW r \in Requests, Proceed(w, r)
  PROVE  DelTyped' /\ \A v \in Deleters : del'[v] = IF v = w THEN r ELSE del[v]
  BY DEF DelTyped, Proceed

\* A goroutine is started in slot j.
LEMMA SpawnTyped ==
  ASSUME JobsTyped, NEW j \in JobIds, NEW owners \in Seq(Owners), Spawn(j, owners)
  PROVE  JobsTyped' /\ \A i \in JobIds : jobs'[i].todo = IF i = j THEN owners ELSE jobs[i].todo
  <1> DEFINE job == [NoJob EXCEPT !.todo = owners]
  <1>1. job \in Job /\ job.todo = owners /\ (job.todo = <<>> => job = NoJob)
    BY NewJobTyped
  <1>2. jobs' = [jobs EXCEPT ![j] = job]
    BY DEF Spawn
  <1> HIDE DEF job
  <1>3. JobsTyped' /\ \A i \in JobIds : jobs'[i] = IF i = j THEN job ELSE jobs[i]
    BY <1>1, <1>2, SlotTyped
  <1>4. QED BY <1>1, <1>3

\* What tells the places of a handler apart.
LEMMA RequestKinds ==
  /\ Idle \in Requests /\ Idle.pc = "idle"
  /\ \A r \in CollectReq : r.pc = "collect" /\ r.t \in Tours
  /\ \A r \in DropReq :
       r.pc \in {"drop tour", "drop scene"} /\ r.o \in Owners /\ r.taken \subseteq Owners
  <1>1. Idle \in Requests /\ Idle.pc = "idle"
    BY DEF Requests, Idle
  <1>2. \A r \in CollectReq : r.pc = "collect" /\ r.t \in Tours
    BY DEF CollectReq
  <1>3. \A r \in DropReq :
          r.pc \in {"drop tour", "drop scene"} /\ r.o \in Owners /\ r.taken \subseteq Owners
    BY DEF DropReq
  <1>4. QED BY <1>1, <1>2, <1>3

\* The locals of a deletion that is about to be carried out.
LEMMA DropLocals ==
  ASSUME TypeInv, NEW w \in Deleters, del[w].pc \in {"drop tour", "drop scene"}
  PROVE  del[w].o \in Owners /\ del[w].taken \subseteq Owners
  <1>1. del[w] \in Requests
    BY DEF TypeInv, DelTyped
  <1>2. QED BY <1>1, RequestKinds DEF Requests

-----------------------------------------------------------------------------
(* The invariant is kept, request by request *)

\* A request that neither drops anything yet nor gives anything up.
LEMMA DeleteTourKeeps ==
  ASSUME CleanupInv, NEW w \in Deleters, NEW t \in Tours, DeleteTour(w, t)
  PROVE  CleanupInv'
  <1> DEFINE r == [pc |-> "collect", t |-> t]
  <1>1. r \in Requests /\ r.pc = "collect"
    BY DEF Requests, CollectReq
  <1>2. Proceed(w, r) /\ del[w].pc = "idle" /\ UNCHANGED <<rowVars, bucket, jobs, fate>>
    BY DEF DeleteTour
  <1> HIDE DEF r
  <1>3. DelTyped' /\ \A v \in Deleters : del'[v] = IF v = w THEN r ELSE del[v]
    BY <1>1, <1>2, ProceedTyped DEF CleanupInv, TypeInv
  <1>4. TypeInv'
    BY <1>2, <1>3 DEF CleanupInv, TypeInv, RowsTyped, JobsTyped, rowVars
  <1>5. DropsOK'
    <2>1. DropsOK /\ UNCHANGED <<tourOf, fate>> /\ DropOK(r, tourOf', fate'.back)
      BY <1>1, <1>2 DEF CleanupInv, DropOK, rowVars
    <2>2. QED BY <1>3, <2>1, MoveKeepsDrops
  <1>6. \A o \in Owners : BeingDropped(o) => BeingDropped(o)'
    BY <1>1, <1>2, <1>3 DEF BeingDropped
  <1>7. \A o \in Owners : Marked(o)'
    BY <1>2, <1>6 DEF CleanupInv, Marked, Hit, Excused, Live, Pending, rowVars
  <1>8. QED BY <1>4, <1>5, <1>7 DEF CleanupInv

\* A tour's scenes are listed: their owners are about to be dropped when the goroutine starts.
LEMMA CollectKeeps ==
  ASSUME CleanupInv, NEW w \in Deleters, CollectScenes(w)
  PROVE  CleanupInv'
  <1> DEFINE t == del[w].t
  <1>1. t \in Tours /\ del[w].pc = "collect"
    <2>1. del[w] \in Requests /\ del[w].pc = "collect"
      BY DEF CleanupInv, TypeInv, DelTyped, CollectScenes
    <2>2. QED BY <2>1, RequestKinds DEF Requests
  <1>2. PICK taken :
          /\ Proceed(w, [pc |-> "drop tour", o |-> t, taken |-> taken])
          /\ taken \subseteq {t} \cup ScenesOf(tourOf, t)
          /\ JobsTyped'
          /\ \A i \in JobIds : Elements(jobs'[i].todo) \subseteq Elements(jobs[i].todo) \cup taken
    <2>1. CASE UNCHANGED jobs /\ Proceed(w, [pc |-> "drop tour", o |-> t, taken |-> {}])
      <3>1. JobsTyped'
        BY <2>1 DEF CleanupInv, TypeInv, JobsTyped
      <3> DEFINE none == {}
      <3>2. \A i \in JobIds : Elements(jobs'[i].todo) \subseteq Elements(jobs[i].todo) \cup none
        BY <2>1
      <3>3. /\ none \subseteq {t} \cup ScenesOf(tourOf, t)
            /\ Proceed(w, [pc |-> "drop tour", o |-> t, taken |-> none])
        BY <2>1
      <3> HIDE DEF t, none
      <3>4. QED BY <3>1, <3>2, <3>3
    <2>2. ASSUME NEW S \in FirstScenes(tourOf, t, ListLimit), NEW j \in JobIds,
                 Spawn(j, OwnersOf(t, S)),
                 Proceed(w, [pc |-> "drop tour", o |-> t, taken |-> {t} \cup S])
          PROVE  \E taken :
                   /\ Proceed(w, [pc |-> "drop tour", o |-> t, taken |-> taken])
                   /\ taken \subseteq {t} \cup ScenesOf(tourOf, t)
                   /\ JobsTyped'
                   /\ \A i \in JobIds :
                        Elements(jobs'[i].todo) \subseteq Elements(jobs[i].todo) \cup taken
      <3>1. S \subseteq ScenesOf(tourOf, t) /\ S \in SUBSET DOMAIN tourOf
        BY DEF FirstScenes, ScenesOf
      <3>2. S \in SUBSET Scenes /\ IsFiniteSet(S)
        BY <3>1, SceneryTables, FS_Subset DEF CleanupInv, TypeInv, RowsTyped
      <3> DEFINE owners == OwnersOf(t, S)
      <3>3. owners \in Seq(Owners) /\ Elements(owners) \subseteq {t} \cup S /\ Spawn(j, owners)
        BY <1>1, <2>2, <3>2, OwnersListed
      <3> HIDE DEF owners, t
      <3>4. /\ JobsTyped'
            /\ \A i \in JobIds : jobs'[i].todo = IF i = j THEN owners ELSE jobs[i].todo
        BY <3>3, SpawnTyped DEF CleanupInv, TypeInv
      <3>5. \A i \in JobIds :
              Elements(jobs'[i].todo) \subseteq Elements(jobs[i].todo) \cup ({t} \cup S)
        BY <3>3, <3>4
      <3>6. QED BY <2>2, <3>1, <3>4, <3>5
    <2>3. QED BY <2>1, <2>2 DEF CollectScenes
  <1>3. UNCHANGED <<rowVars, bucket, fate>>
    BY DEF CollectScenes
  <1>4. DOMAIN tourOf \subseteq Scenes /\ ScenesOf(tourOf, t) \subseteq Scenes
    BY SceneryTables DEF CleanupInv, TypeInv, RowsTyped, ScenesOf
  <1> DEFINE r == [pc |-> "drop tour", o |-> t, taken |-> taken]
  <1>5. r \in Requests /\ r.pc = "drop tour" /\ r.o = t /\ r.taken = taken /\ Proceed(w, r)
    BY <1>1, <1>2, <1>4 DEF Requests, DropReq, Owners
  <1> HIDE DEF r, t
  <1>6. DelTyped' /\ \A v \in Deleters : del'[v] = IF v = w THEN r ELSE del[v]
    BY <1>5, ProceedTyped DEF CleanupInv, TypeInv
  <1>7. TypeInv'
    BY <1>2, <1>3, <1>6 DEF CleanupInv, TypeInv, RowsTyped, rowVars
  <1>8. DropsOK'
    <2>1. /\ taken \subseteq {t} \cup Scenes
          /\ \A s \in taken \ {t} : tourOf'[s] = t
      BY <1>2, <1>3, <1>4 DEF ScenesOf, rowVars
    <2>2. /\ DropsOK /\ tourOf' = tourOf /\ fate' = fate /\ t \in Tours
      BY <1>1, <1>3 DEF CleanupInv, rowVars
    <2>3. DropOK(r, tourOf', fate'.back)
      BY <1>5, <2>1, <2>2 DEF DropOK
    <2>4. QED BY <1>6, <2>2, <2>3, MoveKeepsDrops
  <1>9. ASSUME NEW o \in Owners PROVE Marked(o)'
    <2>1. BeingDropped(o) => BeingDropped(o)'
      BY <1>1, <1>6 DEF BeingDropped
    <2>2. o \in taken => BeingDropped(o)'
      BY <1>5, <1>6 DEF BeingDropped
    <2>3. Hit(o)' => Hit(o) \/ o \in taken
      <3>1. \A i \in JobIds : Pending(i, o)' => o \in Elements(jobs'[i].todo)
        BY DEF Pending, Elements
      <3>2. \A i \in JobIds : o \in Elements(jobs[i].todo) => Pending(i, o)
        BY PendingElements
      <3>3. QED BY <1>2, <1>3, <3>1, <3>2 DEF Hit
    <2>4. QED BY <1>3, <2>1, <2>2, <2>3 DEF CleanupInv, Marked, Excused, Live, rowVars
  <1>10. QED BY <1>7, <1>8, <1>9 DEF CleanupInv

\* The rows go; those the goroutine has that stay were moved meanwhile.
LEMMA DropTourKeeps ==
  ASSUME CleanupInv, NEW w \in Deleters, DropTour(w)
  PROVE  CleanupInv'
  <1> DEFINE t == del[w].o
             gone == {t} \cup ScenesOf(tourOf, t)
             taken == del[w].taken
  <1>1. /\ t \in Tours /\ taken \subseteq {t} \cup Scenes /\ taken \subseteq Owners
        /\ \A s \in taken \ {t} : s \in DOMAIN tourOf /\ tourOf[s] # t => s \in fate.back
    BY DropLocals DEF CleanupInv, DropsOK, DropOK, DropTour
  <1>2. /\ standing' = standing \ gone /\ tourOf' = Without(tourOf, gone)
        /\ fate' = [fate EXCEPT !.spared = @ \cup (gone \ taken)]
        /\ Proceed(w, Idle) /\ UNCHANGED <<bucket, jobs>>
    BY DEF DropTour
  <1>3. gone \subseteq Owners /\ gone \ taken \in SUBSET Owners /\ DOMAIN tourOf \subseteq Scenes
    BY <1>1, SceneryTables DEF CleanupInv, TypeInv, RowsTyped, ScenesOf, Owners
  <1>4. t \in gone /\ \A s \in DOMAIN tourOf : s \in gone <=> tourOf[s] = t
    BY <1>1, <1>3, TableIdsDisjoint DEF ScenesOf
  <1> HIDE DEF t, gone, taken
  <1>5. RowsTyped'
    BY <1>2, SceneryTables DEF CleanupInv, TypeInv, RowsTyped
  <1>6. DelTyped' /\ \A v \in Deleters : del'[v] = IF v = w THEN Idle ELSE del[v]
    BY <1>2, RequestKinds, ProceedTyped DEF CleanupInv, TypeInv
  <1>7. fate' \in Fate /\ fate'.back = fate.back /\ fate'.robbed = fate.robbed
    BY <1>2, <1>3, FateGrows DEF CleanupInv, TypeInv
  <1>8. TypeInv'
    BY <1>2, <1>5, <1>6, <1>7 DEF CleanupInv, TypeInv, JobsTyped
  <1>9. DOMAIN tourOf' = DOMAIN tourOf \ gone /\ \A s \in DOMAIN tourOf' : tourOf'[s] = tourOf[s]
    BY <1>2 DEF Without
  <1>10. DropsOK'
    <2>1. DropsOK /\ fate.back \subseteq fate'.back /\ DropOK(Idle, tourOf', fate'.back)
      BY <1>7, RequestKinds DEF CleanupInv, DropOK
    <2>2. QED BY <1>6, <1>9, <2>1, MoveKeepsDrops
  <1>11. ASSUME NEW o \in Owners PROVE Marked(o)'
    <2>1. o \in Live' => o \in Live /\ o # t
      BY <1>2, <1>4, <1>9 DEF Live
    <2>2. Hit(o)' => Hit(o)
      BY <1>2, <1>7 DEF Hit, Pending
    <2>3. o \in Live' /\ o \in taken => o \in fate.back
      <3>1. SUFFICES ASSUME o \in Live', o \in taken PROVE o \in fate.back
        OBVIOUS
      <3>2. o \in Scenes /\ o \notin standing'
        BY <1>1, <1>5, <2>1, <3>1, TableIdsDisjoint DEF RowsTyped
      <3>3. o \in DOMAIN tourOf /\ tourOf[o] # t
        BY <1>4, <1>9, <3>1, <3>2 DEF Live
      <3>4. QED BY <1>1, <2>1, <3>1, <3>3
    <2>4. o \in Live' /\ BeingDropped(o) => Excused(o)'
      <3>1. BeingDropped(o) => BeingDropped(o)' \/ o \in taken
        BY <1>6 DEF BeingDropped, taken
      <3>2. QED BY <1>7, <2>3, <3>1 DEF Excused
    <2>5. QED BY <1>7, <2>1, <2>2, <2>4 DEF CleanupInv, Marked, Excused
  <1>12. QED BY <1>8, <1>10, <1>11 DEF CleanupInv

\* A scene is about to be dropped when its goroutine starts.
LEMMA DeleteSceneKeeps ==
  ASSUME CleanupInv, NEW w \in Deleters, NEW s \in Scenes, DeleteScene(w, s)
  PROVE  CleanupInv'
  <1> DEFINE r == [pc |-> "drop scene", o |-> s, taken |-> {s}]
             owners == <<s>>
  <1>1. /\ r \in Requests /\ r.pc = "drop scene" /\ r.o = s /\ r.taken = {s}
        /\ Proceed(w, r) /\ del[w].pc = "idle" /\ UNCHANGED <<rowVars, bucket, fate>>
    BY DEF Requests, DropReq, Owners, DeleteScene
  <1>2. owners \in Seq(Owners) /\ Elements(owners) = {s}
    BY DEF Owners, Elements
  <1>3. PICK j \in JobIds : Spawn(j, owners)
    BY DEF DeleteScene
  <1> HIDE DEF r, owners
  <1>4. DelTyped' /\ \A v \in Deleters : del'[v] = IF v = w THEN r ELSE del[v]
    BY <1>1, ProceedTyped DEF CleanupInv, TypeInv
  <1>5. JobsTyped' /\ \A i \in JobIds : jobs'[i].todo = IF i = j THEN owners ELSE jobs[i].todo
    BY <1>2, <1>3, SpawnTyped DEF CleanupInv, TypeInv
  <1>6. TypeInv'
    BY <1>1, <1>4, <1>5 DEF CleanupInv, TypeInv, RowsTyped, rowVars
  <1>7. DropsOK'
    <2>1. DropsOK /\ UNCHANGED <<tourOf, fate>> /\ DropOK(r, tourOf', fate'.back)
      BY <1>1 DEF CleanupInv, DropOK, rowVars
    <2>2. QED BY <1>4, <2>1, MoveKeepsDrops
  <1>8. ASSUME NEW o \in Owners PROVE Marked(o)'
    <2>1. BeingDropped(o) => BeingDropped(o)'
      BY <1>1, <1>4 DEF BeingDropped
    <2>2. o = s => BeingDropped(o)'
      BY <1>1, <1>4 DEF BeingDropped
    <2>3. Hit(o)' => Hit(o) \/ o = s
      <3>1. \A i \in JobIds : Pending(i, o)' => o \in Elements(jobs'[i].todo)
        BY DEF Pending, Elements
      <3>2. \A i \in JobIds : o \in Elements(jobs[i].todo) => Pending(i, o)
        BY PendingElements
      <3>3. \A i \in JobIds : o \in Elements(jobs'[i].todo) => o = s \/ Pending(i, o)
        BY <1>2, <1>5, <3>2
      <3>4. QED BY <1>1, <3>1, <3>3 DEF Hit
    <2>4. QED BY <1>1, <2>1, <2>2, <2>3 DEF CleanupInv, Marked, Excused, Live, rowVars
  <1>9. QED BY <1>6, <1>7, <1>8 DEF CleanupInv

\* The row of the scene goes.
LEMMA DropSceneKeeps ==
  ASSUME CleanupInv, NEW w \in Deleters, DropScene(w)
  PROVE  CleanupInv'
  <1> DEFINE s == del[w].o
  <1>1. s \in Scenes /\ del[w].taken = {s}
    BY DEF CleanupInv, DropsOK, DropOK, DropScene
  <1>2. /\ tourOf' = Without(tourOf, {s}) /\ Proceed(w, Idle)
        /\ UNCHANGED <<standing, bucket, jobs, fate>>
    BY DEF DropScene
  <1>3. DelTyped' /\ \A v \in Deleters : del'[v] = IF v = w THEN Idle ELSE del[v]
    BY <1>2, RequestKinds, ProceedTyped DEF CleanupInv, TypeInv
  <1>4. BeingDropped(s)
    BY <1>1 DEF BeingDropped, DropScene
  <1> HIDE DEF s
  <1>5. RowsTyped'
    BY <1>2, SceneryTables DEF CleanupInv, TypeInv, RowsTyped
  <1>6. TypeInv'
    BY <1>2, <1>3, <1>5 DEF CleanupInv, TypeInv, JobsTyped
  <1>7. DOMAIN tourOf' = DOMAIN tourOf \ {s} /\ \A x \in DOMAIN tourOf' : tourOf'[x] = tourOf[x]
    BY <1>2 DEF Without
  <1>8. DropsOK'
    <2>1. DropsOK /\ fate' = fate /\ DropOK(Idle, tourOf', fate'.back)
      BY <1>2, RequestKinds DEF CleanupInv, DropOK
    <2>2. QED BY <1>3, <1>7, <2>1, MoveKeepsDrops
  <1>9. ASSUME NEW o \in Owners PROVE Marked(o)'
    <2>1. o \in Live' => o \in Live /\ o # s
      BY <1>1, <1>2, <1>5, <1>7, TableIdsDisjoint DEF Live, RowsTyped
    <2>2. BeingDropped(o) => BeingDropped(o)' \/ o = s
      BY <1>1, <1>3 DEF BeingDropped
    <2>3. QED BY <1>2, <2>1, <2>2 DEF CleanupInv, Marked, Hit, Excused, Pending
  <1>10. QED BY <1>6, <1>8, <1>9 DEF CleanupInv

\* The rows stay: what the deletion took is back.
LEMMA RollBackKeeps ==
  ASSUME CleanupInv, NEW w \in Deleters, RollBack(w)
  PROVE  CleanupInv'
  <1> DEFINE taken == Taken(w)
  <1>1. taken \in SUBSET Owners
    BY DropLocals DEF CleanupInv, Taken
  <1>2. /\ Proceed(w, Idle) /\ fate' = [fate EXCEPT !.back = @ \cup taken]
        /\ UNCHANGED <<rowVars, bucket, jobs>>
    BY DEF RollBack
  <1>3. \A o : o \in taken <=> del[w].pc \in {"drop tour", "drop scene"} /\ o \in del[w].taken
    BY DEF Taken
  <1> HIDE DEF taken
  <1>4. DelTyped' /\ \A v \in Deleters : del'[v] = IF v = w THEN Idle ELSE del[v]
    BY <1>2, RequestKinds, ProceedTyped DEF CleanupInv, TypeInv
  <1>5. fate' \in Fate /\ fate'.back = fate.back \cup taken /\ fate'.robbed = fate.robbed
    BY <1>1, <1>2, FateGrows DEF CleanupInv, TypeInv
  <1>6. TypeInv'
    BY <1>2, <1>4, <1>5 DEF CleanupInv, TypeInv, RowsTyped, JobsTyped, rowVars
  <1>7. DropsOK'
    <2>1. /\ DropsOK /\ tourOf' = tourOf /\ fate.back \subseteq fate'.back
          /\ DropOK(Idle, tourOf', fate'.back)
      BY <1>2, <1>5, RequestKinds DEF CleanupInv, DropOK, rowVars
    <2>2. QED BY <1>4, <2>1, MoveKeepsDrops
  <1>8. ASSUME NEW o \in Owners PROVE Marked(o)'
    <2>1. Excused(o) => Excused(o)'
      BY <1>3, <1>4, <1>5 DEF Excused, BeingDropped
    <2>2. QED BY <1>2, <1>5, <2>1 DEF CleanupInv, Marked, Hit, Live, Pending, rowVars
  <1>9. QED BY <1>6, <1>7, <1>8 DEF CleanupInv

\* A goroutine only robs what was pending to it.
LEMMA JobStepKeeps ==
  ASSUME CleanupInv, NEW j \in JobIds, JobStep(j)
  PROVE  CleanupInv'
  <1>1. /\ TypeInv' /\ UNCHANGED <<rowVars, del>>
        /\ fate'.back = fate.back /\ fate'.robbed \subseteq fate.robbed \cup {Now(j)}
        /\ Now(j) \in Elements(jobs[j].todo)
        /\ \A i \in JobIds : Elements(jobs'[i].todo) \subseteq Elements(jobs[i].todo)
    BY JobStepTyped DEF CleanupInv
  <1>2. DropsOK'
    BY <1>1 DEF CleanupInv, DropsOK, DropOK, rowVars
  <1>3. ASSUME NEW o \in Owners PROVE Marked(o)'
    <2>1. Hit(o)' => Hit(o)
      <3>1. \A i \in JobIds : Pending(i, o)' => o \in Elements(jobs'[i].todo)
        BY DEF Pending, Elements
      <3>2. \A i \in JobIds : o \in Elements(jobs[i].todo) => Pending(i, o)
        BY PendingElements
      <3>3. QED BY <1>1, <3>1, <3>2 DEF Hit
    <2>2. QED BY <1>1, <2>1 DEF CleanupInv, Marked, Excused, BeingDropped, Live, rowVars
  <1>4. QED BY <1>1, <1>2, <1>3 DEF CleanupInv

\* Storing an object robs nobody.
LEMMA UploadKeeps ==
  ASSUME CleanupInv, NEW object \in Stored, Upload(object)
  PROVE  CleanupInv'
  <1> DEFINE o == object[1]
  <1>1. {o} \in SUBSET Owners /\ bucket' \subseteq Stored
    BY StoredOfOwners DEF Upload, CleanupInv, TypeInv
  <1> DEFINE more == [fate EXCEPT !.spared = @ \cup {o}]
  <1>2. fate \in Fate /\ (fate' = fate \/ fate' = more)
    BY DEF Upload, CleanupInv, TypeInv
  <1>3. UNCHANGED <<rowVars, del, jobs>>
    BY DEF Upload
  <1> HIDE DEF o
  <1>m. more \in Fate /\ more.back = fate.back /\ more.robbed = fate.robbed
    BY <1>1, <1>2, FateGrows
  <1> HIDE DEF more
  <1>4. fate' \in Fate /\ fate'.back = fate.back /\ fate'.robbed = fate.robbed
    BY <1>2, <1>m
  <1>5. TypeInv'
    BY <1>1, <1>3, <1>4 DEF CleanupInv, TypeInv, RowsTyped, JobsTyped, DelTyped, rowVars
  <1>6. DropsOK'
    BY <1>3, <1>4 DEF CleanupInv, DropsOK, DropOK, rowVars
  <1>7. \A x \in Owners : Marked(x)'
    BY <1>3, <1>4 DEF CleanupInv, Marked, Hit, Excused, BeingDropped, Live, Pending, rowVars
  <1>8. QED BY <1>5, <1>6, <1>7 DEF CleanupInv

\* A scene that is saved while it was to go is back; one that is moved away from a tour that
\* is being dropped was to go.
LEMMA SceneSaveKeeps ==
  ASSUME CleanupInv, NEW s \in Scenes, NEW t \in Tours \cup {Elsewhere}, SceneRowIsSaved(s, t)
  PROVE  CleanupInv'
  <1>1. tourOf' = Saved(tourOf, s, t) /\ UNCHANGED <<standing, del, bucket, jobs>>
    BY DEF SceneRowIsSaved
  <1>2. {s} \in SUBSET Owners
    BY DEF Owners
  <1> DEFINE more == [fate EXCEPT !.back = @ \cup {s}]
  <1>3. /\ fate \in Fate
        /\ fate' = IF Doomed(s) \/ s \in fate.robbed THEN more ELSE fate
    BY DEF SceneRowIsSaved, CleanupInv, TypeInv
  <1>m. more \in Fate /\ more.back = fate.back \cup {s} /\ more.robbed = fate.robbed
    BY <1>2, <1>3, FateGrows
  <1> HIDE DEF more
  <1>4. /\ fate' \in Fate /\ fate.back \subseteq fate'.back /\ fate'.robbed = fate.robbed
        /\ Doomed(s) \/ s \in fate.robbed => s \in fate'.back
    BY <1>3, <1>m
  <1>5. TypeInv'
    BY <1>1, <1>4, SceneryTables
       DEF CleanupInv, TypeInv, RowsTyped, JobsTyped, DelTyped
  <1>6. /\ DOMAIN tourOf' = DOMAIN tourOf \cup {s}
        /\ \A x \in DOMAIN tourOf : x # s => tourOf'[x] = tourOf[x]
    BY <1>1 DEF Saved
  <1>7. DropsOK'
    <2>1. \A w \in Deleters : del[w].pc = "drop tour" /\ s \in del[w].taken => s \in fate'.back
      BY <1>4 DEF Doomed, BeingDropped
    <2>2. QED BY <1>1, <1>4, <1>6, <2>1 DEF CleanupInv, DropsOK, DropOK
  <1>8. ASSUME NEW o \in Owners PROVE Marked(o)'
    <2>1. o \in Live' => o \in Live \/ o = s
      BY <1>1, <1>6 DEF Live
    <2>2. Hit(o)' => Hit(o)
      BY <1>1, <1>4 DEF Hit, Pending
    <2>3. Hit(s) => s \in fate'.back
      BY <1>4 DEF Hit, Doomed
    <2>4. QED BY <1>1, <1>4, <2>1, <2>2, <2>3 DEF CleanupInv, Marked, Excused, BeingDropped
  <1>9. QED BY <1>5, <1>7, <1>8 DEF CleanupInv

\* A tour that is saved again is back.
LEMMA TourSaveKeeps ==
  ASSUME CleanupInv, NEW t \in Tours, TourRowIsSaved(t)
  PROVE  CleanupInv'
  <1>1. /\ standing' = standing \cup {t} /\ UNCHANGED <<tourOf, del, bucket, jobs>>
        /\ fate' = [fate EXCEPT !.back = @ \cup {t}]
    BY DEF TourRowIsSaved
  <1>2. {t} \in SUBSET Owners
    BY DEF Owners
  <1>3. fate' \in Fate /\ fate'.back = fate.back \cup {t} /\ fate'.robbed = fate.robbed
    BY <1>1, <1>2, FateGrows DEF CleanupInv, TypeInv
  <1>4. TypeInv'
    BY <1>1, <1>3 DEF CleanupInv, TypeInv, RowsTyped, JobsTyped, DelTyped
  <1>5. DropsOK'
    BY <1>1, <1>3 DEF CleanupInv, DropsOK, DropOK
  <1>6. \A o \in Owners : Marked(o)'
    BY <1>1, <1>3 DEF CleanupInv, Marked, Hit, Excused, BeingDropped, Live, Pending
  <1>7. QED BY <1>4, <1>5, <1>6 DEF CleanupInv

\* No deletion survives a crash: what was about to be dropped is back.
LEMMA CrashKeeps ==
  ASSUME CleanupInv, Crash
  PROVE  CleanupInv'
  <1> DEFINE lost == {o \in Owners : \E j \in JobIds : Pending(j, o)}
             taken == UNION {Taken(w) : w \in Deleters}
  <1>1. /\ del' = [w \in Deleters |-> Idle] /\ jobs' = [j \in JobIds |-> NoJob]
        /\ fate' = [fate EXCEPT !.spared = @ \cup lost, !.back = @ \cup taken]
        /\ UNCHANGED <<rowVars, bucket>>
    BY DEF Crash
  <1>2. \A o : BeingDropped(o) => o \in taken
    BY DEF BeingDropped, Taken
  <1>3. lost \in SUBSET Owners /\ taken \in SUBSET Owners
    BY DropLocals DEF CleanupInv, Taken
  <1> HIDE DEF lost, taken
  <1>4. fate' \in Fate /\ fate'.back = fate.back \cup taken /\ fate'.robbed = fate.robbed
    BY <1>1, <1>3, FateGrows DEF CleanupInv, TypeInv
  <1>5. NoJob \in Job /\ NoJob.todo = <<>>
    BY EmptySeq DEF NoJob, Job
  <1>6. JobsTyped' /\ DelTyped' /\ \A j \in JobIds : jobs'[j].todo = <<>>
    BY <1>1, <1>5, RequestKinds DEF JobsTyped, DelTyped
  <1>7. TypeInv'
    BY <1>1, <1>4, <1>6 DEF CleanupInv, TypeInv, RowsTyped, rowVars
  <1>8. \A w \in Deleters : del'[w].pc = "idle"
    BY <1>1, RequestKinds
  <1>9. DropsOK'
    BY <1>8 DEF DropsOK, DropOK
  <1>10. ASSUME NEW o \in Owners PROVE Marked(o)'
    <2>1. \A j \in JobIds : ~Pending(j, o)'
      BY <1>6 DEF Pending
    <2>2. QED BY <1>1, <1>2, <1>4, <2>1 DEF CleanupInv, Marked, Hit, Excused, Live, rowVars
  <1>11. QED BY <1>7, <1>9, <1>10 DEF CleanupInv

-----------------------------------------------------------------------------
\* Nothing is hit yet.
LEMMA InitKept == CleanupInit => CleanupInv
  <1> SUFFICES ASSUME CleanupInit PROVE CleanupInv
    OBVIOUS
  <1>1. tourOf \in Scenery /\ DOMAIN tourOf = {} /\ IsFiniteSet({})
    <2>1. tourOf \in [{} -> Tours \cup {Elsewhere}]
      BY DEF CleanupInit
    <2>2. QED BY <2>1, FS_EmptySet DEF Scenery
  <1>2. NoJob \in Job /\ NoJob.todo = <<>>
    BY EmptySeq DEF NoJob, Job
  <1>3. JobsTyped /\ DelTyped /\ \A j \in JobIds : jobs[j].todo = <<>>
    BY <1>2, RequestKinds DEF CleanupInit, JobsTyped, DelTyped
  <1>4. fate \in Fate /\ fate.robbed = {} /\ bucket = {}
    BY DEF CleanupInit, Fate
  <1>5. TypeInv
    BY <1>1, <1>3, <1>4 DEF CleanupInit, TypeInv, RowsTyped
  <1>6. DropsOK
    BY RequestKinds DEF CleanupInit, DropsOK, DropOK
  <1>7. ASSUME NEW o \in Owners PROVE ~Hit(o)
    BY <1>3, <1>4 DEF Hit, Pending
  <1>8. QED BY <1>5, <1>6, <1>7 DEF CleanupInv, Marked

\* The invariant is inductive.
LEMMA NextKept == CleanupInv /\ [CleanupNext]_cleanupVars => CleanupInv'
  <1> SUFFICES ASSUME CleanupInv, [CleanupNext]_cleanupVars PROVE CleanupInv'
    OBVIOUS
  <1>1. ASSUME NEW w \in Deleters,
               \/ \E t \in Tours : DeleteTour(w, t)
               \/ \E s \in Scenes : DeleteScene(w, s)
               \/ CollectScenes(w) \/ DropTour(w) \/ DropScene(w) \/ RollBack(w)
        PROVE  CleanupInv'
    BY <1>1, DeleteTourKeeps, DeleteSceneKeeps, CollectKeeps, DropTourKeeps, DropSceneKeeps,
       RollBackKeeps
  <1>2. ASSUME NEW j \in JobIds, JobStep(j) PROVE CleanupInv'
    BY <1>2, JobStepKeeps
  <1>3. ASSUME NEW object \in Stored, Upload(object) PROVE CleanupInv'
    BY <1>3, UploadKeeps
  <1>4. ASSUME NEW s \in Scenes, NEW t \in Tours \cup {Elsewhere}, SceneRowIsSaved(s, t)
        PROVE  CleanupInv'
    BY <1>4, SceneSaveKeeps
  <1>5. ASSUME NEW t \in Tours, TourRowIsSaved(t) PROVE CleanupInv'
    BY <1>5, TourSaveKeeps
  <1>6. CASE Crash
    BY <1>6, CrashKeeps
  <1>7. CASE UNCHANGED cleanupVars
    BY <1>7 DEF cleanupVars, rowVars, CleanupInv, TypeInv, RowsTyped, JobsTyped, DelTyped,
                DropsOK, DropOK, Marked, Hit, Excused, BeingDropped, Live, Pending
  <1>8. QED BY <1>1, <1>2, <1>3, <1>4, <1>5, <1>6, <1>7 DEF CleanupNext

\* It contains the types,
LEMMA InvariantTypes == CleanupInv => CleanupTypeOK
  BY DEF CleanupInv, TypeInv, RowsTyped, JobsTyped, DelTyped, Requests, CleanupTypeOK

\* and says why a live owner was robbed.
LEMMA InvariantKeeps == CleanupInv => LiveObjectsKept
  <1> SUFFICES ASSUME CleanupInv, NEW o \in Live \cap fate.robbed
               PROVE  BeingDropped(o) \/ o \in fate.back
    BY DEF LiveObjectsKept
  <1>1. o \in Owners
    BY DEF CleanupInv, TypeInv, Fate
  <1>2. QED BY <1>1 DEF CleanupInv, Marked, Hit, Excused

\* Rows, goroutines and handlers keep their types; a goroutine only holds a page while it has
\* a prefix to do.
THEOREM CleanupTyped == CleanupSpec => []CleanupTypeOK
  BY InitKept, NextKept, InvariantTypes, PTL DEF CleanupSpec

\* Whatever fails, whatever is saved again or moved meanwhile: a tour or scene that is there has
\* lost objects only if it is about to be deleted, or came back from a deletion.
THEOREM LiveKeepTheirObjects == CleanupSpec => []LiveObjectsKept
  BY InitKept, NextKept, InvariantKeeps, PTL DEF CleanupSpec

-----------------------------------------------------------------------------
(* Nothing is left behind: every object of an owner that is gone, or about *)
(* to be, is still ahead of some goroutine, unless the owner is spared.    *)

\* Object number n of the prefix that a job is at has not been passed.
AheadOf(job, n) ==
  /\ n > job.after
  /\ job.page # {} => n \in job.page \/ (job.more /\ n > Max(job.page))

Reaches(job, o, n) ==
  \E i \in DOMAIN job.todo : job.todo[i] = o /\ (i = 1 => AheadOf(job, n))

Covered ==
  \A o \in Owners \ fate.spared :
    o \notin Live \/ BeingDropped(o) =>
      \A n \in Places : <<o, n>> \in bucket => \E j \in JobIds : Reaches(jobs[j], o, n)

\* An object of the store is a place of an owner.
LEMMA StoredPlaces ==
  ASSUME bucket \subseteq Stored, NEW object \in bucket
  PROVE  object[1] \in Owners /\ object[2] \in Places /\ object = <<object[1], object[2]>>
  BY StoredOfOwners DEF Places

\* A goroutine that starts has every object of its prefixes before it.
LEMMA NewJobReaches ==
  ASSUME NEW owners \in Seq(Owners), NEW o \in Elements(owners), NEW n \in Places
  PROVE  Reaches([NoJob EXCEPT !.todo = owners], o, n)
  <1> DEFINE job == [NoJob EXCEPT !.todo = owners]
  <1>1. job.todo = owners /\ job.after = 0 /\ job.page = {}
    BY DEF NoJob
  <1>2. n > 0
    BY PlacesFinite
  <1> HIDE DEF job
  <1>3. AheadOf(job, n)
    BY <1>1, <1>2 DEF AheadOf
  <1>4. Reaches(job, o, n)
    BY <1>1, <1>3 DEF Reaches, Elements
  <1>5. QED BY <1>4 DEF job

\* A goroutine that goes on to the next prefix only leaves behind what it had passed.
LEMMA NextReaches ==
  ASSUME NEW job \in Job, job.todo # <<>>, NEW o, NEW n \in Places, Reaches(job, o, n),
         o # Head(job.todo) \/ ~AheadOf(job, n)
  PROVE  Reaches(NextPrefix(job), o, n)
  <1>1. /\ job.todo \in Seq(Owners) /\ Len(job.todo) \in Nat \ {0}
        /\ DOMAIN job.todo = 1..Len(job.todo)
    BY EmptySeq, LenProperties DEF Job
  <1> DEFINE todo == job.todo
             rest == Tail(todo)
  <1>2. todo \in Seq(Owners) /\ todo # <<>> /\ Len(todo) \in Nat \ {0} /\ DOMAIN todo = 1..Len(todo)
    BY <1>1
  <1> HIDE DEF todo
  <1>3. /\ rest \in Seq(Owners) /\ Len(rest) = Len(todo) - 1 /\ DOMAIN rest = 1..Len(rest)
        /\ \A i \in 1..Len(rest) : rest[i] = todo[i + 1]
    BY <1>2, HeadTailProperties, LenProperties
  <1>4. Head(todo) = todo[1]
    BY <1>2
  <1>5. PICK i \in DOMAIN todo : todo[i] = o /\ i # 1
    BY <1>4 DEF Reaches, todo
  <1>6. i - 1 \in DOMAIN rest /\ rest[i - 1] = o
    BY <1>2, <1>3, <1>5
  <1>7. rest \in Seq(Owners) /\ o \in Elements(rest)
    BY <1>3, <1>6 DEF Elements
  <1> HIDE DEF rest
  <1>8. Reaches([NoJob EXCEPT !.todo = rest], o, n)
    BY <1>7, NewJobReaches
  <1>9. QED BY <1>8 DEF NextPrefix, rest, todo

\* What is not on a page that is full lies after it.
LEMMA BehindPage ==
  ASSUME NEW rest \in SUBSET Places, NEW n \in rest, NEW page, page # {},
         page = {m \in rest : Cardinality({k \in rest : k < m}) < PageSize},
         n \notin page
  PROVE  n > Max(page)
  <1>1. page \in SUBSET rest /\ page \in SUBSET Places /\ rest \subseteq Nat /\ IsFiniteSet(rest)
    BY PlacesFinite, FS_Subset
  <1> DEFINE Below(m) == {k \in rest : k < m}
             last == Max(page)
  <1>2. last \in page
    BY <1>1, LastOfPage
  <1>3. \A m \in rest : /\ IsFiniteSet(Below(m)) /\ Cardinality(Below(m)) \in Nat
    <2>1. \A m \in rest : Below(m) \in SUBSET rest
      OBVIOUS
    <2> HIDE DEF Below
    <2>2. QED BY <1>1, <2>1, FS_Subset, FS_CardinalityType
  <1>4. last \in rest /\ last \in Nat /\ n \in Nat
    BY <1>1, <1>2
  <1>5. Cardinality(Below(last)) < PageSize /\ ~(Cardinality(Below(n)) < PageSize)
    BY <1>2
  <1> HIDE DEF last
  <1>6. ASSUME n <= last PROVE FALSE
    <2>1. \A k \in rest : k < n => k < last
      BY <1>1, <1>4, <1>6
    <2>2. Below(n) \in SUBSET Below(last)
      BY <2>1
    <2> HIDE DEF Below
    <2>3. Cardinality(Below(n)) <= Cardinality(Below(last))
      BY <1>3, <1>4, <2>2, FS_Subset
    <2>4. QED BY <1>3, <1>4, <1>5, <2>3, CleanupLimits
  <1>7. QED BY <1>4, <1>6 DEF last

\* A listing passes nothing that is stored.
LEMMA ListReaches ==
  ASSUME TypeInv, NEW j \in JobIds, ListPage(j), NEW o \in Owners, NEW n \in Places,
         <<o, n>> \in bucket, Reaches(jobs[j], o, n)
  PROVE  Reaches(jobs'[j], o, n)
  <1> DEFINE job == jobs[j]
             rest == {m \in Places : <<Now(j), m>> \in bucket /\ m > job.after}
             page == {m \in rest : Cardinality({k \in rest : k < m}) < PageSize}
             listed == [job EXCEPT !.page = page, !.more = page # rest]
  <1>1. /\ job \in Job /\ job.todo # <<>> /\ job.page = {} /\ Now(j) = Head(job.todo)
        /\ jobs \in [JobIds -> Job]
        /\ jobs' = [jobs EXCEPT ![j] = IF rest = {} THEN NextPrefix(job) ELSE listed]
    BY DEF TypeInv, JobsTyped, ListPage, Now
  <1>2. jobs'[j] = IF rest = {} THEN NextPrefix(job) ELSE listed
    BY <1>1
  <1>3. o = Now(j) /\ n > job.after => n \in rest
    OBVIOUS
  <1>4. CASE rest = {}
    <2>1. o # Head(job.todo) \/ ~AheadOf(job, n)
      BY <1>1, <1>3, <1>4 DEF AheadOf
    <2> HIDE DEF job, rest
    <2>2. Reaches(NextPrefix(job), o, n)
      BY <1>1, <2>1, NextReaches DEF job
    <2>3. QED BY <1>2, <1>4, <2>2
  <1>5. CASE rest # {}
    <2>1. /\ listed.todo = job.todo /\ listed.after = job.after /\ listed.page = page
          /\ listed.more = (page # rest)
      BY <1>1 DEF Job
    <2>2. job.todo[1] = Now(j)
      <3>1. job.todo \in Seq(Owners)
        BY <1>1 DEF Job
      <3>2. QED BY <1>1, <3>1
    <2>3. ASSUME o = Now(j), AheadOf(job, n) PROVE AheadOf(listed, n)
      <3>1. n > job.after /\ n \in rest
        BY <1>3, <2>3 DEF AheadOf
      <3>2. CASE n \in page
        BY <2>1, <3>1, <3>2 DEF AheadOf
      <3>3. CASE n \notin page
        <4>1. page # rest /\ rest \in SUBSET Places
          BY <3>1, <3>3
        <4>2. page # {} => n > Max(page)
          BY <3>1, <3>3, <4>1, BehindPage
        <4> HIDE DEF page, rest, listed, job
        <4>3. QED BY <2>1, <3>1, <4>1, <4>2 DEF AheadOf
      <3>4. QED BY <3>2, <3>3
    <2> HIDE DEF listed, page, rest
    <2>4. Reaches(listed, o, n)
      BY <2>1, <2>2, <2>3 DEF Reaches
    <2>5. QED BY <1>2, <1>5, <2>4
  <1>6. QED BY <1>4, <1>5

\* What is still stored after a page was deleted lies ahead, or its owner is spared.
LEMMA DeleteReaches ==
  ASSUME TypeInv, NEW j \in JobIds, DeletePage(j), NEW o \in Owners \ fate'.spared,
         NEW n \in Places, <<o, n>> \in bucket', Reaches(jobs[j], o, n)
  PROVE  Reaches(jobs'[j], o, n)
  <1> DEFINE job == jobs[j]
  <1>1. /\ job \in Job /\ job.page # {} /\ job.page \in SUBSET Places
        /\ jobs \in [JobIds -> Job] /\ jobs' = [jobs EXCEPT ![j] = AfterPage(job)]
        /\ job.todo # <<>>
    BY DEF TypeInv, JobsTyped, DeletePage, Job, NoJob
  <1>2. jobs'[j] = AfterPage(job)
    BY <1>1
  <1>3. o = Now(j) => n \notin job.page
    <2>1. PICK refused \in SUBSET job.page :
            /\ bucket' = bucket \ {<<Now(j), m>> : m \in job.page \ refused}
            /\ fate' = [fate EXCEPT
                 !.spared = IF refused = {} THEN @ ELSE @ \cup {Now(j)},
                 !.robbed = IF bucket' = bucket THEN @ ELSE @ \cup {Now(j)}]
      BY DEF DeletePage
    <2>2. fate'.spared = IF refused = {} THEN fate.spared ELSE fate.spared \cup {Now(j)}
      BY <2>1 DEF TypeInv, Fate
    <2>3. QED BY <2>1, <2>2
  <1>4. job.todo \in Seq(Owners) /\ Now(j) = Head(job.todo) /\ job.todo[1] = Now(j)
    <2>1. job.todo \in Seq(Owners)
      BY <1>1 DEF Job
    <2>2. QED BY <1>1, <2>1 DEF Now
  <1> HIDE DEF job
  <1>5. CASE ~job.more
    <2>1. o # Head(job.todo) \/ ~AheadOf(job, n)
      BY <1>1, <1>3, <1>4, <1>5 DEF AheadOf
    <2>2. Reaches(NextPrefix(job), o, n)
      BY <1>1, <2>1, NextReaches DEF job
    <2>3. QED BY <1>2, <1>5, <2>2 DEF AfterPage
  <1>6. CASE job.more
    <2> DEFINE last == Max(job.page)
               next == [job EXCEPT !.after = last, !.page = {}, !.more = FALSE]
    <2>1. next.todo = job.todo /\ next.after = last /\ next.page = {}
      BY <1>1 DEF Job
    <2>2. AfterPage(job) = next
      BY <1>6 DEF AfterPage
    <2>3. ASSUME o = Now(j), AheadOf(job, n) PROVE n > last
      BY <1>1, <1>3, <2>3 DEF AheadOf
    <2> HIDE DEF next, last
    <2>4. o = Now(j) /\ AheadOf(job, n) => AheadOf(next, n)
      BY <2>1, <2>3 DEF AheadOf
    <2>5. Reaches(next, o, n)
      BY <1>4, <2>1, <2>4 DEF Reaches, job
    <2>6. QED BY <1>2, <2>2, <2>5
  <1>7. QED BY <1>5, <1>6

\* So a step of a goroutine loses no object out of sight.
LEMMA JobStepCovers ==
  ASSUME TypeInv, Covered, NEW j \in JobIds, JobStep(j)
  PROVE  Covered'
  <1>1. /\ UNCHANGED <<rowVars, del>> /\ bucket' \subseteq bucket
        /\ fate.spared \subseteq fate'.spared
        /\ \A i \in JobIds \ {j} : jobs'[i] = jobs[i]
    BY DEF JobStep, ListPage, DeletePage, PrefixFails, TypeInv, JobsTyped, Fate
  <1>2. ASSUME NEW o \in Owners \ fate'.spared, o \notin Live' \/ BeingDropped(o)',
               NEW n \in Places, <<o, n>> \in bucket'
        PROVE  \E i \in JobIds : Reaches(jobs'[i], o, n)
    <2>1. o \in Owners \ fate.spared /\ <<o, n>> \in bucket /\ (o \notin Live \/ BeingDropped(o))
      BY <1>1, <1>2 DEF Live, BeingDropped, rowVars
    <2>2. PICK i \in JobIds : Reaches(jobs[i], o, n)
      BY <2>1 DEF Covered
    <2>3. CASE i # j
      BY <1>1, <2>2, <2>3
    <2>4. CASE i = j
      <3>1. CASE ListPage(j)
        BY <2>1, <2>2, <2>4, <3>1, ListReaches
      <3>2. CASE DeletePage(j)
        BY <1>2, <2>2, <2>4, <3>2, DeleteReaches
      <3>3. CASE PrefixFails(j)
        <4>1. /\ jobs[j] \in Job /\ jobs[j].todo # <<>> /\ jobs'[j] = NextPrefix(jobs[j])
              /\ o # Head(jobs[j].todo)
          BY <1>2, <3>3 DEF PrefixFails, AfterError, TypeInv, JobsTyped, Fate, Now
        <4>2. QED BY <2>2, <2>4, <4>1, NextReaches
      <3>4. QED BY <3>1, <3>2, <3>3 DEF JobStep
    <2>5. QED BY <2>3, <2>4
  <1>3. QED BY <1>2 DEF Covered

\* A step that takes no goroutine away, stores nothing, and makes nobody an orphan who was none
\* and whose objects no goroutine was given.
LEMMA KeepsCovered ==
  ASSUME Covered, bucket' \subseteq bucket, fate.spared \subseteq fate'.spared,
         \A i \in JobIds, o \in Owners, n \in Places :
           Reaches(jobs[i], o, n) => Reaches(jobs'[i], o, n),
         \A o \in Owners \ fate'.spared : o \notin Live' \/ BeingDropped(o)' =>
           \/ o \notin Live \/ BeingDropped(o)
           \/ \A n \in Places : \E i \in JobIds : Reaches(jobs'[i], o, n)
  PROVE  Covered'
  BY DEF Covered

\* A free slot reaches nothing, so nothing is lost when it is taken.
LEMMA SpawnReaches ==
  ASSUME TypeInv, NEW j \in JobIds, NEW owners \in Seq(Owners), FreeSlot(j), Spawn(j, owners)
  PROVE  /\ \A i \in JobIds, o \in Owners, n \in Places :
              Reaches(jobs[i], o, n) => Reaches(jobs'[i], o, n)
         /\ \A o \in Elements(owners), n \in Places : Reaches(jobs'[j], o, n)
  <1> DEFINE new == [NoJob EXCEPT !.todo = owners]
  <1>1. \A o \in Elements(owners), n \in Places : Reaches(new, o, n)
    BY NewJobReaches
  <1>2. \A i \in JobIds : jobs'[i] = IF i = j THEN new ELSE jobs[i]
    BY DEF Spawn, TypeInv, JobsTyped
  <1>3. \A o, n : ~Reaches(jobs[j], o, n)
    BY EmptySeq DEF FreeSlot, Reaches
  <1> HIDE DEF new
  <1>4. QED BY <1>1, <1>2, <1>3

\* The goroutine of a tour has every object of what is about to go ahead of it.
LEMMA CollectCovers ==
  ASSUME CleanupInv, Covered, NEW w \in Deleters, CollectScenes(w)
  PROVE  Covered'
  <1> DEFINE t == del[w].t
  <1>1. del[w].pc = "collect" /\ t \in Tours /\ del \in [Deleters -> Requests]
    BY RequestKinds DEF CollectScenes, CleanupInv, TypeInv, DelTyped, Requests
  <1>2. UNCHANGED <<rowVars, bucket, fate>>
    BY DEF CollectScenes
  <1> HIDE DEF t
  <1>3. CASE UNCHANGED jobs /\ Proceed(w, [pc |-> "drop tour", o |-> t, taken |-> {}])
    <2>1. \A o : BeingDropped(o)' => BeingDropped(o)
      BY <1>1, <1>3 DEF BeingDropped, Proceed
    <2>2. QED BY <1>2, <1>3, <2>1, KeepsCovered DEF Live, rowVars
  <1>4. ASSUME NEW S \in FirstScenes(tourOf, t, ListLimit), NEW j \in JobIds, FreeSlot(j),
               Spawn(j, OwnersOf(t, S)),
               Proceed(w, [pc |-> "drop tour", o |-> t, taken |-> {t} \cup S])
        PROVE  Covered'
    <2>1. S \in SUBSET Scenes /\ IsFiniteSet(S)
      BY SceneryTables, FS_Subset DEF FirstScenes, ScenesOf, CleanupInv, TypeInv, RowsTyped
    <2> DEFINE owners == OwnersOf(t, S)
    <2>2. owners \in Seq(Owners) /\ {t} \cup S \subseteq Elements(owners)
      BY <1>1, <2>1, OwnersListed
    <2>3. Spawn(j, owners)
      BY <1>4
    <2> HIDE DEF owners
    <2>4. /\ \A i \in JobIds, o \in Owners, n \in Places :
               Reaches(jobs[i], o, n) => Reaches(jobs'[i], o, n)
          /\ \A o \in {t} \cup S, n \in Places : Reaches(jobs'[j], o, n)
      BY <1>4, <2>2, <2>3, SpawnReaches DEF CleanupInv
    <2>5. \A o : BeingDropped(o)' => BeingDropped(o) \/ o \in {t} \cup S
      BY <1>1, <1>4 DEF BeingDropped, Proceed
    <2>6. QED BY <1>2, <2>4, <2>5, KeepsCovered DEF Live, rowVars
  <1>5. QED BY <1>3, <1>4 DEF CollectScenes, t

\* So has that of a scene.
LEMMA DeleteSceneCovers ==
  ASSUME CleanupInv, Covered, NEW w \in Deleters, NEW s \in Scenes, DeleteScene(w, s)
  PROVE  Covered'
  <1>1. del \in [Deleters -> Requests] /\ UNCHANGED <<rowVars, bucket, fate>>
    BY DEF CleanupInv, TypeInv, DelTyped, DeleteScene
  <1> DEFINE owners == <<s>>
  <1>2. PICK j \in JobIds : FreeSlot(j) /\ Spawn(j, owners)
    BY DEF DeleteScene
  <1>3. owners \in Seq(Owners) /\ s \in Elements(owners)
    BY DEF Owners, Elements
  <1> HIDE DEF owners
  <1>4. /\ \A i \in JobIds, o \in Owners, n \in Places :
             Reaches(jobs[i], o, n) => Reaches(jobs'[i], o, n)
        /\ \A n \in Places : Reaches(jobs'[j], s, n)
    BY <1>2, <1>3, SpawnReaches DEF CleanupInv
  <1>5. \A o : BeingDropped(o)' => BeingDropped(o) \/ o = s
    BY <1>1 DEF BeingDropped, DeleteScene, Proceed
  <1>6. QED BY <1>1, <1>4, <1>5, KeepsCovered DEF Live, rowVars

\* The rows that go are spared, or were about to go.
LEMMA DropTourCovers ==
  ASSUME CleanupInv, Covered, NEW w \in Deleters, DropTour(w)
  PROVE  Covered'
  <1> DEFINE gone == {del[w].o} \cup ScenesOf(tourOf, del[w].o)
  <1>1. /\ standing' = standing \ gone /\ tourOf' = Without(tourOf, gone)
        /\ fate' = [fate EXCEPT !.spared = @ \cup (gone \ del[w].taken)]
        /\ Proceed(w, Idle) /\ UNCHANGED <<bucket, jobs>> /\ del[w].pc = "drop tour"
    BY DEF DropTour
  <1> HIDE DEF gone
  <1>2. fate'.spared = fate.spared \cup (gone \ del[w].taken)
    BY <1>1 DEF CleanupInv, TypeInv, Fate
  <1>3. \A o : BeingDropped(o)' => BeingDropped(o)
    BY <1>1, RequestKinds DEF BeingDropped, Proceed, CleanupInv, TypeInv, DelTyped
  <1>4. \A o : o \in Live /\ o \notin Live' => o \in gone
    BY <1>1 DEF Live, Without
  <1>5. \A o \in gone : o \in fate'.spared \/ BeingDropped(o)
    BY <1>1, <1>2 DEF BeingDropped
  <1>6. QED BY <1>1, <1>2, <1>3, <1>4, <1>5, KeepsCovered

\* The other steps of a deletion make no owner go that was not about to.
LEMMA OtherRequestsCover ==
  ASSUME CleanupInv, Covered, NEW w \in Deleters,
         (\E t \in Tours : DeleteTour(w, t)) \/ DropScene(w) \/ RollBack(w)
  PROVE  Covered'
  <1>1. UNCHANGED <<bucket, jobs>> /\ fate'.spared = fate.spared
    BY DEF DeleteTour, DropScene, RollBack, CleanupInv, TypeInv, Fate
  <1>2. \A o : BeingDropped(o)' => BeingDropped(o)
    <2>1. PICK r : Proceed(w, r) /\ r.pc \notin {"drop tour", "drop scene"}
      <3>1. ASSUME NEW t \in Tours, DeleteTour(w, t)
            PROVE  \E r : Proceed(w, r) /\ r.pc \notin {"drop tour", "drop scene"}
        <4> DEFINE r == [pc |-> "collect", t |-> t]
        <4>1. Proceed(w, r) /\ r.pc = "collect"
          BY <3>1 DEF DeleteTour
        <4> HIDE DEF r
        <4>2. QED BY <4>1
      <3>2. CASE DropScene(w) \/ RollBack(w)
        BY <3>2, RequestKinds DEF DropScene, RollBack
      <3>3. QED BY <3>1, <3>2
    <2>2. QED BY <2>1 DEF BeingDropped, Proceed, CleanupInv, TypeInv, DelTyped
  <1>3. \A o : o \in Live /\ o \notin Live' => BeingDropped(o)
    <2>1. CASE DropScene(w)
      <3>1. del[w].pc = "drop scene" /\ del[w].o \in del[w].taken
        BY <2>1 DEF DropScene, CleanupInv, DropsOK, DropOK
      <3>2. QED BY <2>1, <3>1 DEF DropScene, Live, Without, BeingDropped
    <2>2. CASE UNCHANGED rowVars
      BY <2>2 DEF Live, rowVars
    <2>3. QED BY <2>1, <2>2 DEF DeleteTour, RollBack
  <1>4. QED BY <1>1, <1>2, <1>3, KeepsCovered

\* Saving a row makes no owner go.
LEMMA RowSavesCover ==
  ASSUME CleanupInv, Covered,
         \/ \E s \in Scenes, t \in Tours \cup {Elsewhere} : SceneRowIsSaved(s, t)
         \/ \E t \in Tours : TourRowIsSaved(t)
  PROVE  Covered'
  <1>1. UNCHANGED <<del, bucket, jobs>> /\ fate'.spared = fate.spared
    BY DEF SceneRowIsSaved, TourRowIsSaved, CleanupInv, TypeInv, Fate
  <1>2. \A o : o \in Live => o \in Live'
    BY DEF SceneRowIsSaved, TourRowIsSaved, Live, Saved
  <1>3. QED BY <1>1, <1>2, KeepsCovered DEF BeingDropped

\* What is stored for an owner that is gone, or doomed, spares the owner.
LEMMA UploadCovers ==
  ASSUME CleanupInv, Covered, NEW object \in Stored, Upload(object)
  PROVE  Covered'
  <1>1. /\ UNCHANGED <<rowVars, del, jobs>> /\ bucket' = bucket \cup {object}
        /\ fate.spared \subseteq fate'.spared
        /\ object[1] \notin Live \/ Doomed(object[1]) => object[1] \in fate'.spared
    BY DEF Upload, CleanupInv, TypeInv, Fate
  <1>2. ASSUME NEW o \in Owners \ fate'.spared, o \notin Live \/ BeingDropped(o),
               NEW n \in Places, <<o, n>> \in bucket'
        PROVE  \E i \in JobIds : Reaches(jobs[i], o, n)
    <2>1. o # object[1]
      BY <1>1, <1>2 DEF Doomed
    <2>2. <<o, n>> \in bucket
      BY <1>1, <1>2, <2>1
    <2>3. QED BY <1>1, <1>2, <2>2 DEF Covered
  <1>3. QED BY <1>1, <1>2 DEF Covered, Live, BeingDropped, rowVars

\* A crash spares every owner some goroutine had still to do.
LEMMA CrashCovers ==
  ASSUME CleanupInv, Covered, Crash
  PROVE  Covered'
  <1>1. UNCHANGED <<rowVars, bucket>> /\ fate.spared \subseteq fate'.spared
    BY DEF Crash, CleanupInv, TypeInv, Fate
  <1>2. \A o \in Owners, j \in JobIds : Pending(j, o) => o \in fate'.spared
    BY DEF Crash, CleanupInv, TypeInv, Fate
  <1>3. \A o : ~BeingDropped(o)'
    BY RequestKinds DEF Crash, BeingDropped
  <1>4. \A j \in JobIds : \A o, n : Reaches(jobs[j], o, n) => Pending(j, o)
    BY DEF Reaches, Pending
  <1>5. ASSUME NEW o \in Owners \ fate'.spared, o \notin Live, NEW n \in Places
        PROVE  <<o, n>> \notin bucket
    <2>1. o \in Owners \ fate.spared /\ \A j \in JobIds : ~Reaches(jobs[j], o, n)
      BY <1>1, <1>2, <1>4, <1>5
    <2>2. QED BY <1>5, <2>1 DEF Covered
  <1>6. QED BY <1>1, <1>3, <1>5 DEF Covered, Live, rowVars

\* Nothing is stored yet.
LEMMA InitCovered == CleanupInit => Covered
  BY DEF CleanupInit, Covered

\* The covering is kept by every step.
LEMMA NextCovered == CleanupInv /\ Covered /\ [CleanupNext]_cleanupVars => Covered'
  <1> SUFFICES ASSUME CleanupInv, Covered, [CleanupNext]_cleanupVars PROVE Covered'
    OBVIOUS
  <1>1. ASSUME NEW w \in Deleters,
               \/ \E t \in Tours : DeleteTour(w, t)
               \/ \E s \in Scenes : DeleteScene(w, s)
               \/ CollectScenes(w) \/ DropTour(w) \/ DropScene(w) \/ RollBack(w)
        PROVE  Covered'
    BY <1>1, DeleteSceneCovers, CollectCovers, DropTourCovers, OtherRequestsCover
  <1>2. ASSUME NEW j \in JobIds, JobStep(j) PROVE Covered'
    BY <1>2, JobStepCovers DEF CleanupInv
  <1>3. ASSUME NEW object \in Stored, Upload(object) PROVE Covered'
    BY <1>3, UploadCovers
  <1>4. CASE \/ \E s \in Scenes, t \in Tours \cup {Elsewhere} : SceneRowIsSaved(s, t)
             \/ \E t \in Tours : TourRowIsSaved(t)
    BY <1>4, RowSavesCover
  <1>5. CASE Crash
    BY <1>5, CrashCovers
  <1>6. CASE UNCHANGED cleanupVars
    BY <1>6 DEF cleanupVars, rowVars, Covered, Live, BeingDropped
  <1>7. QED BY <1>1, <1>2, <1>3, <1>4, <1>5, <1>6 DEF CleanupNext

\* Without a goroutine at it, an object that is covered has an owner, or a spared one.
LEMMA CoveredLeavesNothing == CleanupInv /\ Covered => NothingLeftBehind
  <1> SUFFICES ASSUME CleanupInv, Covered, NEW o \in Owners \ (Live \cup fate.spared),
                      \A j \in JobIds : ~Pending(j, o), NEW object \in bucket, object[1] = o
               PROVE  FALSE
    BY DEF NothingLeftBehind
  <1>1. object[2] \in Places /\ <<o, object[2]>> \in bucket
    BY StoredPlaces DEF CleanupInv, TypeInv
  <1>2. PICK j \in JobIds : Reaches(jobs[j], o, object[2])
    BY <1>1 DEF Covered
  <1>3. QED BY <1>2 DEF Reaches, Pending

\* Once no goroutine is busy with a tour or scene that is gone, nothing of it is left in the
\* store, but for the causes that the program knows and drops.
THEOREM NothingStaysBehind == CleanupSpec => []NothingLeftBehind
  BY InitKept, NextKept, InitCovered, NextCovered, CoveredLeavesNothing, PTL DEF CleanupSpec
-----------------------------------------------------------------------------
(* Each step of a goroutine brings it nearer to its end *)

\* A prefix less to do, a later token, or a page to delete where there was none.
Advances(job, next) ==
  \/ Len(next.todo) < Len(job.todo)
  \/ /\ next.todo = job.todo
     /\ \/ next.after > job.after
        \/ next.after = job.after /\ job.page = {} /\ next.page # {}

\* Each step of a goroutine brings it nearer to its end: it has a prefix less to do, or lists
\* from a later place on, or goes from a listing to what it listed - though objects are
\* refused and stored meanwhile, so that what was deleted may be listed again (r2.go:62-99).
JobsAdvance ==
  [][\A j \in JobIds :
       jobs[j].todo # <<>> /\ jobs'[j] # jobs[j] => Advances(jobs[j], jobs'[j])]_jobs

\* What a listing gave comes after its token.
PageBehind(job) == \A n \in job.page : n > job.after

PagesBehind == \A j \in JobIds : PageBehind(jobs[j])

\* A goroutine with nothing on its page.
LEMMA NoPageBehind ==
  ASSUME NEW job, job.page = {}
  PROVE  PageBehind(job)
  BY DEF PageBehind

\* The next prefix, or the end, is an advance.
LEMMA NextAdvances ==
  ASSUME NEW job \in Job, job.todo # <<>>
  PROVE  Advances(job, NextPrefix(job)) /\ PageBehind(NextPrefix(job))
  <1> DEFINE next == NextPrefix(job)
  <1>1. next.todo = Tail(job.todo) /\ next.page = {}
    BY DEF NextPrefix, NoJob
  <1>2. job.todo \in Seq(Owners)
    BY DEF Job
  <1>3. Len(job.todo) \in Nat /\ Len(Tail(job.todo)) = Len(job.todo) - 1
    BY <1>2, HeadTailProperties, LenProperties
  <1> HIDE DEF next
  <1>4. Advances(job, next) /\ PageBehind(next)
    BY <1>1, <1>3, NoPageBehind DEF Advances
  <1>5. QED BY <1>4 DEF next

\* A listing that finds something has a first place, so its first page is not empty.
LEMMA FirstPage ==
  ASSUME NEW rest \in SUBSET Places, rest # {}
  PROVE  {n \in rest : Cardinality({m \in rest : m < n}) < PageSize} # {}
  <1>1. IsFiniteSet(rest) /\ rest \subseteq Nat
    BY PlacesFinite, FS_Subset
  <1> DEFINE Below(x) == {y \in rest : y < x}
             belows == {Below(x) : x \in rest}
  <1>2. belows \subseteq FiniteSubsetsOf(rest)
    BY <1>1, FS_FiniteSubsetsOfFinite
  <1>3. IsWellFoundedOn(StrictSubsetOrdering(rest), FiniteSubsetsOf(rest))
    BY FS_StrictSubsetOrderingWellFounded
  <1>4. PICK A \in belows : \A B \in belows : <<B, A>> \notin StrictSubsetOrdering(rest)
    <2>1. belows # {}
      OBVIOUS
    <2> HIDE DEF belows
    <2>2. QED BY <1>2, <1>3, <2>1, WFMin
  <1>5. PICK x \in rest : A = Below(x)
    OBVIOUS
  <1>6. ASSUME NEW y \in rest, y < x PROVE FALSE
    <2>0. ~ (y < y) /\ \A z \in rest : z < y => z < x
      BY <1>1, <1>6
    <2>1. Below(y) \subseteq Below(x) /\ y \in Below(x) /\ y \notin Below(y)
      BY <1>6, <2>0
    <2>2. Below(y) # A /\ Below(y) \subseteq A /\ Below(y) \in belows
      BY <1>5, <2>1
    <2>3. Below(y) \in SUBSET rest /\ A \in SUBSET rest
      BY <1>5
    <2> HIDE DEF Below, belows
    <2>4. <<Below(y), A>> \in StrictSubsetOrdering(rest)
      BY <2>2, <2>3 DEF StrictSubsetOrdering
    <2>5. QED BY <1>4, <2>2, <2>4
  <1>7. {m \in rest : m < x} = {}
    BY <1>6
  <1>8. Cardinality({m \in rest : m < x}) = 0
    BY <1>7, FS_EmptySet
  <1>9. Cardinality({m \in rest : m < x}) < PageSize
    BY <1>8, CleanupLimits
  <1>10. QED BY <1>9

\* A listing goes on to what it found, behind its token, or to the next prefix.
LEMMA ListAdvances ==
  ASSUME TypeInv, NEW j \in JobIds, ListPage(j)
  PROVE  \E next : /\ jobs' = [jobs EXCEPT ![j] = next]
                   /\ Advances(jobs[j], next) /\ PageBehind(next)
  <1> DEFINE job  == jobs[j]
             rest == {n \in Places : <<Now(j), n>> \in bucket /\ n > job.after}
             page == {n \in rest : Cardinality({m \in rest : m < n}) < PageSize}
             more == page # rest
             next == [job EXCEPT !.page = page, !.more = more]
  <1>1. job \in Job /\ job.todo # <<>> /\ job.page = {}
    BY DEF ListPage, TypeInv, JobsTyped
  <1>2. jobs' = [jobs EXCEPT ![j] = IF rest = {} THEN NextPrefix(job) ELSE next]
    BY DEF ListPage
  <1>3. CASE rest = {}
    <2>1. jobs' = [jobs EXCEPT ![j] = NextPrefix(job)]
      BY <1>2, <1>3
    <2> HIDE DEF job
    <2>2. Advances(job, NextPrefix(job)) /\ PageBehind(NextPrefix(job))
      BY <1>1, NextAdvances
    <2>3. QED BY <2>1, <2>2 DEF job
  <1>4. CASE rest # {}
    <2>1. page # {}
      BY <1>4, FirstPage
    <2>2. \A n \in page : n > job.after
      OBVIOUS
    <2>3. jobs' = [jobs EXCEPT ![j] = next]
      BY <1>2, <1>4
    <2> HIDE DEF job, page, more
    <2>4. next.todo = job.todo /\ next.after = job.after /\ next.page = page
      BY <1>1 DEF Job
    <2> HIDE DEF next
    <2>5. Advances(job, next) /\ PageBehind(next)
      BY <1>1, <2>1, <2>2, <2>4 DEF Advances, PageBehind
    <2>6. QED BY <2>3, <2>5 DEF job
  <1>5. QED BY <1>3, <1>4

\* Deleting a page goes on behind its last place, which is behind the token, or to the next
\* prefix.
LEMMA DeleteAdvances ==
  ASSUME NEW job \in Job, job.todo # <<>>, job.page # {}, PageBehind(job)
  PROVE  Advances(job, AfterPage(job)) /\ PageBehind(AfterPage(job))
  <1>1. CASE ~job.more
    BY <1>1, NextAdvances DEF AfterPage
  <1>2. CASE job.more
    <2> DEFINE next == [job EXCEPT !.after = Max(job.page), !.page = {}, !.more = FALSE]
    <2>1. next.todo = job.todo /\ next.after = Max(job.page) /\ next.page = {}
      BY DEF Job
    <2>2. Max(job.page) \in job.page
      BY LastOfPage DEF Job
    <2>3. AfterPage(job) = next
      BY <1>2 DEF AfterPage
    <2> HIDE DEF next
    <2>4. next.after > job.after
      BY <2>1, <2>2 DEF PageBehind
    <2>5. Advances(job, next) /\ PageBehind(next)
      BY <2>1, <2>4, NoPageBehind DEF Advances
    <2>6. QED BY <2>3, <2>5
  <1>3. QED BY <1>1, <1>2

\* A step of a goroutine is an advance, and leaves its page behind its token.
LEMMA JobStepAdvances ==
  ASSUME TypeInv, PagesBehind, NEW j \in JobIds, JobStep(j)
  PROVE  \E next : /\ jobs' = [jobs EXCEPT ![j] = next]
                   /\ Advances(jobs[j], next) /\ PageBehind(next)
  <1>1. jobs[j] \in Job /\ PageBehind(jobs[j])
    BY DEF TypeInv, JobsTyped, PagesBehind
  <1>2. CASE ListPage(j)
    BY <1>2, ListAdvances
  <1>3. CASE DeletePage(j)
    <2>1. jobs' = [jobs EXCEPT ![j] = AfterPage(jobs[j])] /\ jobs[j].page # {}
      BY <1>3 DEF DeletePage
    <2>2. jobs[j].todo # <<>>
      BY <2>1 DEF TypeInv, JobsTyped, NoJob
    <2>3. QED BY <1>1, <2>1, <2>2, DeleteAdvances
  <1>4. CASE PrefixFails(j)
    <2>1. jobs' = [jobs EXCEPT ![j] = NextPrefix(jobs[j])] /\ jobs[j].todo # <<>>
      BY <1>4 DEF PrefixFails, AfterError
    <2>2. QED BY <1>1, <2>1, NextAdvances
  <1>5. QED BY <1>2, <1>3, <1>4 DEF JobStep

\* What a step does to the goroutines: those that are at work advance.
GoroutinesAdvance ==
  \A j \in JobIds :
    jobs[j].todo # <<>> /\ jobs'[j] # jobs[j] => Advances(jobs[j], jobs'[j])

\* Every step lets the goroutines only advance, and leaves pages behind their tokens.
LEMMA NextAdvance ==
  ASSUME TypeInv, PagesBehind, [CleanupNext]_cleanupVars
  PROVE  PagesBehind' /\ GoroutinesAdvance
  <1>1. jobs \in [JobIds -> Job]
    BY DEF TypeInv, JobsTyped
  <1>2. CASE UNCHANGED jobs
    BY <1>2 DEF PagesBehind, PageBehind, GoroutinesAdvance
  <1>3. ASSUME NEW j \in JobIds, JobStep(j) PROVE PagesBehind' /\ GoroutinesAdvance
    <2>1. PICK next : /\ jobs' = [jobs EXCEPT ![j] = next]
                      /\ Advances(jobs[j], next) /\ PageBehind(next)
      BY <1>3, JobStepAdvances
    <2>2. \A i \in JobIds : jobs'[i] = IF i = j THEN next ELSE jobs[i]
      BY <1>1, <2>1
    <2>3. \A i \in JobIds : PageBehind(jobs'[i])
      BY <2>1, <2>2 DEF PagesBehind
    <2>4. GoroutinesAdvance
      BY <2>1, <2>2 DEF GoroutinesAdvance
    <2>5. QED BY <2>3, <2>4 DEF PagesBehind, PageBehind
  <1>4. ASSUME NEW j \in JobIds, NEW owners, FreeSlot(j), Spawn(j, owners)
        PROVE  PagesBehind' /\ GoroutinesAdvance
    <2> DEFINE next == [NoJob EXCEPT !.todo = owners]
    <2>1. next.page = {}
      BY DEF NoJob
    <2>2. jobs' = [jobs EXCEPT ![j] = next]
      BY <1>4 DEF Spawn
    <2> HIDE DEF next
    <2>3. \A i \in JobIds : jobs'[i] = IF i = j THEN next ELSE jobs[i]
      BY <1>1, <2>2
    <2>4. \A i \in JobIds : PageBehind(jobs'[i])
      BY <2>1, <2>3, NoPageBehind DEF PagesBehind
    <2>5. GoroutinesAdvance
      BY <1>4, <2>3 DEF GoroutinesAdvance, FreeSlot
    <2>6. QED BY <2>4, <2>5 DEF PagesBehind, PageBehind
  <1>5. CASE Crash
    <2>1. \A j \in JobIds : jobs'[j] = NoJob
      BY <1>5 DEF Crash
    <2>2. NoJob.page = {} /\ NoJob.todo = <<>>
      BY DEF NoJob
    <2>3. \A j \in JobIds : jobs[j].todo # <<>> => Len(NoJob.todo) < Len(jobs[j].todo)
      <3> SUFFICES ASSUME NEW j \in JobIds, jobs[j].todo # <<>>
                   PROVE  Len(NoJob.todo) < Len(jobs[j].todo)
        OBVIOUS
      <3>1. jobs[j].todo \in Seq(Owners)
        BY <1>1 DEF Job
      <3>2. Len(jobs[j].todo) \in Nat /\ Len(jobs[j].todo) # 0
        BY <3>1, EmptySeq, LenProperties
      <3>3. QED BY <2>2, <3>2
    <2>4. \A j \in JobIds : PageBehind(jobs'[j])
      BY <2>1, <2>2, NoPageBehind
    <2>5. GoroutinesAdvance
      BY <2>1, <2>3 DEF GoroutinesAdvance, Advances
    <2>6. QED BY <2>4, <2>5 DEF PagesBehind, PageBehind
  <1>6. ASSUME NEW w \in Deleters,
               \/ \E t \in Tours : DeleteTour(w, t)
               \/ \E s \in Scenes : DeleteScene(w, s)
               \/ CollectScenes(w) \/ DropTour(w) \/ DropScene(w) \/ RollBack(w)
        PROVE  \/ UNCHANGED jobs
               \/ \E j \in JobIds : \E owners : FreeSlot(j) /\ Spawn(j, owners)
    BY <1>6 DEF DeleteTour, DeleteScene, CollectScenes, DropTour, DropScene, RollBack
  <1>7. ASSUME \/ \E object \in Stored : Upload(object)
               \/ \E s \in Scenes, t \in Tours \cup {Elsewhere} : SceneRowIsSaved(s, t)
               \/ \E t \in Tours : TourRowIsSaved(t)
               \/ UNCHANGED cleanupVars
        PROVE  UNCHANGED jobs
    BY <1>7 DEF Upload, SceneRowIsSaved, TourRowIsSaved, cleanupVars
  <1>8. QED BY <1>2, <1>3, <1>4, <1>5, <1>6, <1>7 DEF CleanupNext

\* No goroutine has a page yet.
LEMMA InitBehind == CleanupInit => PagesBehind
  BY DEF CleanupInit, PagesBehind, PageBehind, NoJob

\* Each step of a goroutine brings it nearer to its end, in an order in which, places being
\* finitely many, no goroutine can go on for ever.
THEOREM GoroutinesMoveOn == CleanupSpec => JobsAdvance
  <1>1. CleanupInv => TypeInv
    BY DEF CleanupInv
  <1>2. TypeInv /\ PagesBehind /\ [CleanupNext]_cleanupVars => PagesBehind' /\ GoroutinesAdvance
    BY NextAdvance
  <1>3. CleanupSpec => [][GoroutinesAdvance]_jobs
    BY <1>1, <1>2, InitKept, NextKept, InitBehind, PTL DEF CleanupSpec
  <1>4. QED BY <1>3 DEF JobsAdvance, GoroutinesAdvance
=============================================================================
