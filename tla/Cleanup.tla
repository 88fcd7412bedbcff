------------------------------ MODULE Cleanup ------------------------------
(***************************************************************************)
(* The stored objects of tours and scenes, and how they are deleted:       *)
(* service.DeleteTour and DeleteScene (internal/tours/service.go), which   *)
(* start a goroutine and only then the transaction, and the goroutine's    *)
(* work in internal/storage/r2.go, prefix by prefix and page by page.      *)
(*                                                                         *)
(* Nothing ties the two together: the transaction may be rolled back, rows *)
(* may be created, moved and saved again meanwhile, the store may refuse   *)
(* or fail, and the process may stop.  An object is a pair of the tour or  *)
(* scene whose prefix it is under and a number, its place in a listing.    *)
(* A store that is not configured, which nothing is deleted from, is left  *)
(* out.                                                                    *)
(***************************************************************************)
EXTENDS TourTables, SequencesExt

CONSTANTS
  Deleters,    \* those of Workers whose requests are deletions
  ListLimit,   \* the scenes of a tour that are collected: 1000 in service.DeleteTour
  PageSize,    \* the objects in one answer of ListObjectsV2
  Stored,      \* the objects there may be
  MaxJobs      \* bound: goroutines deleting at a time

Owners == Tours \cup Scenes

ASSUME DeletersWork == Deleters \subseteq Workers
ASSUME CleanupLimits == ListLimit \in Nat /\ PageSize \in Nat \ {0} /\ MaxJobs \in Nat \ {0}
ASSUME StoredOfOwners == IsFiniteSet(Stored) /\ Stored \subseteq Owners \X (Nat \ {0})

VARIABLES
  standing, \* the tours that have a row
  tourOf,   \* tourOf[s]: the tour_id of scene s, if it has a row
  del,      \* del[w]: where worker w's handler is, and its locals
  bucket,   \* the objects stored
  jobs,     \* jobs[j]: the goroutine in slot j, if any
  fate      \* history, never read by the program

rowVars == <<standing, tourOf>>

cleanupVars == <<rowVars, del, bucket, jobs, fate>>

JobIds == 1..MaxJobs
Places == {object[2] : object \in Stored}

\* todo: owners whose objects are still to be deleted, the first of them now; after: the
\* continuation token; page: what was listed and is to be deleted; more: IsTruncated.
Job == [todo : Seq(Owners), after : Places \cup {0}, page : SUBSET Places, more : BOOLEAN]

NoJob == [todo |-> <<>>, after |-> 0, page |-> {}, more |-> FALSE]

Pending(j, o) == \E i \in DOMAIN jobs[j].todo : jobs[j].todo[i] = o

CollectReq == [pc : {"collect"}, t : Tours]
DropReq    == [pc : {"drop tour", "drop scene"}, o : Owners, taken : SUBSET Owners]

\* spared: owners some of whose objects nobody will delete, and why is known; robbed:
\* owners that lost an object; back: owners that are there though their objects were to go.
Fate == [spared : SUBSET Owners, robbed : SUBSET Owners, back : SUBSET Owners]

Live == standing \cup DOMAIN tourOf

BeingDropped(o) ==
  \E w \in Deleters : del[w].pc \in {"drop tour", "drop scene"} /\ o \in del[w].taken

Doomed(o) == BeingDropped(o) \/ \E j \in JobIds : Pending(j, o)

Proceed(w, r) == del' = [del EXCEPT ![w] = r]

-----------------------------------------------------------------------------
(* Requests: first the goroutine, then the transaction *)

Spawn(j, owners) == jobs' = [jobs EXCEPT ![j] = [NoJob EXCEPT !.todo = owners]]

FreeSlot(j) == jobs[j].todo = <<>>

DeleteTour(w, t) ==
  /\ del[w].pc = "idle" /\ t \in standing
  /\ Proceed(w, [pc |-> "collect", t |-> t])
  /\ UNCHANGED <<rowVars, bucket, jobs, fate>>

\* Mutant of OwnersOf: the scenes of every tour.
OwnersOf_AnyTour(t, S) == <<t>> \o SetToSeq(DOMAIN tourOf)

OwnersOf(t, S) == <<t>> \o SetToSeq(S)

\* If the scenes cannot be listed, no goroutine is started.
CollectScenes(w) ==
  /\ del[w].pc = "collect"
  /\ LET t == del[w].t
         Drop(taken) == Proceed(w, [pc |-> "drop tour", o |-> t, taken |-> taken])
     IN \/ \E S \in FirstScenes(tourOf, t, ListLimit), j \in JobIds :
             /\ FreeSlot(j)
             /\ Spawn(j, OwnersOf(t, S))
             /\ Drop({t} \cup S)
        \/ UNCHANGED jobs /\ Drop({})
  /\ UNCHANGED <<rowVars, bucket, fate>>

\* The transaction of repo.DeleteTour commits; what it deletes and the goroutine was not
\* told of keeps its objects.
DropTour(w) ==
  /\ del[w].pc = "drop tour"
  /\ LET gone == {del[w].o} \cup ScenesOf(tourOf, del[w].o) IN
       /\ standing' = standing \ gone
       /\ tourOf' = Without(tourOf, gone)
       /\ fate' = [fate EXCEPT !.spared = @ \cup (gone \ del[w].taken)]
  /\ Proceed(w, Idle)
  /\ UNCHANGED <<bucket, jobs>>

\* The scene and its tour were found.
DeleteScene(w, s) ==
  /\ del[w].pc = "idle" /\ s \in DOMAIN tourOf /\ tourOf[s] \in standing
  /\ \E j \in JobIds : FreeSlot(j) /\ Spawn(j, <<s>>)
  /\ Proceed(w, [pc |-> "drop scene", o |-> s, taken |-> {s}])
  /\ UNCHANGED <<rowVars, bucket, fate>>

DropScene(w) ==
  /\ del[w].pc = "drop scene"
  /\ tourOf' = Without(tourOf, {del[w].o})
  /\ Proceed(w, Idle)
  /\ UNCHANGED <<standing, bucket, jobs, fate>>

Taken(w) == IF del[w].pc \in {"drop tour", "drop scene"} THEN del[w].taken ELSE {}

\* The rows could not be deleted, or not collected; the goroutine goes on all the same.
RollBack(w) ==
  /\ del[w].pc # "idle"
  /\ Proceed(w, Idle)
  /\ fate' = [fate EXCEPT !.back = @ \cup Taken(w)]
  /\ UNCHANGED <<rowVars, bucket, jobs>>

-----------------------------------------------------------------------------
(* The goroutine: DeletePrefix for each owner *)

Now(j) == Head(jobs[j].todo)

NextPrefix(job) == [NoJob EXCEPT !.todo = Tail(job.todo)]

\* Mutant of AfterPage: the first page is the last.
AfterPage_First(job) == NextPrefix(job)

\* Mutant of AfterPage: the listing starts over.
AfterPage_NoToken(job) ==
  IF job.more THEN [job EXCEPT !.page = {}, !.more = FALSE] ELSE NextPrefix(job)

AfterPage(job) ==
  IF job.more THEN [job EXCEPT !.after = Max(job.page), !.page = {}, !.more = FALSE]
  ELSE NextPrefix(job)

\* ListObjectsV2: the first PageSize objects after the token.
ListPage(j) ==
  /\ jobs[j].todo # <<>> /\ jobs[j].page = {}
  /\ LET rest == {n \in Places : <<Now(j), n>> \in bucket /\ n > jobs[j].after}
         page == {n \in rest : Cardinality({m \in rest : m < n}) < PageSize}
     IN jobs' = [jobs EXCEPT
          ![j] = IF rest = {} THEN NextPrefix(@)
                 ELSE [@ EXCEPT !.page = page, !.more = page # rest]]
  /\ UNCHANGED <<rowVars, del, bucket, fate>>

\* DeleteObjects is quiet: of objects that the store refuses to delete nobody hears.
DeletePage(j) ==
  /\ jobs[j].page # {}
  /\ \E refused \in SUBSET jobs[j].page :
       /\ bucket' = bucket \ {<<Now(j), n>> : n \in jobs[j].page \ refused}
       /\ fate' = [fate EXCEPT
            !.spared = IF refused = {} THEN @ ELSE @ \cup {Now(j)},
            !.robbed = IF bucket' = bucket THEN @ ELSE @ \cup {Now(j)}]
  /\ jobs' = [jobs EXCEPT ![j] = AfterPage(@)]
  /\ UNCHANGED <<rowVars, del>>

\* Mutant of AfterError: the error ends the goroutine.
AfterError_Ends(job) == NoJob

\* Mutant of AfterError: the page that failed is kept.
AfterError_KeepsPage(job) == [job EXCEPT !.todo = Tail(@)]

\* A warning is logged and the next prefix is taken.
AfterError(job) == NextPrefix(job)

PrefixFails(j) ==
  /\ jobs[j].todo # <<>>
  /\ jobs' = [jobs EXCEPT ![j] = AfterError(@)]
  /\ fate' = [fate EXCEPT !.spared = @ \cup {Now(j)}]
  /\ UNCHANGED <<rowVars, del, bucket>>

JobStep(j) == ListPage(j) \/ DeletePage(j) \/ PrefixFails(j)

-----------------------------------------------------------------------------
(* What goes on around *)

\* A client stores an object; a deletion under way may have passed its place.
Upload(object) ==
  /\ object \in Stored \ bucket
  /\ bucket' = bucket \cup {object}
  /\ fate' = IF object[1] \in Live /\ ~Doomed(object[1]) THEN fate
             ELSE [fate EXCEPT !.spared = @ \cup {object[1]}]
  /\ UNCHANGED <<rowVars, del, jobs>>

\* CreateScene and UpdateScene, which may save a scene that is gone, or move it.
SceneRowIsSaved(s, t) ==
  /\ tourOf' = Saved(tourOf, s, t)
  /\ fate' = IF Doomed(s) \/ s \in fate.robbed THEN [fate EXCEPT !.back = @ \cup {s}] ELSE fate
  /\ UNCHANGED <<standing, del, bucket, jobs>>

\* The save of a copy that was read before the tour was deleted.
TourRowIsSaved(t) ==
  /\ t \notin standing
  /\ standing' = standing \cup {t}
  /\ fate' = [fate EXCEPT !.back = @ \cup {t}]
  /\ UNCHANGED <<tourOf, del, bucket, jobs>>

\* The process stops: open transactions are rolled back, and goroutines forgotten.
Crash ==
  /\ \/ \E w \in Deleters : del[w] # Idle
     \/ \E j \in JobIds : jobs[j] # NoJob
  /\ del' = [w \in Deleters |-> Idle]
  /\ jobs' = [j \in JobIds |-> NoJob]
  /\ fate' = [fate EXCEPT
       !.spared = @ \cup {o \in Owners : \E j \in JobIds : Pending(j, o)},
       !.back = @ \cup UNION {Taken(w) : w \in Deleters}]
  /\ UNCHANGED <<rowVars, bucket>>

CleanupInit ==
  /\ standing = Tours
  /\ tourOf = [s \in {} |-> s]
  /\ del = [w \in Deleters |-> Idle]
  /\ bucket = {}
  /\ jobs = [j \in JobIds |-> NoJob]
  /\ fate = [spared |-> {}, robbed |-> {}, back |-> {}]

CleanupNext ==
  \/ \E w \in Deleters :
       \/ \E t \in Tours : DeleteTour(w, t)
       \/ \E s \in Scenes : DeleteScene(w, s)
       \/ CollectScenes(w) \/ DropTour(w) \/ DropScene(w) \/ RollBack(w)
  \/ \E j \in JobIds : JobStep(j)
  \/ \E object \in Stored : Upload(object)
  \/ \E s \in Scenes, t \in Tours \cup {Elsewhere} : SceneRowIsSaved(s, t)
  \/ \E t \in Tours : TourRowIsSaved(t)
  \/ Crash

\* The store answers every call, with an error if need be, and goroutines are scheduled.
JobFairness == \A j \in JobIds : WF_cleanupVars(JobStep(j))

CleanupSpec ==
  CleanupInit /\ [][CleanupNext]_cleanupVars /\ JobFairness

-----------------------------------------------------------------------------
(* Properties *)

\* Every handler and every goroutine has the locals of its place: a page is only held for
\* a prefix that is being worked on.
CleanupTypeOK ==
  /\ standing \subseteq Tours /\ tourOf \in Scenery
  /\ bucket \subseteq Stored
  /\ jobs \in [JobIds -> Job] /\ \A j \in JobIds : jobs[j].todo = <<>> => jobs[j] = NoJob
  /\ del \in [Deleters -> {Idle} \cup CollectReq \cup DropReq]
  /\ fate \in Fate

\* Of a tour or scene that is gone, and that no goroutine is busy with, nothing is left in
\* the store, unless an object was refused or a call failed for its prefix, the process
\* stopped, something was stored too late, or the scene was not among those collected
\* (service.go:135-152, r2.go:54-105, 115-137).
NothingLeftBehind ==
  \A o \in Owners \ (Live \cup fate.spared) :
    (\A j \in JobIds : ~Pending(j, o)) => \A object \in bucket : object[1] # o

\* A tour or scene that is there has lost objects only if its deletion was asked for: the
\* rows are about to go, or their deletion failed, or another request saved the row again
\* or moved it (service.go:138-151, 239-248).
LiveObjectsKept ==
  \A o \in Live \cap fate.robbed : BeingDropped(o) \/ o \in fate.back

\* A goroutine comes to its end, though the store may fail at every step, may refuse objects
\* that would be listed again, and clients go on storing.  Slots are interchangeable: the
\* first may be that of any goroutine (r2.go:62-99, 122-134).
EveryCleanupEnds ==
  jobs[1].todo # <<>> ~> jobs[1].todo = <<>>
=============================================================================
